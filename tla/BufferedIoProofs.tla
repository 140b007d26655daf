--------------------------- MODULE BufferedIoProofs ---------------------------
(***************************************************************************)
(* Theorems about BufferedIo for any sizes of the resource, the buffers    *)
(* and the disk, and any sources, sinks and inner protocols.               *)
(*                                                                         *)
(* IoInv, the inductive invariant, has one part for each of the three.     *)
(* Each part says which bytes lie where: in the buffer that is read from,  *)
(* in what has been read of the call under way, in what a write has still  *)
(* to put into the file, and in the file of the cache.                     *)
(***************************************************************************)
EXTENDS BufferedIo, SequenceTheorems, TLAPS

(* n bytes from a position on, each of which is named by its own.          *)
Bytes(from, n) == [k \in 1 .. n |-> from + k - 1]

-----------------------------------------------------------------------------
(* The buffer for reading.  A context holds the bytes before the position  *)
(* of its source.                                                          *)
Contexts ==
  [buffer : Seq(Int), buf_ptr : Nat, buffer_size : Nat, orig_buffer_size : Nat, pos : Nat,
   eof_reached : BOOLEAN, error : BOOLEAN, at : Nat]

Begin(x) == x.pos - Len(x.buffer)
Holds(x) ==
  /\ x \in Contexts
  /\ x.pos = x.at /\ Begin(x) >= 0
  /\ x.buffer = Bytes(Begin(x), Len(x.buffer))
  /\ x.buf_ptr <= Len(x.buffer) /\ Len(x.buffer) <= x.buffer_size

Calls == [op : {"idle", "read", "seek", "skip"}, size : Nat, offset : Nat, from : Nat,
          got : Seq(Int), ok : BOOLEAN]
Probes == [on : BOOLEAN, buf : Seq(Int)]
Windows == [from : Int, to : Int, latest : BOOLEAN]
ReadTypeOK ==
  src \in R!Source /\ call \in Calls /\ probe \in Probes /\ window \in Windows

(* What has been read begins where the read began; what is to be skipped   *)
(* lies ahead of the buffer, or has just come into it.                     *)
CallInv ==
  /\ call.op = "read" => /\ call.size > 0 /\ call.got = Bytes(call.from, Len(call.got))
                         /\ R!Tell(s) = call.from + Len(call.got)
  /\ call.op = "skip" => Begin(s) <= call.offset

(* Probing reads from the first byte on, and does nothing else.            *)
ProbeInv ==
  probe.on =>
    /\ probe.buf = Bytes(0, Len(probe.buf)) /\ call.op \in {"idle", "read"}
    /\ Len(probe.buf) = IF call.op = "read" THEN call.from ELSE R!Tell(s)
    /\ window = R!NoWindow

(* While the latest promise of a window, to a context that is not direct,  *)
(* is kept, the buffer begins before the window, and either has room for   *)
(* all of it, so that every refill appends, or holds all of it.  A call    *)
(* under way stays in the window.                                          *)
Covers(x) ==
  /\ Begin(x) <= window.from
  /\ \/ window.to - Begin(x) + IO_BUFFER_SIZE <= x.buffer_size
     \/ window.to + IO_BUFFER_SIZE < x.pos
Promised == window.latest /\ ~src.direct
WindowInv ==
  Promised =>
    /\ ~src.direct /\ ~src.seekable /\ Covers(s)
    /\ call.op = "read" => R!Tell(s) + call.size <= window.to
    /\ call.op \in {"seek", "skip"} => call.offset \in window.from .. window.to

ReadInv == ReadTypeOK /\ Holds(s) /\ CallInv /\ ProbeInv /\ WindowInv

-----------------------------------------------------------------------------
(* The buffer for writing. *)
Data == Marks \cup {"none"}
Writers ==
  [buffer : Seq(Data), buf_ptr : Nat, buffer_size : Nat, pos : Nat, error : BOOLEAN, at : Nat]
Files == [W!Positions -> Data]

WriteTypeOK ==
  /\ sink \in W!Sink /\ out \in Writers /\ file \in Files /\ meant \in Files
  /\ writing \in [op : {"idle", "write", "direct"}, size : Nat, mark : Data]
  /\ place \in Nat /\ strayed \in BOOLEAN /\ open \in BOOLEAN

Fits == out.buf_ptr <= Len(out.buffer) /\ Len(out.buffer) < out.buffer_size

(* What is left to be written of the call under way, laid over the file    *)
(* with the buffer, makes the file what the user means it to be.           *)
Run(n, m) == [k \in 1 .. n |-> m]
Content(v) == W!Over(v.file, v.s.pos, v.s.buffer)
Whole == W!Over(Content(W!Now), W!Tell(out), Run(writing.size, writing.mark))

PlaceInv ==
  /\ W!Tell(out) + writing.size = place
  /\ writing.op = "idle" => writing.size = 0
MeantInv == W!Sound => Whole = meant
ClosedInv == ~open => writing.op = "idle" /\ out.buffer = <<>>

WriteInv == WriteTypeOK /\ Fits /\ W!FailuresKept /\ PlaceInv /\ MeantInv /\ ClosedInv

-----------------------------------------------------------------------------
(* The cache: an entry says where bytes of the resource are in the file,   *)
(* and none lies behind the end.                                           *)
Entries == [logical_pos : Nat, physical_pos : Nat, size : Nat]
Caching ==
  [root : SUBSET Entries, logical_pos : Nat, cache_pos : Nat, inner_pos : Int, end : Nat,
   is_true_eof : BOOLEAN, file : Seq(Int), offset : Nat, inner : Nat]

Held(x, e) ==
  /\ e.physical_pos + e.size <= Len(x.file)
  /\ \A k \in 1 .. e.size : x.file[e.physical_pos + k] = e.logical_pos + k - 1

Faithful(x) ==
  /\ x \in Caching
  /\ x.cache_pos = x.offset /\ x.logical_pos <= x.end
  /\ \A e \in x.root : Held(x, e) /\ C!EndOf(e) <= x.end

CacheInv ==
  /\ prot \in C!Prot /\ seeking \in [whence : {"none", "set", "end"}, pos : Int]
  /\ Faithful(c)

IoInv == ReadInv /\ WriteInv /\ CacheInv
-----------------------------------------------------------------------------
LEMMA Sizes ==
  /\ ReadSize \in Nat /\ IO_BUFFER_SIZE \in Nat \ {0} /\ MaxRead \in Nat \ {0}
  /\ MaxWindow \in Nat \ {0} /\ MaxFile \in Nat \ {0} /\ MaxWrite \in Nat \ {0}
  /\ CacheSize \in Nat \ {0} /\ MaxCacheRead \in Nat \ {0} /\ ShortSeek \in Nat /\ Disk \in Nat
  /\ BufferSizes \subseteq Nat \ {0}
  /\ Sources \subseteq R!Source /\ Sinks \subseteq W!Sink /\ Prots \subseteq C!Prot
BY IoAssumption

LEMMA BytesAre ==
  ASSUME NEW from \in Int, NEW n \in Nat
  PROVE  /\ Bytes(from, n) \in Seq(Int) /\ Len(Bytes(from, n)) = n
         /\ \A k \in 1 .. n : Bytes(from, n)[k] = from + k - 1
BY DEF Bytes

LEMMA SameBytes ==
  ASSUME NEW q \in Seq(Int), NEW from \in Int,
         \A k \in 1 .. Len(q) : q[k] = from + k - 1
  PROVE  q = Bytes(from, Len(q))
<1>1. Bytes(from, Len(q)) \in Seq(Int) /\ Len(Bytes(from, Len(q))) = Len(q)
  BY BytesAre
<1>2. \A k \in 1 .. Len(q) : Bytes(from, Len(q))[k] = q[k]
  BY BytesAre
<1> QED BY <1>1, <1>2, SeqEqual

(* Bytes that follow one another make one run of bytes ...                 *)
LEMMA BytesFollow ==
  ASSUME NEW from \in Int, NEW m \in Nat, NEW n \in Nat
  PROVE  Bytes(from, m) \o Bytes(from + m, n) = Bytes(from, m + n)
<1> DEFINE q == Bytes(from, m) \o Bytes(from + m, n)
<1>1. /\ Bytes(from, m) \in Seq(Int) /\ Len(Bytes(from, m)) = m
      /\ Bytes(from + m, n) \in Seq(Int) /\ Len(Bytes(from + m, n)) = n
  BY BytesAre
<1>2. q \in Seq(Int) /\ Len(q) = m + n
  BY <1>1, ConcatProperties
<1>3. \A k \in 1 .. m + n : q[k] = from + k - 1
  <2> TAKE k \in 1 .. m + n
  <2>1. CASE k <= m
    <3>1. q[k] = Bytes(from, m)[k]
      BY <1>1, <2>1
    <3> QED BY <2>1, <3>1, BytesAre
  <2>2. CASE k > m
    <3>1. q[k] = Bytes(from + m, n)[k - m]
      BY <1>1, <2>2
    <3>2. Bytes(from + m, n)[k - m] = (from + m) + (k - m) - 1
      BY <2>2, BytesAre
    <3>3. (from + m) + (k - m) - 1 = from + k - 1
      OBVIOUS
    <3> QED BY <3>1, <3>2, <3>3, Zenon
  <2>3. k <= m \/ k > m
    OBVIOUS
  <2> QED BY <2>1, <2>2, <2>3, Zenon
<1> QED BY <1>2, <1>3, SameBytes

(* ... and so does any part of one.                                        *)
LEMMA BytesPart ==
  ASSUME NEW from \in Int, NEW n \in Nat, NEW i \in Nat, NEW k \in Nat, i + k <= n
  PROVE  SubSeq(Bytes(from, n), i + 1, i + k) = Bytes(from + i, k)
<1> DEFINE q == SubSeq(Bytes(from, n), i + 1, i + k)
<1>1. Bytes(from, n) \in Seq(Int) /\ Len(Bytes(from, n)) = n
  BY BytesAre
<1>2. q \in Seq(Int) /\ Len(q) = k
  BY <1>1
<1>3. \A j \in 1 .. k : q[j] = (from + i) + j - 1
  <2> TAKE j \in 1 .. k
  <2>1. q[j] = Bytes(from, n)[i + j]
    BY <1>1
  <2>2. Bytes(from, n)[i + j] = from + (i + j) - 1
    BY BytesAre
  <2> QED BY <2>1, <2>2
<1>4. from + i \in Int
  OBVIOUS
<1> HIDE DEF q
<1>5. q = Bytes(from + i, Len(q))
  BY <1>2, <1>3, <1>4, SameBytes
<1> QED BY <1>2, <1>5 DEF q

LEMMA NoBytes ==
  ASSUME NEW from \in Int
  PROVE  Bytes(from, 0) = <<>>
<1>1. Bytes(from, 0) \in Seq(Int) /\ Len(Bytes(from, 0)) = 0
  BY BytesAre
<1> QED BY <1>1, EmptySeq

-----------------------------------------------------------------------------
(* fill_buffer and avio_feof.  HoldsParts spares the proofs the names of   *)
(* the fields.                                                             *)
LEMMA HoldsParts ==
  ASSUME NEW x, Holds(x)
  PROVE  /\ x.buffer \in Seq(Int) /\ Len(x.buffer) \in Nat /\ x.buf_ptr \in Nat
         /\ x.buffer_size \in Nat /\ x.orig_buffer_size \in Nat
         /\ x.pos \in Nat /\ x.at = x.pos
         /\ x.eof_reached \in BOOLEAN /\ x.error \in BOOLEAN
         /\ Begin(x) \in Nat /\ Begin(x) = x.pos - Len(x.buffer)
         /\ x.buf_ptr <= Len(x.buffer) /\ Len(x.buffer) <= x.buffer_size
         /\ R!Tell(x) = Begin(x) + x.buf_ptr
         /\ x.buffer = Bytes(Begin(x), Len(x.buffer))
BY DEF Holds, Contexts, Begin, R!Tell

(* A context whose buffer is empty.                                        *)
LEMMA EmptyHolds ==
  ASSUME NEW v \in Contexts, v.buffer = <<>>, v.buf_ptr = 0, v.at = v.pos
  PROVE  Holds(v) /\ Begin(v) = v.pos /\ R!Tell(v) = v.pos
<1>1. Begin(v) = v.pos /\ R!Tell(v) = v.pos /\ v.pos \in Nat /\ v.buffer_size \in Nat
  BY DEF Begin, R!Tell, Contexts
<1>2. v.buffer = Bytes(Begin(v), Len(v.buffer))
  BY <1>1, NoBytes
<1> QED BY <1>1, <1>2 DEF Holds

LEMMA EndsHold ==
  ASSUME NEW x, Holds(x), NEW v \in R!Ends(x)
  PROVE  /\ Holds(v) /\ Begin(v) = Begin(x) /\ R!Tell(v) = R!Tell(x)
         /\ v.buffer = x.buffer /\ v.buf_ptr = x.buf_ptr /\ v.pos = x.pos
         /\ v.buffer_size = x.buffer_size
<1>1. PICK e \in BOOLEAN : v = [x EXCEPT !.eof_reached = TRUE, !.error = e]
  <2>1. CASE v = [x EXCEPT !.eof_reached = TRUE, !.error = TRUE]
    BY <2>1
  <2>2. CASE v = [x EXCEPT !.eof_reached = TRUE]
    <3>1. v = [x EXCEPT !.eof_reached = TRUE, !.error = x.error]
      BY <2>2 DEF Holds, Contexts
    <3> QED BY <3>1, HoldsParts
  <2> QED BY <2>1, <2>2 DEF R!Ends
<1> QED BY <1>1 DEF Holds, Contexts, Begin, R!Tell

LEMMA ShrunkHolds ==
  ASSUME NEW x, Holds(x), NEW v \in R!Shrunk(x)
  PROVE  /\ Holds(v) /\ v.pos = x.pos
         /\ \/ v = x
            \/ /\ ~R!Appends(x) /\ R!Grown(x) /\ v.buffer = <<>> /\ v.buf_ptr = 0
               /\ v.buffer_size = x.orig_buffer_size
<1>1. CASE v = x
  BY <1>1
<1>2. CASE v # x
  <2> DEFINE u == [x EXCEPT !.buffer = <<>>, !.buf_ptr = 0, !.buffer_size = x.orig_buffer_size]
  <2>1. v = u /\ R!Grown(x) /\ ~R!Appends(x)
    BY <1>2 DEF R!Shrunk
  <2>2. x \in Contexts /\ x.at = x.pos /\ <<>> \in Seq(Int)
    BY DEF Holds
  <2>3. u \in Contexts
    BY <2>2 DEF Contexts
  <2>4. /\ u.pos = x.pos /\ u.at = x.at /\ u.buffer = <<>> /\ u.buf_ptr = 0
        /\ u.buffer_size = x.orig_buffer_size
    BY <2>2 DEF Contexts
  <2> HIDE DEF u
  <2> QED BY <2>1, <2>2, <2>3, <2>4, EmptyHolds
<1> QED BY <1>1, <1>2

LEMMA FilledHolds ==
  ASSUME NEW x, Holds(x), NEW n \in Nat \ {0}, NEW appends \in BOOLEAN,
         appends => Len(x.buffer) + n <= x.buffer_size,
         ~appends => n <= x.buffer_size,
         NEW v, v = R!Filled(x, n, appends)
  PROVE  /\ Holds(v) /\ v.pos = x.pos + n /\ v.buffer_size = x.buffer_size
         /\ v.buf_ptr < Len(v.buffer) /\ R!Tell(v) = x.pos
         /\ Begin(v) = IF appends THEN Begin(x) ELSE x.pos
<1> DEFINE kept == IF appends THEN Len(x.buffer) ELSE 0
           begin == IF appends THEN Begin(x) ELSE x.pos
           b == Bytes(begin, kept + n)
<1>1. R!From(x, n) = Bytes(x.pos, n) /\ x \in Contexts
  BY HoldsParts DEF R!From, Bytes, Holds
<1>2. kept \in Nat /\ begin \in Nat /\ begin + kept = x.pos /\ kept + n <= x.buffer_size
  BY HoldsParts
<1>3. b \in Seq(Int) /\ Len(b) = kept + n
  <2>1. kept + n \in Nat /\ begin \in Int
    BY <1>2
  <2> HIDE DEF kept, begin
  <2> QED BY <2>1, BytesAre
<1>4. (IF appends THEN x.buffer \o R!From(x, n) ELSE R!From(x, n)) = b
  <2>1. CASE appends
    <3>1. x.buffer = Bytes(Begin(x), Len(x.buffer)) /\ Begin(x) + Len(x.buffer) = x.pos
          /\ Begin(x) \in Int /\ Len(x.buffer) \in Nat
      BY HoldsParts
    <3>2. Bytes(Begin(x), Len(x.buffer)) \o Bytes(Begin(x) + Len(x.buffer), n)
            = Bytes(Begin(x), Len(x.buffer) + n)
      BY <3>1, BytesFollow
    <3>3. x.buffer \o R!From(x, n) = Bytes(Begin(x), Len(x.buffer) + n)
      BY <1>1, <3>1, <3>2
    <3> QED BY <2>1, <3>3, Zenon
  <2>2. CASE ~appends
    <3>1. kept + n = n
      BY <2>2
    <3> QED BY <1>1, <2>2, <3>1
  <2> QED BY <2>1, <2>2
<1> HIDE DEF b
<1>5. v = [x EXCEPT !.pos = x.pos + n, !.at = x.at + n, !.buffer = b, !.buf_ptr = kept]
  BY <1>4 DEF R!Filled
<1>6. v \in Contexts
  <2>1. x.pos + n \in Nat /\ x.at + n \in Nat
    BY HoldsParts
  <2> HIDE DEF kept
  <2> QED BY <1>1, <1>2, <1>3, <1>5, <2>1 DEF Contexts
<1>7. /\ v.pos = x.pos + n /\ v.at = x.at + n /\ v.buffer = b /\ v.buf_ptr = kept
      /\ v.buffer_size = x.buffer_size
  BY <1>1, <1>5 DEF Contexts
<1>8. Begin(v) = begin /\ R!Tell(v) = x.pos
  <2>1. Begin(v) = (x.pos + n) - (kept + n) /\ R!Tell(v) = (x.pos + n) - (kept + n) + kept
    BY <1>3, <1>7, Zenon DEF Begin, R!Tell
  <2>2. x.pos \in Nat
    BY HoldsParts
  <2> HIDE DEF kept, begin
  <2> QED BY <1>2, <2>1, <2>2
<1>9. v.buffer = Bytes(Begin(v), Len(v.buffer))
  BY <1>3, <1>7, <1>8 DEF b
<1>10. /\ v.pos = v.at /\ Begin(v) >= 0
       /\ v.buf_ptr < Len(v.buffer) /\ Len(v.buffer) <= v.buffer_size
  <2>1. x.at = x.pos /\ x.pos \in Nat /\ x.buffer_size \in Nat
    BY HoldsParts
  <2>2. Len(v.buffer) = kept + n /\ v.buf_ptr = kept
    BY <1>3, <1>7
  <2> HIDE DEF kept, begin
  <2> QED BY <1>2, <1>7, <1>8, <2>1, <2>2
<1>11. v.buf_ptr <= Len(v.buffer)
  BY <1>2, <1>3, <1>7
<1> QED BY <1>6, <1>7, <1>8, <1>9, <1>10, <1>11 DEF Holds

(* What a refill leaves: nothing new, perhaps in a buffer made smaller, or *)
(* new bytes from the old position of the source on, behind the old ones   *)
(* as long as there is room for a whole read.                              *)
LEMMA FillsHold ==
  ASSUME NEW x, Holds(x), NEW v \in R!Fills(x)
  PROVE  /\ Holds(v) /\ v.pos >= x.pos
         /\ v.pos > x.pos => R!Tell(v) = x.pos /\ v.buf_ptr < Len(v.buffer)
         /\ v.pos = x.pos => R!Tell(v) \in {R!Tell(x), x.pos}
         /\ Begin(v) \in {Begin(x), x.pos}
         /\ R!Appends(x) => Begin(v) = Begin(x) /\ v.buffer_size = x.buffer_size
<1>1. CASE v = x
  BY <1>1, HoldsParts
<1>2. CASE v # x
  <2>1. PICK u \in R!Shrunk(x) :
          v \in R!Ends(u) \cup {R!Filled(u, n, R!Appends(x)) :
                  n \in R!Counts(u, IF R!Grown(x) THEN x.orig_buffer_size ELSE R!Room(x))}
    BY <1>2 DEF R!Fills
  <2>2. /\ Holds(u) /\ u.pos = x.pos
        /\ \/ u = x
           \/ /\ ~R!Appends(x) /\ R!Grown(x) /\ u.buffer = <<>> /\ u.buf_ptr = 0
              /\ u.buffer_size = x.orig_buffer_size
    BY <2>1, ShrunkHolds
  <2>3. u # x => Begin(u) = x.pos /\ R!Tell(u) = x.pos
    BY <2>2 DEF Begin, R!Tell, Holds, Contexts
  <2>4. CASE v \in R!Ends(u)
    <3>1. /\ Holds(v) /\ Begin(v) = Begin(u) /\ R!Tell(v) = R!Tell(u) /\ v.pos = u.pos
          /\ v.buffer_size = u.buffer_size
      BY <2>2, <2>4, EndsHold
    <3> QED BY <2>2, <2>3, <3>1, HoldsParts
  <2>5. CASE v \notin R!Ends(u)
    <3>1. PICK n \in R!Counts(u, IF R!Grown(x) THEN x.orig_buffer_size ELSE R!Room(x)) :
            v = R!Filled(u, n, R!Appends(x))
      BY <2>1, <2>5
    <3>2. /\ n \in Nat \ {0}
          /\ n <= IF R!Grown(x) THEN x.orig_buffer_size ELSE R!Room(x)
      <4>1. PICK m \in Int : m = IF R!Grown(x) THEN x.orig_buffer_size ELSE R!Room(x)
        BY HoldsParts DEF R!Room
      <4>2. u.pos \in Nat /\ u.at = u.pos /\ ReadSize \in Nat
        BY <2>2, HoldsParts, Sizes
      <4> QED BY <3>1, <4>1, <4>2 DEF R!Counts, R!Smaller
    <3>3. R!Grown(x) => R!Room(x) >= x.orig_buffer_size
      BY DEF R!Grown
    <3>4. R!Appends(x) \in BOOLEAN
      BY DEF R!Appends
    <3>5. R!Appends(x) => u = x /\ Len(u.buffer) + n <= u.buffer_size
      BY <2>2, <3>2, <3>3, HoldsParts DEF R!Room
    <3>6. ~R!Appends(x) => n <= u.buffer_size
      BY <2>2, <3>2, <3>3, HoldsParts DEF R!Room
    <3>7. /\ Holds(v) /\ v.pos = u.pos + n /\ v.buffer_size = u.buffer_size
          /\ v.buf_ptr < Len(v.buffer) /\ R!Tell(v) = u.pos
          /\ Begin(v) = IF R!Appends(x) THEN Begin(u) ELSE u.pos
      BY <2>2, <3>1, <3>2, <3>4, <3>5, <3>6, FilledHolds
    <3>8. x.pos \in Nat /\ v.pos > x.pos /\ v.pos # x.pos /\ v.pos >= x.pos
      <4>1. x.pos \in Nat
        BY HoldsParts
      <4> QED BY <2>2, <3>2, <3>7, <4>1
    <3> QED BY <2>2, <3>5, <3>7, <3>8
  <2> QED BY <2>4, <2>5
<1> QED BY <1>1, <1>2

LEMMA FeofsHold ==
  ASSUME NEW x, Holds(x), NEW v \in R!Feofs(x)
  PROVE  /\ Holds(v) /\ v.pos >= x.pos
         /\ v.pos > x.pos => R!Tell(v) = x.pos /\ v.buf_ptr < Len(v.buffer)
         /\ v.pos = x.pos => R!Tell(v) \in {R!Tell(x), x.pos}
         /\ Begin(v) \in {Begin(x), x.pos}
         /\ R!Appends(x) \/ ~x.eof_reached => Begin(v) = Begin(x) /\ v.buffer_size = x.buffer_size
<1>1. CASE ~x.eof_reached
  BY <1>1, HoldsParts DEF R!Feofs
<1>2. CASE x.eof_reached
  <2> DEFINE u == [x EXCEPT !.eof_reached = FALSE]
  <2>1. x \in Contexts /\ v \in R!Fills(u)
    BY <1>2 DEF R!Feofs, Holds
  <2>2. /\ u \in Contexts /\ u.buffer = x.buffer /\ u.buf_ptr = x.buf_ptr /\ u.pos = x.pos
        /\ u.at = x.at /\ u.buffer_size = x.buffer_size
    BY <2>1 DEF Contexts
  <2> HIDE DEF u
  <2>3. Begin(u) = Begin(x) /\ R!Tell(u) = R!Tell(x) /\ (R!Appends(u) <=> R!Appends(x))
    BY <2>2 DEF Begin, R!Tell, R!Appends
  <2>4. Holds(u)
    BY <2>2, <2>3 DEF Holds
  <2> QED BY <1>2, <2>1, <2>2, <2>3, <2>4, FillsHold
<1> QED BY <1>1, <1>2

LEMMA FillsCover ==
  ASSUME NEW x, Holds(x), Covers(x), window.to \in Int, window.from \in Int, x.pos < window.to
  PROVE  /\ \A v \in R!Fills(x) : Covers(v)
         /\ \A v \in R!Feofs(x) : Covers(v)
<1>0. IO_BUFFER_SIZE \in Nat
  BY Sizes
<1>1. window.to - Begin(x) + IO_BUFFER_SIZE <= x.buffer_size
  BY <1>0, HoldsParts DEF Covers
<1>2. R!Appends(x)
  <2>1. /\ x.pos \in Nat /\ Len(x.buffer) \in Nat /\ x.buffer_size \in Nat
        /\ Begin(x) = x.pos - Len(x.buffer)
    BY HoldsParts
  <2> QED BY <1>0, <1>1, <2>1 DEF R!Appends
<1>3. \A v : Begin(v) = Begin(x) /\ v.buffer_size = x.buffer_size => Covers(v)
  BY <1>1 DEF Covers
<1>4. \A v \in R!Fills(x) : Begin(v) = Begin(x) /\ v.buffer_size = x.buffer_size
  BY <1>2, FillsHold
<1>5. \A v \in R!Feofs(x) : Begin(v) = Begin(x) /\ v.buffer_size = x.buffer_size
  BY <1>2, FeofsHold
<1> QED BY <1>3, <1>4, <1>5

-----------------------------------------------------------------------------
(* The steps of reading. *)

LEMMA ReadParts ==
  ASSUME ReadInv
  PROVE  /\ src \in R!Source /\ Holds(s) /\ CallInv /\ ProbeInv /\ WindowInv
         /\ call \in Calls /\ probe \in Probes /\ window \in Windows
         /\ call.op \in {"idle", "read", "seek", "skip"} /\ call.size \in Nat
         /\ call.offset \in Nat /\ call.from \in Nat /\ call.got \in Seq(Int)
         /\ probe.on \in BOOLEAN /\ probe.buf \in Seq(Int)
         /\ window.from \in Int /\ window.to \in Int /\ window.latest \in BOOLEAN
BY DEF ReadInv, ReadTypeOK, Calls, Probes, Windows

LEMMA IdleCall ==
  /\ R!Idle \in Calls /\ R!Idle.op = "idle"
  /\ R!Failed \in Calls /\ R!Failed.op = "idle" /\ R!Failed # R!Idle
  /\ R!NoWindow \in Windows /\ ~R!NoWindow.latest
<1>1. <<>> \in Seq(Int)
  OBVIOUS
<1>2. R!Idle \in Calls /\ R!Idle.op = "idle" /\ R!Idle.ok
  BY <1>1 DEF R!Idle, Calls
<1>3. R!Failed \in Calls /\ R!Failed.op = "idle" /\ ~R!Failed.ok
  BY <1>2 DEF R!Failed, Calls
<1>4. R!NoWindow \in Windows /\ ~R!NoWindow.latest
  BY DEF R!NoWindow, Windows
<1> QED BY <1>2, <1>3, <1>4

LEMMA ReadStarts ==
  ASSUME ReadInv, NEW n \in 1 .. MaxRead, R!Read(n)
  PROVE  ReadInv'
<1>1. n \in Nat /\ n > 0
  BY Sizes
<1>2. call.op = "idle" /\ s' = s /\ src' = src /\ probe' = probe
      /\ window' = R!Within(R!Tell(s) + n)
  BY DEF R!Read
<1>0. R!Tell(s) \in Nat
  <2>1. Holds(s)
    BY ReadParts
  <2>2. /\ s.pos \in Nat /\ Len(s.buffer) \in Nat /\ s.buf_ptr \in Nat /\ Begin(s) \in Nat
        /\ Begin(s) = s.pos - Len(s.buffer) /\ R!Tell(s) = Begin(s) + s.buf_ptr
    BY <2>1, HoldsParts
  <2> QED BY <2>2
<1>3. call' = [op |-> "read", size |-> n, offset |-> 0, from |-> R!Tell(s), got |-> <<>>,
               ok |-> TRUE]
  BY DEF R!Read, R!Idle
<1>4. window' \in {window, R!NoWindow}
      /\ (Promised' => window' = window /\ R!Tell(s) + n \in window.from .. window.to)
  BY <1>2 DEF R!Within, R!NoWindow, Promised
<1>5. ReadTypeOK'
  <2>1. <<>> \in Seq(Int)
    OBVIOUS
  <2>2. call' \in Calls
    BY <1>0, <1>1, <1>3, <2>1 DEF Calls
  <2>3. window' \in Windows
    BY <1>4, ReadParts, IdleCall
  <2> QED BY <1>2, <2>2, <2>3, ReadParts DEF ReadTypeOK
<1>6. Holds(s)'
  BY <1>2, ReadParts
<1>7. CallInv'
  <2>1. Bytes(R!Tell(s), 0) = <<>> /\ Len(<<>>) = 0 /\ R!Tell(s) = R!Tell(s) + 0
    BY <1>0, NoBytes
  <2>2. /\ call'.op = "read" /\ call'.size = n /\ call'.got = <<>> /\ call'.from = R!Tell(s)
    BY <1>3
  <2>3. R!Tell(s)' = R!Tell(s)
    BY <1>2 DEF R!Tell
  <2> QED BY <1>1, <2>1, <2>2, <2>3 DEF CallInv
<1>8. ProbeInv'
  BY <1>2, <1>3, <1>4, ReadParts DEF ProbeInv
<1>9. WindowInv'
  BY <1>2, <1>3, <1>4, ReadParts DEF WindowInv, Covers, Begin, R!Tell, Promised
<1> QED BY <1>5, <1>6, <1>7, <1>8, <1>9 DEF ReadInv

(* A read that ends, at x, with what it got.                               *)
LEMMA ReadEndsWell ==
  ASSUME ReadInv, call.op = "read", NEW x, NEW got \in Seq(Int), R!ReadEnds(x, got),
         src' = src, window' = window, Holds(x),
         got = Bytes(call.from, Len(got)), R!Tell(x) = call.from + Len(got),
         got = <<>> => R!Tell(x) = x.pos /\ (Promised => x.pos < window.to),
         Promised => Covers(x)
  PROVE  ReadInv'
<1>1. call' = R!Idle /\ probe' = IF probe.on THEN [probe EXCEPT !.buf = @ \o got] ELSE probe
  BY DEF R!ReadEnds
<1>0. s' = x \/ (got = <<>> /\ s' \in R!Feofs(x))
  BY DEF R!ReadEnds
<1>2. Holds(s') /\ R!Tell(s') = R!Tell(x)
  <2>1. CASE s' = x
    BY <2>1, Zenon
  <2>2. CASE got = <<>> /\ s' \in R!Feofs(x)
    <3>1. R!Tell(x) = x.pos /\ x.pos \in Nat
      BY <2>2, HoldsParts
    <3>2. /\ Holds(s') /\ s'.pos >= x.pos
          /\ s'.pos > x.pos => R!Tell(s') = x.pos
          /\ s'.pos = x.pos => R!Tell(s') \in {R!Tell(x), x.pos}
      BY <2>2, FeofsHold
    <3>3. s'.pos \in Nat
      BY <3>2, HoldsParts
    <3> QED BY <3>1, <3>2, <3>3
  <2> QED BY <1>0, <2>1, <2>2
<1>3. Promised => Covers(s')
  <2>1. CASE s' = x
    BY <2>1, Zenon
  <2>2. CASE got = <<>> /\ s' \in R!Feofs(x)
    <3>1. Promised => Covers(x) /\ x.pos < window.to
      BY <2>2
    <3>2. window.to \in Int /\ window.from \in Int
      BY ReadParts
    <3>3. Promised => \A v \in R!Feofs(x) : Covers(v)
      BY <3>1, <3>2, FillsCover
    <3> QED BY <2>2, <3>3
  <2> QED BY <1>0, <2>1, <2>2
<1>4. call' \in Calls /\ call'.op = "idle"
  BY <1>1, IdleCall
<1>5. probe' \in Probes /\ probe'.on = probe.on /\ (probe.on => probe'.buf = probe.buf \o got)
  <2>1. CASE probe.on
    <3>1. probe.buf \o got \in Seq(Int) /\ probe \in Probes
      BY ReadParts
    <3>2. PICK q \in Seq(Int) : q = probe.buf \o got
      BY <3>1
    <3>3. probe' = [probe EXCEPT !.buf = q]
      BY <1>1, <2>1, <3>2
    <3> QED BY <2>1, <3>1, <3>2, <3>3 DEF Probes
  <2>2. CASE ~probe.on
    BY <1>1, <2>2, ReadParts
  <2> QED BY <2>1, <2>2
<1>6. ReadTypeOK'
  BY <1>4, <1>5, ReadParts DEF ReadTypeOK
<1>7. CallInv'
  BY <1>4 DEF CallInv
<1>8. ProbeInv'
  <2> SUFFICES ASSUME probe'.on PROVE ProbeInv'
    BY DEF ProbeInv
  <2>1. probe.on
    BY <1>5
  <2>2. /\ probe.buf = Bytes(0, Len(probe.buf)) /\ Len(probe.buf) = call.from
        /\ window = R!NoWindow /\ Len(probe.buf) \in Nat /\ Len(got) \in Nat
    BY <2>1, ReadParts DEF ProbeInv
  <2>3. Bytes(0, Len(probe.buf)) \o Bytes(0 + Len(probe.buf), Len(got))
          = Bytes(0, Len(probe.buf) + Len(got))
    <3> 0 \in Int
      OBVIOUS
    <3> QED BY <2>2, BytesFollow
  <2>4. 0 + Len(probe.buf) = call.from
    BY <2>2
  <2>5. probe'.buf = Bytes(0, Len(probe.buf) + Len(got))
    BY <1>5, <2>1, <2>2, <2>3, <2>4
  <2>6. Len(probe'.buf) = Len(probe.buf) + Len(got)
    <3>1. Len(probe.buf) + Len(got) \in Nat /\ 0 \in Int
      BY <2>2
    <3> QED BY <2>5, <3>1, BytesAre
  <2>7. Len(probe'.buf) = R!Tell(s')
    BY <1>2, <2>2, <2>6
  <2> QED BY <1>4, <2>2, <2>5, <2>6, <2>7 DEF ProbeInv, R!Tell
<1>9. WindowInv'
  BY <1>3, <1>4, ReadParts DEF WindowInv, Covers, Begin, Promised
<1> QED BY <1>2, <1>6, <1>7, <1>8, <1>9 DEF ReadInv

(* A context with the same buffer.                                         *)
LEMMA SameBuffer ==
  ASSUME NEW x, Holds(x), NEW v \in Contexts, v.buffer = x.buffer, v.pos = x.pos, v.at = x.at,
         v.buf_ptr <= Len(x.buffer), Len(x.buffer) <= v.buffer_size
  PROVE  Holds(v) /\ Begin(v) = Begin(x) /\ R!Tell(v) = Begin(x) + v.buf_ptr
<1>1. Begin(v) = Begin(x) /\ R!Tell(v) = Begin(x) + v.buf_ptr
  BY DEF Begin, R!Tell
<1> QED BY <1>1 DEF Holds

(* A read that has got more, and perhaps all.                              *)
LEMMA GotMore ==
  ASSUME ReadInv, call.op = "read", NEW x, Holds(x), NEW n \in Nat \ {0}, n <= call.size,
         NEW bytes, bytes = Bytes(R!Tell(s), n), R!Tell(x) = R!Tell(s) + n,
         R!Got(x, bytes), src' = src, window' = window,
         Promised => Covers(x)
  PROVE  ReadInv'
<1> DEFINE got == call.got \o bytes
<1>1. /\ call.got = Bytes(call.from, Len(call.got)) /\ R!Tell(s) = call.from + Len(call.got)
      /\ call.from \in Int /\ Len(call.got) \in Nat /\ call.size \in Nat /\ call.got \in Seq(Int)
      /\ R!Tell(s) \in Int
  BY ReadParts DEF CallInv
<1>2. got = Bytes(call.from, Len(call.got) + n)
  <2>1. Bytes(call.from, Len(call.got)) \o Bytes(call.from + Len(call.got), n)
          = Bytes(call.from, Len(call.got) + n)
    BY <1>1, BytesFollow
  <2> QED BY <1>1, <2>1
<1>3. got \in Seq(Int) /\ Len(got) = Len(call.got) + n
  <2>1. Len(call.got) + n \in Nat /\ call.from \in Int
    BY <1>1
  <2> HIDE DEF got
  <2> QED BY <1>2, <2>1, BytesAre
<1>4. Len(bytes) = n
  BY <1>1, BytesAre
<1> HIDE DEF got
<1>5. R!Tell(x) = call.from + Len(got)
  BY <1>1, <1>3
<1>6. got # <<>>
  BY <1>1, <1>3
<1> USE DEF got
<1>7. CASE n = call.size
  <2>1. R!ReadEnds(x, got)
    BY <1>4, <1>7 DEF R!Got
  <2>2. got = Bytes(call.from, Len(got))
    BY <1>2, <1>3
  <2> HIDE DEF got
  <2> QED BY <1>3, <1>5, <1>6, <2>1, <2>2, ReadEndsWell
<1>8. CASE n # call.size
  <2> DEFINE left == call.size - n
  <2>1. s' = x /\ probe' = probe /\ call' = [call EXCEPT !.size = left, !.got = got]
    BY <1>4, <1>8 DEF R!Got
  <2>2. left \in Nat /\ left > 0
    BY <1>1, <1>8
  <2> HIDE DEF left, got
  <2>3. /\ call' \in Calls /\ call'.op = "read" /\ call'.size = left /\ call'.got = got
        /\ call'.from = call.from
    BY <1>3, <2>1, <2>2, ReadParts DEF Calls
  <2>4. ReadTypeOK'
    BY <2>1, <2>3, ReadParts DEF ReadTypeOK
  <2>5. R!Tell(s)' = R!Tell(x) /\ Begin(s)' = Begin(x) /\ Holds(s)'
    BY <2>1 DEF R!Tell, Begin
  <2>6. CallInv'
    BY <1>2, <1>3, <1>5, <2>2, <2>3, <2>5 DEF CallInv
  <2>7. ProbeInv'
    BY <2>1, <2>3, ReadParts DEF ProbeInv
  <2>8. R!Tell(x) + left = R!Tell(s) + call.size
    BY <1>1 DEF left
  <2>9. WindowInv'
    <3>1. SUFFICES ASSUME Promised PROVE WindowInv'
      BY DEF WindowInv, Promised
    <3>2. ~src.direct /\ ~src.seekable /\ R!Tell(s) + call.size <= window.to
      BY <3>1, ReadParts DEF WindowInv
    <3>3. Covers(s)'
      BY <2>1, <3>1 DEF Covers, Begin
    <3> QED BY <2>3, <2>5, <2>8, <3>2, <3>3 DEF WindowInv
  <2> QED BY <2>4, <2>5, <2>6, <2>7, <2>9 DEF ReadInv
<1> QED BY <1>7, <1>8

LEMMA ReadCopies ==
  ASSUME ReadInv, R!ReadCopies
  PROVE  ReadInv'
<1> DEFINE n == R!Smaller(R!Available, call.size)
           x == [s EXCEPT !.buf_ptr = @ + n]
           bytes == SubSeq(s.buffer, s.buf_ptr + 1, s.buf_ptr + n)
<1>1. call.op = "read" /\ n > 0 /\ R!Got(x, bytes) /\ src' = src /\ window' = window
  BY DEF R!ReadCopies
<1>2. Holds(s) /\ call.size \in Nat /\ WindowInv
  BY ReadParts
<1>3. n \in Nat \ {0} /\ n <= call.size /\ s.buf_ptr + n <= Len(s.buffer)
  <2>1. Len(s.buffer) \in Nat /\ s.buf_ptr \in Nat /\ s.buf_ptr <= Len(s.buffer)
    BY <1>2, HoldsParts
  <2> DEFINE m == Len(s.buffer) - s.buf_ptr
  <2>2. m \in Nat /\ s.buf_ptr + m = Len(s.buffer) /\ call.size \in Nat
    BY <1>2, <2>1
  <2>3. n = IF m < call.size THEN m ELSE call.size
    BY DEF R!Smaller, R!Available
  <2> HIDE DEF m, n
  <2>4. n \in Nat /\ n <= call.size /\ n <= m
    BY <2>2, <2>3
  <2> QED BY <1>1, <2>1, <2>2, <2>4
<1> HIDE DEF n
<1>4. x \in Contexts
  <2>1. s.buf_ptr + n \in Nat /\ s \in Contexts
    BY <1>2, <1>3, HoldsParts DEF Holds
  <2> QED BY <2>1 DEF Contexts
<1>5. /\ x.buf_ptr = s.buf_ptr + n /\ x.buffer = s.buffer /\ x.pos = s.pos /\ x.at = s.at
      /\ x.buffer_size = s.buffer_size
  BY <1>2 DEF Holds, Contexts
<1> HIDE DEF x
<1>6. Holds(x) /\ Begin(x) = Begin(s) /\ R!Tell(x) = Begin(s) + (s.buf_ptr + n)
  BY <1>2, <1>3, <1>4, <1>5, SameBuffer, HoldsParts
<1>7. R!Tell(x) = R!Tell(s) + n
  BY <1>2, <1>3, <1>6, HoldsParts
<1>8. bytes = Bytes(R!Tell(s), n)
  <2>1. /\ s.buffer = Bytes(Begin(s), Len(s.buffer)) /\ Begin(s) \in Int /\ Len(s.buffer) \in Nat
        /\ s.buf_ptr \in Nat /\ R!Tell(s) = Begin(s) + s.buf_ptr
    BY <1>2, HoldsParts
  <2>2. SubSeq(Bytes(Begin(s), Len(s.buffer)), s.buf_ptr + 1, s.buf_ptr + n)
          = Bytes(Begin(s) + s.buf_ptr, n)
    BY <1>3, <2>1, BytesPart
  <2> QED BY <2>1, <2>2
<1>9. Promised => Covers(x)
  BY <1>2, <1>5, <1>6 DEF WindowInv, Covers
<1> HIDE DEF bytes
<1> QED BY <1>1, <1>3, <1>6, <1>7, <1>8, <1>9, GotMore

LEMMA ReadBypasses ==
  ASSUME ReadInv, R!ReadBypasses
  PROVE  ReadInv'
<1>1. /\ call.op = "read" /\ R!Available = 0 /\ R!Bypasses /\ src' = src /\ window' = window
      /\ \/ \E x \in R!Ends(s) : R!ReadEnds(x, call.got)
         \/ \E n \in R!Counts(s, call.size) : R!Got(R!Bypassed(n), R!From(s, n))
  BY DEF R!ReadBypasses
<1>2. Holds(s) /\ call.size \in Nat /\ WindowInv /\ CallInv /\ call.got \in Seq(Int)
  BY ReadParts
<1>3. R!Tell(s) = s.pos /\ Len(s.buffer) = s.buf_ptr
  BY <1>1, <1>2, HoldsParts DEF R!Available
(* A read within the window is served from the buffer. *)
<1>4. ~Promised
  <2> SUFFICES ASSUME Promised PROVE FALSE
    OBVIOUS
  <2>1. /\ ~src.direct /\ Begin(s) <= window.from /\ R!Tell(s) + call.size <= window.to
        /\ \/ window.to - Begin(s) + IO_BUFFER_SIZE <= s.buffer_size
           \/ window.to + IO_BUFFER_SIZE < s.pos
    BY <1>1, <1>2 DEF WindowInv, Covers
  <2>2. call.size > s.buffer_size
    BY <1>1, <2>1 DEF R!Bypasses
  <2>3. window.to \in Int /\ IO_BUFFER_SIZE \in Nat /\ Begin(s) \in Nat /\ s.pos \in Nat
        /\ s.buffer_size \in Nat /\ s.pos >= Begin(s)
    <3>1. window.to \in Int /\ IO_BUFFER_SIZE \in Nat
      BY ReadParts, Sizes
    <3> QED BY <1>2, <3>1, HoldsParts
  <2> QED BY <1>2, <1>3, <2>1, <2>2, <2>3
<1>5. CASE \E x \in R!Ends(s) : R!ReadEnds(x, call.got)
  <2>1. PICK x \in R!Ends(s) : R!ReadEnds(x, call.got)
    BY <1>5
  <2>2. Holds(x) /\ R!Tell(x) = R!Tell(s) /\ x.pos = s.pos
    BY <1>2, <2>1, EndsHold
  <2>3. call.got = Bytes(call.from, Len(call.got)) /\ R!Tell(s) = call.from + Len(call.got)
    BY <1>1, <1>2 DEF CallInv
  <2> QED BY <1>1, <1>2, <1>3, <1>4, <2>1, <2>2, <2>3, ReadEndsWell
<1>6. CASE \E n \in R!Counts(s, call.size) : R!Got(R!Bypassed(n), R!From(s, n))
  <2>1. PICK n \in R!Counts(s, call.size) : R!Got(R!Bypassed(n), R!From(s, n))
    BY <1>6
  <2>2. n \in Nat \ {0} /\ n <= call.size
    BY <1>2, <2>1, Sizes, HoldsParts DEF R!Counts, R!Smaller
  <2> DEFINE x == R!Bypassed(n)
  <2>3. s \in Contexts /\ s.pos + n \in Nat /\ s.at + n \in Nat /\ s.at = s.pos /\ <<>> \in Seq(Int)
    BY <1>2, <2>2, HoldsParts DEF Holds
  <2>4. x \in Contexts
    BY <2>3 DEF R!Bypassed, Contexts
  <2>5. x.pos = s.pos + n /\ x.at = s.at + n /\ x.buffer = <<>> /\ x.buf_ptr = 0
    BY <2>3 DEF R!Bypassed, Contexts
  <2> HIDE DEF x
  <2>6. Holds(x) /\ R!Tell(x) = s.pos + n
    BY <2>3, <2>4, <2>5, EmptyHolds
  <2>7. R!From(s, n) = Bytes(R!Tell(s), n)
    BY <1>3, <2>3 DEF R!From, Bytes
  <2>8. R!Got(x, R!From(s, n))
    BY <2>1 DEF x
  <2> QED BY <1>1, <1>3, <1>4, <2>2, <2>6, <2>7, <2>8, GotMore
<1> QED BY <1>1, <1>5, <1>6

LEMMA ReadFills ==
  ASSUME ReadInv, R!ReadFills
  PROVE  ReadInv'
<1>1. call.op = "read" /\ R!Available = 0 /\ src' = src /\ window' = window
  BY DEF R!ReadFills
<1>2. PICK x \in R!Fills(s) :
        IF x.buf_ptr = Len(x.buffer) THEN R!ReadEnds(x, call.got)
        ELSE s' = x /\ UNCHANGED <<call, probe>>
  BY DEF R!ReadFills
<1>3. Holds(s) /\ call.size \in Nat /\ WindowInv /\ CallInv /\ call.got \in Seq(Int)
  BY ReadParts
<1>4. R!Tell(s) = s.pos /\ s.pos \in Nat
  BY <1>1, <1>3, HoldsParts DEF R!Available
<1>5. /\ call.got = Bytes(call.from, Len(call.got)) /\ R!Tell(s) = call.from + Len(call.got)
      /\ call.size > 0
  BY <1>1, <1>3 DEF CallInv
<1>6. Holds(x) /\ x.pos \in Nat
  BY <1>3, FillsHold, HoldsParts
<1>7. /\ R!Tell(x) = R!Tell(s)
      /\ x.buf_ptr = Len(x.buffer) => x.pos = s.pos
  <2>1. /\ x.pos >= s.pos
        /\ x.pos > s.pos => R!Tell(x) = s.pos /\ x.buf_ptr < Len(x.buffer)
        /\ x.pos = s.pos => R!Tell(x) \in {R!Tell(s), s.pos}
    BY <1>3, FillsHold
  <2>2. x.buf_ptr \in Nat /\ Len(x.buffer) \in Nat
    BY <1>6, HoldsParts
  <2> QED BY <1>4, <1>6, <2>1, <2>2
<1>8. Promised => s.pos < window.to /\ Covers(x)
  <2> SUFFICES ASSUME Promised PROVE s.pos < window.to /\ Covers(x)
    OBVIOUS
  <2>1. R!Tell(s) + call.size <= window.to /\ Covers(s)
    BY <1>1, <1>3 DEF WindowInv
  <2>2. window.to \in Int /\ window.from \in Int
    BY ReadParts
  <2>3. s.pos < window.to
    BY <1>3, <1>4, <1>5, <2>1, <2>2
  <2> QED BY <1>3, <2>1, <2>2, <2>3, FillsCover
<1>9. CASE x.buf_ptr = Len(x.buffer)
  <2>1. R!ReadEnds(x, call.got)
    BY <1>2, <1>9
  <2>2. R!Tell(x) = x.pos /\ R!Tell(x) = call.from + Len(call.got)
    BY <1>4, <1>5, <1>7, <1>9
  <2>3. Promised => x.pos < window.to
    BY <1>7, <1>8, <1>9
  <2> QED BY <1>1, <1>3, <1>5, <1>6, <1>8, <2>1, <2>2, <2>3, ReadEndsWell
<1>10. CASE x.buf_ptr # Len(x.buffer)
  <2>1. s' = x /\ call' = call /\ probe' = probe
    BY <1>2, <1>10
  <2>2. ReadTypeOK' /\ Holds(s)'
    BY <1>1, <1>6, <2>1, ReadParts DEF ReadTypeOK
  <2>3. CallInv'
    BY <1>1, <1>5, <1>7, <2>1 DEF CallInv, R!Tell
  <2>4. ProbeInv'
    BY <1>1, <2>1, ReadParts DEF ProbeInv
  <2>5. WindowInv'
    <3>1. SUFFICES ASSUME Promised PROVE WindowInv'
      BY <1>1 DEF WindowInv, Promised
    <3>2. ~src.direct /\ ~src.seekable /\ R!Tell(s) + call.size <= window.to
      BY <1>1, <1>3, <3>1 DEF WindowInv
    <3>3. Covers(s)'
      BY <1>1, <1>8, <2>1, <3>1 DEF Covers, Begin
    <3>4. R!Tell(s)' = R!Tell(s)
      BY <1>7, <2>1 DEF R!Tell
    <3> QED BY <1>1, <2>1, <3>2, <3>3, <3>4 DEF WindowInv
  <2> QED BY <2>2, <2>3, <2>4, <2>5 DEF ReadInv
<1> QED BY <1>9, <1>10

(* A step after which no read is under way, and nobody is probing.         *)
LEMMA NotReading ==
  ASSUME ReadInv, src' = src, Holds(s'), call' \in Calls, call'.op # "read",
         call'.op = "skip" => Begin(s') <= call'.offset,
         probe' \in Probes, ~probe'.on, window' \in Windows,
         Promised' => /\ ~src.direct /\ ~src.seekable /\ Covers(s)'
                      /\ call'.op # "idle" => call'.offset \in window'.from .. window'.to
  PROVE  ReadInv'
<1>1. ReadTypeOK'
  BY ReadParts DEF ReadTypeOK
<1>2. CallInv' /\ ProbeInv'
  BY DEF CallInv, ProbeInv, Begin
<1>3. WindowInv'
  BY DEF WindowInv, Promised
<1> QED BY <1>1, <1>2, <1>3 DEF ReadInv

(* A window that is kept is the one that there was.                        *)
LEMMA WindowStays ==
  ASSUME ReadInv, src' = src, NEW pos, window' = R!Within(pos)
  PROVE  /\ window' \in Windows
         /\ Promised' => window' = window /\ pos \in window.from .. window.to
                         /\ ~src.direct /\ ~src.seekable /\ Covers(s)
BY ReadParts, IdleCall DEF R!Within, WindowInv, Promised

(* Emptying the buffer moves the position to where the source is.          *)
LEMMA BufferFlushed ==
  ASSUME NEW x, Holds(x)
  PROVE  LET v == [x EXCEPT !.buffer = <<>>, !.buf_ptr = 0] IN
         Holds(v) /\ Begin(v) = x.pos /\ v.pos = x.pos /\ R!Tell(v) = x.pos
<1> DEFINE v == [x EXCEPT !.buffer = <<>>, !.buf_ptr = 0]
<1>1. x \in Contexts /\ x.at = x.pos /\ <<>> \in Seq(Int)
  BY DEF Holds
<1>2. v \in Contexts
  BY <1>1 DEF Contexts
<1>3. v.pos = x.pos /\ v.at = x.at /\ v.buffer = <<>> /\ v.buf_ptr = 0
  BY <1>1 DEF Contexts
<1> HIDE DEF v
<1>4. Holds(v) /\ Begin(v) = v.pos /\ R!Tell(v) = v.pos
  BY <1>1, <1>2, <1>3, EmptyHolds
<1>5. Holds(v) /\ Begin(v) = x.pos /\ v.pos = x.pos /\ R!Tell(v) = x.pos
  BY <1>3, <1>4
<1> QED BY <1>5 DEF v

LEMMA ReadPartial ==
  ASSUME ReadInv, NEW n \in 1 .. MaxRead, R!ReadPartial(n)
  PROVE  ReadInv'
<1>1. /\ call.op = "idle" /\ ~probe.on /\ src' = src /\ call' = call /\ probe' = probe
      /\ window' = [R!Within(R!Tell(s) + n) EXCEPT !.latest = FALSE]
  BY DEF R!ReadPartial
<1>2. PICK x \in IF R!Available > 0 THEN {s}
                 ELSE R!Fills([s EXCEPT !.buffer = <<>>, !.buf_ptr = 0]) :
        LET m == R!Smaller(Len(x.buffer) - x.buf_ptr, n) IN
        s' \in IF m = 0 /\ ~x.error THEN R!Feofs(x) ELSE {[x EXCEPT !.buf_ptr = @ + m]}
  BY DEF R!ReadPartial
<1> DEFINE m == R!Smaller(Len(x.buffer) - x.buf_ptr, n)
<1>3. Holds(s) /\ R!Within(R!Tell(s) + n) \in Windows
  BY ReadParts, IdleCall DEF R!Within
<1>4. Holds(x)
  <2>1. CASE R!Available > 0
    BY <1>2, <1>3, <2>1
  <2>2. CASE ~(R!Available > 0)
    BY <1>2, <1>3, <2>2, BufferFlushed, FillsHold
  <2> QED BY <2>1, <2>2
<1>5. m \in Nat /\ x.buf_ptr + m <= Len(x.buffer) /\ x.buf_ptr + m \in Nat
  <2>1. n \in Nat
    BY Sizes
  <2> QED BY <1>4, <2>1, HoldsParts DEF R!Smaller
<1>6. Holds(s')
  <2>1. CASE m = 0 /\ ~x.error
    BY <1>2, <1>4, <2>1, FeofsHold
  <2>2. CASE ~(m = 0 /\ ~x.error)
    <3> DEFINE v == [x EXCEPT !.buf_ptr = @ + m]
    <3>1. s' = v
      BY <1>2, <2>2
    <3> HIDE DEF m
    <3>2. x \in Contexts
      BY <1>4 DEF Holds
    <3>3. /\ v \in Contexts /\ v.buffer = x.buffer /\ v.pos = x.pos /\ v.at = x.at
          /\ v.buf_ptr = x.buf_ptr + m /\ v.buffer_size = x.buffer_size
      BY <1>5, <3>2 DEF Contexts
    <3> HIDE DEF v
    <3> QED BY <1>4, <1>5, <3>1, <3>3, SameBuffer, HoldsParts
  <2> QED BY <2>1, <2>2
<1>7. window' \in Windows /\ ~Promised'
  BY <1>1, <1>3 DEF Windows, Promised
<1> QED BY <1>1, <1>6, <1>7, ReadParts, NotReading

LEMMA Feof ==
  ASSUME ReadInv, R!Feof
  PROVE  ReadInv'
<1>1. /\ call.op = "idle" /\ ~probe.on /\ src' = src /\ call' = call /\ probe' = probe
      /\ s' \in R!Feofs(s)
      /\ window' = IF s.eof_reached /\ R!Available > 0 THEN R!NoWindow ELSE R!Within(R!Tell(s) + 1)
  BY DEF R!Feof
<1>2. Holds(s) /\ Holds(s')
  BY <1>1, ReadParts, FeofsHold
<1>3. window' \in Windows
  BY <1>1, ReadParts, IdleCall DEF R!Within
<1>4. ASSUME Promised'
      PROVE  ~src.direct /\ ~src.seekable /\ Covers(s)'
  <2>1. ~(s.eof_reached /\ R!Available > 0) /\ window' = R!Within(R!Tell(s) + 1)
    BY <1>1, <1>4, IdleCall DEF Promised
  <2>2. /\ window' = window /\ R!Tell(s) + 1 \in window.from .. window.to
        /\ ~src.direct /\ ~src.seekable /\ Covers(s)
    BY <1>1, <1>4, <2>1, WindowStays
  <2>3. Covers(s')
    <3>1. CASE s.eof_reached
      <4>1. s.pos < window.to /\ window.to \in Int /\ window.from \in Int
        <5>1. window.to \in Int /\ window.from \in Int
          BY ReadParts
        <5>2. R!Tell(s) = s.pos /\ s.pos \in Nat
          BY <1>2, <2>1, <3>1, HoldsParts DEF R!Available
        <5> QED BY <2>2, <5>1, <5>2
      <4> QED BY <1>1, <1>2, <2>2, <4>1, FillsCover
    <3>2. CASE ~s.eof_reached
      BY <1>1, <2>2, <3>2 DEF R!Feofs
    <3> QED BY <3>1, <3>2
  <2> QED BY <2>2, <2>3 DEF Covers, Begin
<1> QED BY <1>1, <1>2, <1>3, <1>4, ReadParts, NotReading

LEMMA FlushRead ==
  ASSUME ReadInv, R!Flush
  PROVE  ReadInv'
<1>1. /\ call.op = "idle" /\ ~probe.on /\ src' = src /\ call' = call /\ probe' = probe
      /\ s' = [s EXCEPT !.buffer = <<>>, !.buf_ptr = 0] /\ window' = R!NoWindow
  BY DEF R!Flush
<1>2. Holds(s')
  BY <1>1, ReadParts, BufferFlushed
<1> QED BY <1>1, <1>2, IdleCall, ReadParts, NotReading DEF Promised

LEMMA SeekStarts ==
  ASSUME ReadInv, NEW offset \in 0 .. ReadSize + 1, R!Seek(offset)
  PROVE  ReadInv'
<1>1. /\ call.op = "idle" /\ ~probe.on /\ src' = src /\ s' = s /\ probe' = probe
      /\ window' = R!Within(offset)
  BY DEF R!Seek
<1>2. offset \in Nat
  BY Sizes
<1>3. call' \in Calls /\ call'.op = "seek" /\ call'.offset = offset
  <2>1. call' = [R!Idle EXCEPT !.op = "seek", !.offset = offset]
    BY DEF R!Seek
  <2> QED BY <1>2, <2>1, IdleCall DEF Calls
<1>4. /\ window' \in Windows
      /\ Promised' => window' = window /\ offset \in window.from .. window.to
                      /\ ~src.direct /\ ~src.seekable /\ Covers(s)
  BY <1>1, WindowStays
<1>5. Promised' => Covers(s)'
  BY <1>1, <1>4 DEF Covers, Begin
<1> QED BY <1>1, <1>3, <1>4, <1>5, ReadParts, NotReading

(* In a seek, what is known of the buffer and of the window.               *)
LEMMA Seeking ==
  ASSUME ReadInv, call.op \in {"seek", "skip"}
  PROVE  /\ ~probe.on /\ Holds(s) /\ call \in Calls /\ call.offset \in Nat
         /\ window \in Windows /\ probe \in Probes /\ window.from \in Int /\ window.to \in Int
         /\ R!Start = Begin(s) /\ Begin(s) \in Nat /\ Len(s.buffer) \in Nat
         /\ s.pos = Begin(s) + Len(s.buffer)
         /\ Promised => /\ ~src.direct /\ ~src.seekable /\ Covers(s)
                        /\ call.offset \in window.from .. window.to
                        /\ Begin(s) <= call.offset
<1>1. Holds(s) /\ WindowInv /\ ProbeInv /\ window.from \in Int /\ window.to \in Int
      /\ call.offset \in Nat
  BY ReadParts
<1>2. ~probe.on
  BY <1>1 DEF ProbeInv
<1>3. /\ R!Start = Begin(s) /\ Begin(s) \in Nat /\ Len(s.buffer) \in Nat
      /\ s.pos = Begin(s) + Len(s.buffer)
  BY <1>1, HoldsParts DEF R!Start, Begin
<1>4. Promised => /\ ~src.direct /\ ~src.seekable /\ Covers(s)
                  /\ call.offset \in window.from .. window.to
                  /\ Begin(s) <= call.offset
  BY <1>1, <1>3 DEF WindowInv, Covers
<1> QED BY <1>1, <1>2, <1>3, <1>4, ReadParts

(* A seek that ends at x, or fails.                                        *)
LEMMA SeekEndsWell ==
  ASSUME ReadInv, call.op \in {"seek", "skip"}, NEW x, Holds(x), R!SeekEnds(x),
         src' = src, probe' = probe, window' = window,
         Promised => Covers(x)
  PROVE  ReadInv' /\ R!Tell(s)' = R!Tell(x)
<1>1. s' = [x EXCEPT !.eof_reached = FALSE] /\ call' = R!Idle
  BY DEF R!SeekEnds
<1>2. x \in Contexts
  BY DEF Holds
<1>3. /\ s' \in Contexts /\ s'.buffer = x.buffer /\ s'.pos = x.pos /\ s'.at = x.at
      /\ s'.buf_ptr = x.buf_ptr /\ s'.buffer_size = x.buffer_size
  BY <1>1, <1>2 DEF Contexts
<1>4. Holds(s') /\ Begin(s') = Begin(x)
  BY <1>3, SameBuffer, HoldsParts
<1>5. Promised => Covers(s)'
  BY <1>3, <1>4 DEF Covers, Begin
<1>6. R!Tell(s)' = R!Tell(x)
  BY <1>3 DEF R!Tell
<1> QED BY <1>1, <1>4, <1>5, <1>6, IdleCall, Seeking, NotReading DEF Promised

LEMMA SeekFailsWell ==
  ASSUME ReadInv, call.op \in {"seek", "skip"}, R!SeekFails,
         src' = src, probe' = probe, window' = window
  PROVE  ReadInv' /\ call' # R!Idle
<1>1. s' = s /\ call' = R!Failed
  BY DEF R!SeekFails
<1>2. Promised => Covers(s)'
  BY <1>1, Seeking DEF Covers, Begin
<1> QED BY <1>1, <1>2, IdleCall, Seeking, NotReading DEF Promised

LEMMA SeekInBuffer ==
  ASSUME ReadInv, R!SeekInBuffer
  PROVE  ReadInv' /\ R!Tell(s)' = call.offset
<1> DEFINE x == [s EXCEPT !.buf_ptr = R!Offset1]
<1>1. /\ call.op = "seek" /\ R!Offset1 \in 0 .. Len(s.buffer) /\ R!SeekEnds(x)
      /\ src' = src /\ probe' = probe /\ window' = window
  BY DEF R!SeekInBuffer, R!InBuffer
<1>2. Holds(s) /\ R!Offset1 = call.offset - Begin(s) /\ Begin(s) \in Nat /\ call.offset \in Nat
      /\ (Promised => Covers(s))
  BY <1>1, Seeking DEF R!Offset1
<1>3. s \in Contexts /\ R!Offset1 \in Nat
  BY <1>1, <1>2, HoldsParts DEF Holds
<1>4. /\ x \in Contexts /\ x.buffer = s.buffer /\ x.pos = s.pos /\ x.at = s.at
      /\ x.buf_ptr = R!Offset1 /\ x.buffer_size = s.buffer_size
  BY <1>3 DEF Contexts
<1> HIDE DEF x
<1>5. Holds(x) /\ Begin(x) = Begin(s) /\ R!Tell(x) = Begin(s) + R!Offset1
  <2>1. Len(s.buffer) <= s.buffer_size
    BY <1>2, HoldsParts
  <2>2. R!Offset1 <= Len(s.buffer)
    BY <1>1
  <2>3. /\ x.buf_ptr <= Len(s.buffer) /\ Len(s.buffer) <= x.buffer_size
    BY <1>4, <2>1, <2>2, Zenon
  <2> QED BY <1>2, <1>4, <2>3, SameBuffer
<1>6. R!Tell(x) = call.offset
  BY <1>2, <1>5
<1>7. Promised => Covers(x)
  BY <1>2, <1>4, <1>5 DEF Covers
<1> QED BY <1>1, <1>5, <1>6, <1>7, SeekEndsWell

LEMMA SeekForward ==
  ASSUME ReadInv, R!SeekForward
  PROVE  ReadInv' /\ call'.op # "idle"
<1>1. /\ call.op = "seek" /\ R!Offset1 >= 0 /\ call' = [call EXCEPT !.op = "skip"]
      /\ src' = src /\ s' = s /\ probe' = probe /\ window' = window
  BY DEF R!SeekForward, R!Forward
<1>2. call' \in Calls /\ call'.op = "skip" /\ call'.offset = call.offset
  BY <1>1, Seeking DEF Calls
<1>3. Begin(s') <= call'.offset
  BY <1>1, <1>2, Seeking DEF R!Offset1
<1>4. Promised => Covers(s)'
  BY <1>1, Seeking DEF Covers, Begin
<1> QED BY <1>1, <1>2, <1>3, <1>4, Seeking, NotReading DEF Promised

LEMMA SkipFills ==
  ASSUME ReadInv, R!SkipFills
  PROVE  ReadInv' /\ call'.op # "idle"
<1>1. /\ call.op = "skip" /\ s.pos < call.offset /\ s' \in R!Fills(s)
      /\ src' = src /\ call' = call /\ probe' = probe /\ window' = window
  BY DEF R!SkipFills
<1>2. Holds(s') /\ Begin(s') \in {Begin(s), s.pos}
  BY <1>1, Seeking, FillsHold
<1>3. Begin(s') <= call.offset
  BY <1>1, <1>2, ReadParts, Seeking DEF CallInv
<1>4. Promised => Covers(s)'
  <2> SUFFICES ASSUME Promised PROVE Covers(s')
    BY <1>1 DEF Covers, Begin
  <2>1. Holds(s) /\ Covers(s) /\ window.from \in Int /\ window.to \in Int
        /\ call.offset \in window.from .. window.to /\ s.pos \in Nat
    BY <1>1, Seeking, HoldsParts
  <2>2. s.pos < window.to
    BY <1>1, <2>1
  <2> QED BY <1>1, <2>1, <2>2, FillsCover
<1> QED BY <1>1, <1>2, <1>3, <1>4, Seeking, NotReading DEF Promised

LEMMA SkipDone ==
  ASSUME ReadInv, R!SkipDone
  PROVE  ReadInv' /\ (call' = R!Idle => R!Tell(s)' = call.offset)
<1>1. src' = src /\ probe' = probe /\ window' = window
  BY DEF R!SkipDone
<1>0. call.op = "skip" /\ (s.pos >= call.offset \/ s.eof_reached)
  BY DEF R!SkipDone
<1>2. CASE s.eof_reached
  <2>1. R!SkipDone => R!SeekFails
    BY <1>2 DEF R!SkipDone
  <2> QED BY <1>0, <1>1, <2>1, SeekFailsWell
<1>3. CASE ~s.eof_reached
  <2> DEFINE n == Len(s.buffer) - (s.pos - call.offset)
             x == [s EXCEPT !.buf_ptr = n]
  <2>1. R!SeekEnds(x)
    BY <1>3 DEF R!SkipDone
  <2>2. s.pos >= call.offset
    BY <1>0, <1>3
  <2>3. /\ Holds(s) /\ Begin(s) \in Nat /\ Len(s.buffer) \in Nat /\ call.offset \in Nat
        /\ s.pos = Begin(s) + Len(s.buffer)
    BY <1>0, Seeking
  <2>4. Begin(s) <= call.offset
    BY <1>0, ReadParts DEF CallInv
  <2>5. n \in Nat /\ n <= Len(s.buffer) /\ Begin(s) + n = call.offset
    BY <2>2, <2>3, <2>4
  <2> HIDE DEF n
  <2>6. s \in Contexts
    BY <2>3 DEF Holds
  <2>7. /\ x \in Contexts /\ x.buffer = s.buffer /\ x.pos = s.pos /\ x.at = s.at
        /\ x.buf_ptr = n /\ x.buffer_size = s.buffer_size
    BY <2>5, <2>6 DEF Contexts
  <2> HIDE DEF x
  <2>8. Holds(x) /\ Begin(x) = Begin(s) /\ R!Tell(x) = Begin(s) + n
    BY <2>3, <2>5, <2>7, SameBuffer, HoldsParts
  <2>9. Promised => Covers(x)
    BY <1>0, <2>7, <2>8, Seeking DEF Covers
  <2> QED BY <1>0, <1>1, <2>1, <2>5, <2>8, <2>9, SeekEndsWell
<1> QED BY <1>2, <1>3

(* The source has moved: only where no window is promised.                 *)
LEMMA SourceMoved ==
  ASSUME ReadInv, call.op = "seek", NEW pos \in Nat
  PROVE  /\ Holds(R!SourceAt(pos)) /\ R!Tell(R!SourceAt(pos)) = pos
         /\ Begin(R!SourceAt(pos)) = pos
<1> DEFINE v == R!SourceAt(pos)
<1>1. s \in Contexts /\ <<>> \in Seq(Int)
  BY Seeking DEF Holds
<1>2. v \in Contexts /\ v.pos = pos /\ v.at = pos /\ v.buffer = <<>> /\ v.buf_ptr = 0
  BY <1>1 DEF R!SourceAt, Contexts
<1> HIDE DEF v
<1>3. Holds(v) /\ Begin(v) = v.pos /\ R!Tell(v) = v.pos
  BY <1>2, EmptyHolds
<1>4. Holds(v) /\ Begin(v) = pos /\ R!Tell(v) = pos
  BY <1>2, <1>3
<1> QED BY <1>4 DEF v

LEMMA SeekBackward ==
  ASSUME ReadInv, R!SeekBackward
  PROVE  ReadInv' /\ call' # R!Idle
<1>1. /\ call.op = "seek" /\ R!Offset1 < 0 /\ src' = src /\ probe' = probe /\ window' = window
      /\ \/ R!SeekFails
         \/ (s' \in R!Fills(R!SourceAt(R!BackTo)) /\ call' = call)
  BY DEF R!SeekBackward, R!Backward
<1>2. CASE R!SeekFails
  BY <1>1, <1>2, SeekFailsWell
<1>3. CASE s' \in R!Fills(R!SourceAt(R!BackTo)) /\ call' = call
  <2>1. R!BackTo \in Nat
    <3>1. Len(s.buffer) \in Nat /\ R!Start \in Nat
      BY <1>1, Seeking
    <3>2. \A n \in Nat : n \div 2 \in Nat
      OBVIOUS
    <3>3. \A m, n \in Nat : m - R!Smaller(n, m) \in Nat
      BY DEF R!Smaller
    <3> QED BY <3>1, <3>2, <3>3 DEF R!BackTo
  <2>2. Holds(s')
    BY <1>1, <1>3, <2>1, SourceMoved, FillsHold
  <2>3. ~Promised
    BY <1>1, Seeking DEF R!Offset1
  <2> QED BY <1>1, <1>3, <2>2, <2>3, Seeking, IdleCall, NotReading DEF Promised
<1> QED BY <1>1, <1>2, <1>3

LEMMA SeekSource ==
  ASSUME ReadInv, R!SeekSource
  PROVE  ReadInv' /\ (call' = R!Idle => R!Tell(s)' = call.offset)
<1>1. /\ call.op = "seek" /\ ~R!InBuffer /\ ~R!Forward
      /\ src' = src /\ probe' = probe /\ window' = window
      /\ \/ R!SeekFails
         \/ R!SeekEnds(R!SourceAt(call.offset))
  BY DEF R!SeekSource
<1>2. CASE R!SeekFails
  BY <1>1, <1>2, SeekFailsWell
<1>3. CASE R!SeekEnds(R!SourceAt(call.offset))
  <2>1. /\ Holds(R!SourceAt(call.offset)) /\ R!Tell(R!SourceAt(call.offset)) = call.offset
    BY <1>1, Seeking, SourceMoved
  (* A seek within the window is not one of the source. *)
  <2>2. ~Promised
    <3> SUFFICES ASSUME Promised PROVE FALSE
      OBVIOUS
    <3>1. ~src.direct /\ ~src.seekable /\ R!Offset1 >= 0
      BY <1>1, Seeking DEF R!Offset1
    <3> QED BY <1>1, <3>1 DEF R!Forward, R!Buffered
  <2> QED BY <1>1, <1>3, <2>1, <2>2, SeekEndsWell
<1> QED BY <1>1, <1>2, <1>3

LEMMA EnsureSeekback ==
  ASSUME ReadInv, NEW n \in 1 .. MaxWindow, R!EnsureSeekback(n)
  PROVE  ReadInv'
<1>1. /\ call.op = "idle" /\ ~probe.on /\ ~src.seekable
      /\ src' = src /\ call' = call /\ probe' = probe
      /\ s' = IF R!Needed(n) < Len(s.buffer) THEN s ELSE [s EXCEPT !.buffer_size = R!Needed(n)]
      /\ window' \in {[from |-> R!Tell(s), to |-> R!Tell(s) + n, latest |-> TRUE],
                      [window EXCEPT !.latest = FALSE]}
  BY DEF R!EnsureSeekback
<1>2. n \in Nat /\ IO_BUFFER_SIZE \in Nat
  BY Sizes
<1>3. Holds(s) /\ R!Needed(n) \in Nat /\ R!Needed(n) = n + s.buf_ptr + IO_BUFFER_SIZE
  BY <1>2, ReadParts, HoldsParts DEF R!Needed
<1>4. /\ s' \in Contexts /\ s'.buffer = s.buffer /\ s'.pos = s.pos /\ s'.at = s.at
      /\ s'.buf_ptr = s.buf_ptr
      /\ s'.buffer_size = IF R!Needed(n) < Len(s.buffer) THEN s.buffer_size ELSE R!Needed(n)
  <2>1. s \in Contexts
    BY <1>3 DEF Holds
  <2> QED BY <1>1, <1>3, <2>1 DEF Contexts
<1>5. Holds(s') /\ Begin(s') = Begin(s)
  <2>1. /\ s'.buf_ptr <= Len(s.buffer) /\ Len(s.buffer) <= s'.buffer_size
    BY <1>3, <1>4, HoldsParts
  <2> QED BY <1>3, <1>4, <2>1, SameBuffer
<1>6. CASE window' = [from |-> R!Tell(s), to |-> R!Tell(s) + n, latest |-> TRUE]
  <2>1. /\ Begin(s) \in Nat /\ s.buf_ptr \in Nat /\ Len(s.buffer) \in Nat
        /\ s.pos = Begin(s) + Len(s.buffer) /\ R!Tell(s) = Begin(s) + s.buf_ptr
    BY <1>3, HoldsParts
  <2>2. window' \in Windows /\ window'.from = R!Tell(s) /\ window'.to = R!Tell(s) + n
    BY <1>2, <1>6, <2>1 DEF Windows
  <2>3. /\ Begin(s') <= window'.from
        /\ \/ window'.to - Begin(s') + IO_BUFFER_SIZE <= s'.buffer_size
           \/ window'.to + IO_BUFFER_SIZE < s'.pos
    BY <1>2, <1>3, <1>4, <1>5, <2>1, <2>2
  <2>4. Covers(s)'
    BY <2>3 DEF Covers, Begin
  <2>5. Promised' => ~src.direct
    BY <1>1 DEF Promised
  <2> QED BY <1>1, <1>5, <2>2, <2>4, <2>5, ReadParts, NotReading
<1>7. CASE window' = [window EXCEPT !.latest = FALSE]
  <2>1. window' \in Windows /\ ~Promised'
    BY <1>7, ReadParts DEF Windows, Promised
  <2> QED BY <1>1, <1>5, <2>1, ReadParts, NotReading
<1> QED BY <1>1, <1>6, <1>7

(* What is left to be read of a buffer. *)
LEMMA Unread ==
  ASSUME NEW x, Holds(x)
  PROVE  /\ SubSeq(x.buffer, x.buf_ptr + 1, Len(x.buffer))
              = Bytes(R!Tell(x), Len(x.buffer) - x.buf_ptr)
         /\ Len(x.buffer) - x.buf_ptr \in Nat /\ R!Tell(x) \in Nat
         /\ R!Tell(x) + (Len(x.buffer) - x.buf_ptr) = x.pos
<1>1. /\ x.buffer = Bytes(Begin(x), Len(x.buffer)) /\ Begin(x) \in Nat /\ Len(x.buffer) \in Nat
      /\ x.buf_ptr \in Nat /\ x.buf_ptr <= Len(x.buffer) /\ R!Tell(x) = Begin(x) + x.buf_ptr
      /\ x.pos = Begin(x) + Len(x.buffer)
  BY HoldsParts
<1>2. PICK k \in Nat : k = Len(x.buffer) - x.buf_ptr
  BY <1>1
<1>3. x.buf_ptr + k = Len(x.buffer) /\ x.buf_ptr + k <= Len(x.buffer) /\ Begin(x) \in Int
  BY <1>1, <1>2
<1>4. SubSeq(Bytes(Begin(x), Len(x.buffer)), x.buf_ptr + 1, x.buf_ptr + k)
        = Bytes(Begin(x) + x.buf_ptr, k)
  BY <1>1, <1>3, BytesPart
<1>5. SubSeq(x.buffer, x.buf_ptr + 1, Len(x.buffer)) = Bytes(R!Tell(x), k)
  BY <1>1, <1>3, <1>4
<1>6. k \in Nat /\ R!Tell(x) \in Nat /\ R!Tell(x) + k = x.pos
  BY <1>1, <1>3
<1> QED BY <1>2, <1>5, <1>6

LEMMA ReallocBuf ==
  ASSUME ReadInv, NEW n \in BufferSizes, R!ReallocBuf(n)
  PROVE  ReadInv'
<1> DEFINE rest == SubSeq(s.buffer, s.buf_ptr + 1, Len(s.buffer))
<1>1. /\ call.op = "idle" /\ ~probe.on /\ n > s.buffer_size
      /\ src' = src /\ call' = call /\ probe' = probe /\ window' = R!NoWindow
      /\ s' = [s EXCEPT !.buffer = rest, !.buf_ptr = 0, !.buffer_size = n, !.orig_buffer_size = n]
  BY DEF R!ReallocBuf
<1>2. n \in Nat
  BY Sizes
<1>3. Holds(s) /\ s \in Contexts
  BY ReadParts DEF Holds
<1>4. PICK k \in Nat : k = Len(s.buffer) - s.buf_ptr
  BY <1>3, Unread
<1>5. /\ rest = Bytes(R!Tell(s), k) /\ R!Tell(s) \in Nat /\ R!Tell(s) + k = s.pos
      /\ s.at = s.pos /\ k <= n
  <2>1. rest = Bytes(R!Tell(s), k) /\ R!Tell(s) \in Nat /\ R!Tell(s) + k = s.pos
    BY <1>3, <1>4, Unread
  <2>2. k <= Len(s.buffer) /\ Len(s.buffer) <= s.buffer_size /\ Len(s.buffer) \in Nat
        /\ s.buffer_size \in Nat /\ s.at = s.pos
    BY <1>3, <1>4, HoldsParts
  <2>3. k <= n
    BY <1>1, <1>2, <2>2
  <2> QED BY <2>1, <2>2, <2>3
<1> HIDE DEF rest
<1>6. rest \in Seq(Int) /\ Len(rest) = k
  BY <1>5, BytesAre
<1>7. /\ s' \in Contexts /\ s'.buffer = rest /\ s'.buf_ptr = 0 /\ s'.buffer_size = n
      /\ s'.pos = s.pos /\ s'.at = s.at
  BY <1>1, <1>2, <1>3, <1>6 DEF Contexts
<1>8. Begin(s') = R!Tell(s)
  BY <1>5, <1>6, <1>7 DEF Begin
<1>9. Holds(s')
  BY <1>5, <1>6, <1>7, <1>8 DEF Holds
<1> QED BY <1>1, <1>9, IdleCall, ReadParts, NotReading DEF Promised

(* What was read while probing, and what follows it in the buffer, are all *)
(* the bytes up to the position of the source.                             *)
LEMMA Rewind ==
  ASSUME ReadInv, R!Rewind
  PROVE  ReadInv'
<1>1. /\ call.op = "idle" /\ probe.on /\ src' = src /\ call' = call /\ window' = window
      /\ probe' = R!NoProbe
  BY DEF R!Rewind
<1>2. Holds(s) /\ s \in Contexts
  BY ReadParts DEF Holds
<1>3. /\ probe.buf = Bytes(0, Len(probe.buf)) /\ Len(probe.buf) = R!Tell(s)
      /\ window = R!NoWindow
  BY <1>1, ReadParts DEF ProbeInv
<1>4. R!Start = Begin(s) /\ Begin(s) \in Nat /\ s.buf_ptr \in Nat
      /\ R!Tell(s) = Begin(s) + s.buf_ptr /\ s.at = s.pos /\ s.pos \in Nat
  BY <1>2, HoldsParts DEF R!Start, Begin
<1>5. ~(R!Start > Len(probe.buf)) /\ Len(probe.buf) - R!Start = s.buf_ptr
  BY <1>3, <1>4
<1> DEFINE buffer == probe.buf \o SubSeq(s.buffer, s.buf_ptr + 1, Len(s.buffer))
           size == R!Larger(s.buffer_size, Len(buffer))
<1>6. s' = [s EXCEPT !.buffer = buffer, !.buf_ptr = 0, !.pos = Len(buffer), !.buffer_size = size,
                     !.eof_reached = FALSE]
  BY <1>5 DEF R!Rewind
<1>7. buffer = Bytes(0, s.pos)
  <2>1. PICK k \in Nat : k = Len(s.buffer) - s.buf_ptr
    BY <1>2, Unread
  <2>2. /\ SubSeq(s.buffer, s.buf_ptr + 1, Len(s.buffer)) = Bytes(R!Tell(s), k)
        /\ R!Tell(s) \in Nat /\ R!Tell(s) + k = s.pos
    BY <1>2, <2>1, Unread
  <2>3. Bytes(0, R!Tell(s)) \o Bytes(0 + R!Tell(s), k) = Bytes(0, R!Tell(s) + k)
    <3> 0 \in Int
      OBVIOUS
    <3> QED BY <2>2, BytesFollow
  <2>4. 0 + R!Tell(s) = R!Tell(s)
    BY <2>2
  <2> QED BY <1>3, <2>2, <2>3, <2>4
<1>8. buffer \in Seq(Int) /\ Len(buffer) = s.pos
  <2> HIDE DEF buffer
  <2>1. 0 \in Int
    OBVIOUS
  <2> QED BY <1>4, <1>7, <2>1, BytesAre
<1>9. size \in Nat /\ s.pos <= size
  <2>1. s.buffer_size \in Nat
    BY <1>2, HoldsParts
  <2>2. size = R!Larger(s.buffer_size, s.pos)
    BY <1>8
  <2> HIDE DEF size
  <2> QED BY <1>4, <2>1, <2>2 DEF R!Larger
<1> HIDE DEF buffer, size
<1>10. /\ s' \in Contexts /\ s'.buffer = buffer /\ s'.buf_ptr = 0 /\ s'.buffer_size = size
       /\ s'.pos = s.pos /\ s'.at = s.pos
  BY <1>2, <1>4, <1>6, <1>8, <1>9 DEF Contexts
<1>11. Begin(s') = 0
  BY <1>4, <1>8, <1>10 DEF Begin
<1>12. Holds(s')
  BY <1>4, <1>7, <1>8, <1>9, <1>10, <1>11 DEF Holds
<1>13. probe' \in Probes /\ ~probe'.on
  <2>1. <<>> \in Seq(Int)
    OBVIOUS
  <2> QED BY <1>1, <2>1 DEF R!NoProbe, Probes
<1> QED BY <1>1, <1>3, <1>12, <1>13, IdleCall, ReadParts, NotReading DEF Promised

-----------------------------------------------------------------------------
(* A read, and a seek that lands where it was to land.                     *)
ReadVars == <<src, s, call, probe, window>>

LEMMA ReadStutters ==
  ASSUME ReadInv, UNCHANGED ReadVars
  PROVE  ReadInv'
BY DEF ReadVars, ReadInv, ReadTypeOK, Holds, CallInv, ProbeInv, WindowInv, Covers, Begin, R!Tell, Promised

LEMMA ReadBegins ==
  ASSUME R!Init
  PROVE  ReadInv
<1>1. <<>> \in Seq(Int)
  OBVIOUS
<1>2. PICK n \in BufferSizes :
        s = [buffer |-> <<>>, buf_ptr |-> 0, buffer_size |-> n, orig_buffer_size |-> n,
             pos |-> 0, eof_reached |-> FALSE, error |-> FALSE, at |-> 0]
  BY DEF R!Init
<1>3. n \in Nat
  BY Sizes
<1>4. s \in Contexts /\ s.buffer = <<>> /\ s.buf_ptr = 0 /\ s.at = s.pos /\ s.pos = 0
  BY <1>1, <1>2, <1>3 DEF Contexts
<1>5. Holds(s) /\ R!Tell(s) = 0
  BY <1>4, EmptyHolds
<1>6. call \in Calls /\ call.op = "idle" /\ window = R!NoWindow /\ window \in Windows
      /\ ~Promised /\ src \in R!Source
  BY IdleCall, Sizes DEF R!Init, Promised
<1>7. probe \in Probes /\ probe.buf = <<>>
  <2>1. R!NoProbe \in Probes /\ R!NoProbe.buf = <<>>
    BY <1>1 DEF R!NoProbe, Probes
  <2>2. probe = R!NoProbe \/ probe = [R!NoProbe EXCEPT !.on = TRUE]
    BY DEF R!Init
  <2> QED BY <2>1, <2>2 DEF Probes
<1>8. ProbeInv
  <2>1. Bytes(0, 0) = <<>> /\ Len(<<>>) = 0
    BY NoBytes
  <2> QED BY <1>5, <1>6, <1>7, <2>1 DEF ProbeInv
<1> QED BY <1>5, <1>6, <1>7, <1>8 DEF ReadInv, ReadTypeOK, CallInv, WindowInv

LEMMA ReadNext ==
  ASSUME ReadInv, R!Next
  PROVE  ReadInv' /\ R!SeekLands
<1> USE DEF R!SeekLands
<1>1. ASSUME NEW n \in 1 .. MaxRead, R!Read(n) PROVE ReadInv' /\ R!SeekLands
  BY <1>1, ReadStarts DEF R!Read
<1>2. ASSUME NEW n \in 1 .. MaxRead, R!ReadPartial(n) PROVE ReadInv' /\ R!SeekLands
  BY <1>2, ReadPartial DEF R!ReadPartial
<1>3. ASSUME NEW offset \in 0 .. ReadSize + 1, R!Seek(offset) PROVE ReadInv' /\ R!SeekLands
  BY <1>3, SeekStarts DEF R!Seek
<1>4. ASSUME NEW n \in 1 .. MaxWindow, R!EnsureSeekback(n) PROVE ReadInv' /\ R!SeekLands
  BY <1>4, EnsureSeekback DEF R!EnsureSeekback
<1>5. ASSUME NEW n \in BufferSizes, R!ReallocBuf(n) PROVE ReadInv' /\ R!SeekLands
  BY <1>5, ReallocBuf DEF R!ReallocBuf
<1>6. ASSUME R!Feof PROVE ReadInv' /\ R!SeekLands
  BY <1>6, Feof DEF R!Feof
<1>7. ASSUME R!Flush PROVE ReadInv' /\ R!SeekLands
  BY <1>7, FlushRead DEF R!Flush
<1>8. ASSUME R!Rewind PROVE ReadInv' /\ R!SeekLands
  BY <1>8, Rewind DEF R!Rewind
<1>9. ASSUME R!ReadCopies PROVE ReadInv' /\ R!SeekLands
  BY <1>9, ReadCopies DEF R!ReadCopies
<1>10. ASSUME R!ReadBypasses PROVE ReadInv' /\ R!SeekLands
  BY <1>10, ReadBypasses DEF R!ReadBypasses
<1>11. ASSUME R!ReadFills PROVE ReadInv' /\ R!SeekLands
  BY <1>11, ReadFills DEF R!ReadFills
<1>12. ASSUME R!SeekInBuffer PROVE ReadInv' /\ R!SeekLands
  BY <1>12, SeekInBuffer
<1>13. ASSUME R!SeekForward PROVE ReadInv' /\ R!SeekLands
  BY <1>13, SeekForward, IdleCall
<1>14. ASSUME R!SkipFills PROVE ReadInv' /\ R!SeekLands
  BY <1>14, SkipFills, IdleCall
<1>15. ASSUME R!SkipDone PROVE ReadInv' /\ R!SeekLands
  BY <1>15, SkipDone
<1>16. ASSUME R!SeekBackward PROVE ReadInv' /\ R!SeekLands
  BY <1>16, SeekBackward
<1>17. ASSUME R!SeekSource PROVE ReadInv' /\ R!SeekLands
  BY <1>17, SeekSource
<1> HIDE DEF R!SeekLands
<1> QED BY <1>1, <1>2, <1>3, <1>4, <1>5, <1>6, <1>7, <1>8, <1>9, <1>10, <1>11, <1>12, <1>13,
           <1>14, <1>15, <1>16, <1>17 DEF R!Next, R!User, R!Continue

-----------------------------------------------------------------------------
(* A file with data laid over it. *)
LEMMA Runs ==
  ASSUME NEW n \in Nat, NEW m \in Data
  PROVE  Run(n, m) \in Seq(Data) /\ Len(Run(n, m)) = n
BY DEF Run

LEMMA OverIs ==
  ASSUME NEW f \in Files, NEW p \in Nat, NEW d \in Seq(Data)
  PROVE  W!Over(f, p, d) \in Files
BY DEF W!Over, Files, W!Positions

LEMMA OverNothing ==
  ASSUME NEW f \in Files, NEW p \in Nat
  PROVE  W!Over(f, p, <<>>) = f
BY DEF W!Over, Files

LEMMA OverRun ==
  ASSUME NEW f \in Files, NEW p \in Nat, NEW n \in Nat, NEW k \in 0 .. n, NEW m \in Data
  PROVE  W!Over(W!Over(f, p, Run(k, m)), p + k, Run(n - k, m)) = W!Over(f, p, Run(n, m))
<1>0. k \in Nat /\ n - k \in Nat
  OBVIOUS
<1>1. Len(Run(k, m)) = k /\ Len(Run(n - k, m)) = n - k /\ Len(Run(n, m)) = n
  BY <1>0, Runs
<1> DEFINE g == W!Over(f, p, Run(k, m))
<1>2. ASSUME NEW q \in W!Positions
      PROVE  g[q] = IF q \in p .. p + k - 1 THEN Run(k, m)[q - p + 1] ELSE f[q]
  BY <1>1 DEF W!Over
<1>3. ASSUME NEW q \in W!Positions
      PROVE  (IF q \in p + k .. p + k + (n - k) - 1 THEN Run(n - k, m)[q - (p + k) + 1] ELSE g[q])
               = IF q \in p .. p + n - 1 THEN Run(n, m)[q - p + 1] ELSE f[q]
  BY <1>2 DEF Run, W!Positions
<1> HIDE DEF g
<1>4. W!Over(g, p + k, Run(n - k, m)) = W!Over(f, p, Run(n, m))
  BY <1>1, <1>3 DEF W!Over
<1> QED BY <1>4 DEF g

(* What is put into the buffer is laid over the content. *)
Putting(b, i, d) == SubSeq(b, 1, i) \o d \o SubSeq(b, i + Len(d) + 1, Len(b))

LEMMA PuttingIs ==
  ASSUME NEW b \in Seq(Data), NEW i \in 0 .. Len(b), NEW d \in Seq(Data)
  PROVE  /\ Putting(b, i, d) \in Seq(Data)
         /\ Len(Putting(b, i, d)) = IF i + Len(d) > Len(b) THEN i + Len(d) ELSE Len(b)
         /\ \A k \in 1 .. Len(Putting(b, i, d)) :
              Putting(b, i, d)[k] = IF k \in i + 1 .. i + Len(d) THEN d[k - i] ELSE b[k]
<1> DEFINE a == SubSeq(b, 1, i)
           r == SubSeq(b, i + Len(d) + 1, Len(b))
           w == Putting(b, i, d)
           ad == a \o d
<1>1. a \in Seq(Data) /\ Len(a) = i /\ \A k \in 1 .. i : a[k] = b[k]
  OBVIOUS
<1>2. /\ r \in Seq(Data) /\ Len(r) = IF i + Len(d) > Len(b) THEN 0 ELSE Len(b) - i - Len(d)
      /\ \A k \in 1 .. Len(r) : r[k] = b[i + Len(d) + k]
  OBVIOUS
<1>3. w = ad \o r
  BY DEF Putting
<1> HIDE DEF a, r, w
<1>4. Len(b) \in Nat /\ Len(d) \in Nat /\ i \in Nat /\ i <= Len(b) /\ Len(r) \in Nat
  BY <1>2
<1>5. ad \in Seq(Data) /\ Len(ad) = i + Len(d)
  BY <1>1
<1>6. \A k \in 1 .. i + Len(d) : ad[k] = IF k <= i THEN b[k] ELSE d[k - i]
  BY <1>1, <1>4
<1> HIDE DEF ad
<1>7. w \in Seq(Data) /\ Len(w) = i + Len(d) + Len(r)
  <2>1. ad \in Seq(Data) /\ r \in Seq(Data)
    BY <1>2, <1>5
  <2>2. w \in Seq(Data) /\ Len(w) = Len(ad) + Len(r)
    BY <2>1, <1>3
  <2> QED BY <2>2, <1>5
<1>8. Len(w) = IF i + Len(d) > Len(b) THEN i + Len(d) ELSE Len(b)
  <2>1. Len(r) = IF i + Len(d) > Len(b) THEN 0 ELSE Len(b) - i - Len(d)
    BY <1>2
  <2>2. CASE i + Len(d) > Len(b)
    BY <2>1, <2>2, <1>4, <1>7
  <2>3. CASE ~(i + Len(d) > Len(b))
    <3>1. Len(r) = Len(b) - i - Len(d)
      BY <2>1, <2>3
    <3>2. i + Len(d) + Len(r) = Len(b)
      BY <3>1, <1>4
    <3> QED BY <2>3, <3>2, <1>7
  <2> QED BY <2>2, <2>3
<1>9. ASSUME NEW k \in 1 .. Len(w)
      PROVE  w[k] = IF k \in i + 1 .. i + Len(d) THEN d[k - i] ELSE b[k]
  <2>1. k \in Int /\ 1 <= k /\ k <= i + Len(d) + Len(r)
    BY <1>4, <1>7
  <2>2. CASE k <= i + Len(d)
    <3>1. w[k] = ad[k]
      BY <2>1, <2>2, <1>2, <1>3, <1>4, <1>5
    <3>2. k \in 1 .. i + Len(d)
      BY <2>1, <2>2, <1>4
    <3>3. ad[k] = IF k <= i THEN b[k] ELSE d[k - i]
      BY <3>2, <1>6
    <3>4. k \in i + 1 .. i + Len(d) <=> ~(k <= i)
      BY <2>1, <2>2, <1>4
    <3> QED BY <3>1, <3>3, <3>4
  <2>3. CASE k > i + Len(d)
    <3>1. k - i - Len(d) \in 1 .. Len(r) /\ Len(r) \in Nat
      BY <2>1, <2>3, <1>4
    <3>2. w[k] = r[k - i - Len(d)]
      BY <2>1, <2>3, <3>1, <1>2, <1>3, <1>4, <1>5
    <3>3. r[k - i - Len(d)] = b[i + Len(d) + (k - i - Len(d))]
      BY <3>1, <1>2
    <3>4. i + Len(d) + (k - i - Len(d)) = k
      BY <2>1, <1>4
    <3>5. k \notin i + 1 .. i + Len(d)
      BY <2>1, <2>3, <1>4
    <3>6. w[k] = b[k]
      BY <3>2, <3>3, <3>4
    <3> QED BY <3>5, <3>6
  <2>4. k <= i + Len(d) \/ k > i + Len(d)
    BY <2>1, <1>4
  <2> QED BY <2>2, <2>3, <2>4
<1> QED BY <1>7, <1>8, <1>9 DEF w

LEMMA OverPut ==
  ASSUME NEW f \in Files, NEW p \in Nat, NEW b \in Seq(Data), NEW i \in 0 .. Len(b),
         NEW d \in Seq(Data)
  PROVE  W!Over(f, p, Putting(b, i, d)) = W!Over(W!Over(f, p, b), p + i, d)
<1> DEFINE w == Putting(b, i, d)
           g == W!Over(f, p, b)
<1>1. /\ w \in Seq(Data) /\ Len(w) = IF i + Len(d) > Len(b) THEN i + Len(d) ELSE Len(b)
      /\ \A k \in 1 .. Len(w) : w[k] = IF k \in i + 1 .. i + Len(d) THEN d[k - i] ELSE b[k]
  BY PuttingIs
<1>2. Len(b) \in Nat /\ Len(d) \in Nat /\ i \in Nat /\ i <= Len(b) /\ Len(w) \in Nat
  BY <1>1
<1>3. ASSUME NEW q \in W!Positions
      PROVE  g[q] = IF q \in p .. p + Len(b) - 1 THEN b[q - p + 1] ELSE f[q]
  BY DEF W!Over
<1> HIDE DEF w, g
<1>4. ASSUME NEW q \in W!Positions
      PROVE  (IF q \in p .. p + Len(w) - 1 THEN w[q - p + 1] ELSE f[q])
               = IF q \in p + i .. p + i + Len(d) - 1 THEN d[q - (p + i) + 1] ELSE g[q]
  <2>1. q \in Int
    BY Sizes DEF W!Positions
  <2>2. CASE q \in p + i .. p + i + Len(d) - 1
    <3>1. q - p + 1 \in 1 .. Len(w) /\ q - p + 1 \in i + 1 .. i + Len(d)
      BY <2>1, <2>2, <1>1, <1>2
    <3>2. w[q - p + 1] = d[q - p + 1 - i] /\ q - p + 1 - i = q - (p + i) + 1
      BY <2>1, <3>1, <1>1, <1>2
    <3> QED BY <2>1, <2>2, <3>1, <3>2, <1>2
  <2>3. CASE ~(q \in p + i .. p + i + Len(d) - 1) /\ q \in p .. p + Len(b) - 1
    <3>1. q - p + 1 \in 1 .. Len(w) /\ ~(q - p + 1 \in i + 1 .. i + Len(d))
      BY <2>1, <2>3, <1>1, <1>2
    <3>2. w[q - p + 1] = b[q - p + 1]
      BY <3>1, <1>1
    <3> QED BY <2>1, <2>3, <3>1, <3>2, <1>2, <1>3
  <2>4. CASE ~(q \in p + i .. p + i + Len(d) - 1) /\ ~(q \in p .. p + Len(b) - 1)
    BY <2>1, <2>4, <1>1, <1>2, <1>3
  <2> QED BY <2>2, <2>3, <2>4
<1>5. W!Over(f, p, w) = W!Over(g, p + i, d)
  BY <1>4 DEF W!Over
<1> QED BY <1>5 DEF g, w

-----------------------------------------------------------------------------
(* A context and a file together: as long as no error is kept, the sink    *)
(* stands where the buffer begins.                                         *)
Sits(v) ==
  /\ v \in [s : Writers, file : Files]
  /\ v.s.buf_ptr <= Len(v.s.buffer) /\ (~v.s.error => v.s.at = v.s.pos)

Drained(v) == v.s.buffer = <<>> /\ v.s.buf_ptr = 0

LEMMA Written ==
  ASSUME NEW v, Sits(v), NEW d \in Seq(Data), NEW u \in W!WriteOuts(v, d)
  PROVE  /\ u \in [s : Writers, file : Files]
         /\ u.s.buffer = v.s.buffer /\ u.s.buf_ptr = v.s.buf_ptr
         /\ u.s.buffer_size = v.s.buffer_size /\ u.s.pos = v.s.pos + Len(d)
         /\ v.s.error => u.s.error
         /\ ~u.s.error => u.s.at = u.s.pos /\ u.file = W!Over(v.file, v.s.pos, d)
<1>1. PICK x \in Writers, f \in Files : v = [s |-> x, file |-> f]
  BY DEF Sits
<1>2. v.s = x /\ v.file = f
  BY <1>1
<1>3. x.pos \in Nat /\ x.at \in Nat /\ Len(d) \in Nat /\ (~x.error => x.at = x.pos)
  BY <1>1, <1>2 DEF Writers, Sits
<1>4. x.pos + Len(d) \in Nat
  BY <1>3
<1> DEFINE m == W!Moved(v, Len(d))
<1>5. /\ m \in [s : Writers, file : Files] /\ m.file = f /\ m.s.pos = x.pos + Len(d)
      /\ m.s.error = x.error /\ m.s.at = x.at /\ m.s.buffer = x.buffer
      /\ m.s.buf_ptr = x.buf_ptr /\ m.s.buffer_size = x.buffer_size
  BY <1>1, <1>4 DEF W!Moved, Writers
<1> HIDE DEF m
<1>7. CASE u = [m EXCEPT !.s.error = TRUE]
  <2>1. u \in [s : Writers, file : Files]
    BY <1>5, <1>7 DEF Writers
  <2>2. u.s.error
    BY <1>5, <1>7 DEF Writers
  <2>3. /\ u.s.buffer = m.s.buffer /\ u.s.buf_ptr = m.s.buf_ptr
        /\ u.s.buffer_size = m.s.buffer_size /\ u.s.pos = m.s.pos
    BY <1>5, <1>7 DEF Writers
  <2> QED BY <1>2, <1>5, <2>1, <2>2, <2>3
<1>8. CASE ~v.s.error /\ u = [m EXCEPT !.file = W!Over(@, v.s.at, d), !.s.at = @ + Len(d)]
  <2>1. W!Over(f, x.at, d) \in Files
    BY <1>1, <1>3, OverIs
  <2>2. x.at + Len(d) \in Nat
    BY <1>3
  <2>3. /\ u \in [s : Writers, file : Files] /\ u.file = W!Over(f, x.at, d)
        /\ u.s.at = x.at + Len(d) /\ u.s.buffer = m.s.buffer /\ u.s.buf_ptr = m.s.buf_ptr
        /\ u.s.buffer_size = m.s.buffer_size /\ u.s.pos = m.s.pos
    BY <1>2, <1>5, <1>8, <2>1, <2>2 DEF Writers
  <2> QED BY <1>2, <1>3, <1>5, <1>8, <2>3
<1> QED BY <1>7, <1>8 DEF W!WriteOuts, m

(* A flush brings the content to the file.                                 *)
LEMMA Flushed ==
  ASSUME NEW v, Sits(v), NEW u \in W!Flushes(v)
  PROVE  /\ Sits(u) /\ Drained(u) /\ u.s.buffer_size = v.s.buffer_size
         /\ u.s.pos = v.s.pos + Len(v.s.buffer)
         /\ v.s.error => u.s.error
         /\ ~u.s.error => u.file = Content(v)
<1>1. v.s \in Writers /\ v.file \in Files /\ v.s.buffer \in Seq(Data) /\ v.s.pos \in Nat
      /\ v.s.buf_ptr \in Nat
  BY DEF Sits, Writers
<1>2. CASE v.s.buffer = <<>>
  <2>1. u = v
    BY <1>2 DEF W!Flushes
  <2>2. v.s.buf_ptr = 0 /\ v.s.pos = v.s.pos + Len(v.s.buffer)
    BY <1>1, <1>2 DEF Sits
  <2>3. Content(v) = v.file
    BY <1>1, <1>2, OverNothing DEF Content
  <2> QED BY <1>2, <2>1, <2>2, <2>3 DEF Drained
<1>3. CASE v.s.buffer # <<>>
  <2>1. PICK x \in W!WriteOuts(v, v.s.buffer) : u = W!Emptied(x)
    BY <1>3 DEF W!Flushes
  <2>2. /\ x \in [s : Writers, file : Files] /\ x.s.buffer_size = v.s.buffer_size
        /\ x.s.pos = v.s.pos + Len(v.s.buffer)
        /\ v.s.error => x.s.error
        /\ ~x.s.error => x.s.at = x.s.pos /\ x.file = W!Over(v.file, v.s.pos, v.s.buffer)
    BY <1>1, <2>1, Written
  <2>3. <<>> \in Seq(Data) /\ Len(<<>>) = 0
    OBVIOUS
  <2>4. /\ u \in [s : Writers, file : Files] /\ u.s.buffer = <<>> /\ u.s.buf_ptr = 0
        /\ u.s.buffer_size = x.s.buffer_size /\ u.s.pos = x.s.pos /\ u.s.error = x.s.error
        /\ u.s.at = x.s.at /\ u.file = x.file
    BY <2>1, <2>2, <2>3 DEF W!Emptied, Writers
  <2> QED BY <2>2, <2>3, <2>4 DEF Sits, Drained, Content
<1> QED BY <1>2, <1>3

LEMMA SinkMoved ==
  ASSUME NEW v, Sits(v), Drained(v), NEW p \in Nat, NEW u \in W!SinkSeeks(v, p)
  PROVE  /\ Sits(u) /\ Drained(u) /\ u.s.buffer_size = v.s.buffer_size
         /\ u.file = v.file /\ u.s.error = v.s.error
         /\ W!Tell(u.s) = p \/ (u = v /\ sink.seek # "works")
<1>1. CASE sink.seek # "works" /\ u = v
  BY <1>1
<1>2. CASE u = [W!Emptied(v) EXCEPT !.s.pos = p, !.s.at = p]
  <2>1. <<>> \in Seq(Data) /\ Len(<<>>) = 0
    OBVIOUS
  <2>2. v \in [s : Writers, file : Files]
    BY DEF Sits
  <2>3. /\ u \in [s : Writers, file : Files] /\ u.s.buffer = <<>> /\ u.s.buf_ptr = 0
        /\ u.s.buffer_size = v.s.buffer_size /\ u.s.pos = p /\ u.s.error = v.s.error
        /\ u.s.at = p /\ u.file = v.file
    BY <1>2, <2>1, <2>2 DEF W!Emptied, Writers
  <2> QED BY <2>1, <2>3 DEF Sits, Drained, W!Tell
<1> QED BY <1>1, <1>2 DEF W!SinkSeeks

(* avio_flush goes back to where the user was, if the sink can be sought.  *)
LEMMA FlushedAll ==
  ASSUME NEW v, Sits(v), NEW u \in W!FlushesAll(v)
  PROVE  /\ Sits(u) /\ Drained(u) /\ u.s.buffer_size = v.s.buffer_size
         /\ v.s.error => u.s.error
         /\ ~u.s.error => u.file = Content(v)
         /\ sink.seek = "works" => W!Tell(u.s) = W!Tell(v.s)
<1>1. PICK x \in W!Flushes(v) :
        u \in (IF v.s.buf_ptr = Len(v.s.buffer) THEN {x} ELSE W!SinkSeeks(x, W!Tell(v.s)))
  BY DEF W!FlushesAll
<1>2. /\ Sits(x) /\ Drained(x) /\ x.s.buffer_size = v.s.buffer_size
      /\ x.s.pos = v.s.pos + Len(v.s.buffer)
      /\ v.s.error => x.s.error
      /\ ~x.s.error => x.file = Content(v)
  BY <1>1, Flushed
<1>3. v.s.pos \in Nat /\ v.s.buf_ptr \in Nat /\ x.s.pos \in Nat /\ x.s.buf_ptr = 0
  BY <1>2 DEF Sits, Writers, Drained
<1>4. CASE v.s.buf_ptr = Len(v.s.buffer)
  <2>1. u = x
    BY <1>1, <1>4
  <2>2. W!Tell(x.s) = W!Tell(v.s)
    BY <1>2, <1>3, <1>4 DEF W!Tell
  <2> QED BY <1>2, <2>1, <2>2
<1>5. CASE v.s.buf_ptr # Len(v.s.buffer)
  <2>1. u \in W!SinkSeeks(x, W!Tell(v.s)) /\ W!Tell(v.s) \in Nat
    BY <1>1, <1>3, <1>5 DEF W!Tell
  <2>2. /\ Sits(u) /\ Drained(u) /\ u.s.buffer_size = x.s.buffer_size
        /\ u.file = x.file /\ u.s.error = x.s.error
        /\ W!Tell(u.s) = W!Tell(v.s) \/ (u = x /\ sink.seek # "works")
    BY <1>2, <2>1, SinkMoved
  <2> QED BY <1>2, <2>2
<1> QED BY <1>4, <1>5

-----------------------------------------------------------------------------
(* A call on a context that is written to. *)
LEMMA WriteParts ==
  ASSUME WriteInv
  PROVE  /\ Sits(W!Now) /\ W!Now.s = out /\ W!Now.file = file
         /\ out \in Writers /\ file \in Files /\ meant \in Files
         /\ sink \in W!Sink /\ writing.size \in Nat /\ writing.mark \in Data
         /\ writing.op \in {"idle", "write", "direct"}
         /\ place \in Nat /\ strayed \in BOOLEAN /\ open \in BOOLEAN
         /\ Fits /\ PlaceInv /\ MeantInv /\ ClosedInv
         /\ out.pos \in Nat /\ out.buf_ptr \in Nat /\ out.buffer \in Seq(Data)
         /\ out.buffer_size \in Nat /\ W!Tell(out) \in Nat
BY DEF WriteInv, WriteTypeOK, Sits, Fits, W!FailuresKept, W!Now, W!Tell, Writers

LEMMA ContentIs ==
  ASSUME NEW v, Sits(v)
  PROVE  Content(v) \in Files
BY OverIs DEF Sits, Content, Writers

LEMMA NothingLeft ==
  ASSUME WriteInv, writing.op = "idle"
  PROVE  writing.size = 0 /\ Whole = Content(W!Now) /\ W!Tell(out) = place
<1>1. writing.size = 0 /\ W!Tell(out) = place
  BY WriteParts DEF PlaceInv
<1>2. Run(0, writing.mark) = <<>>
  BY DEF Run
<1>3. Content(W!Now) \in Files
  BY WriteParts, ContentIs
<1> QED BY <1>1, <1>2, <1>3, WriteParts, OverNothing DEF Whole

(* A call becomes v, and leaves what it is to be written of it. *)
LEMMA Becoming ==
  ASSUME NEW v, Sits(v), Len(v.s.buffer) < v.s.buffer_size, W!Becomes(v), sink' \in W!Sink,
         meant' \in Files, strayed' \in BOOLEAN, open' \in BOOLEAN, place' \in Nat,
         writing' \in [op : {"idle", "write", "direct"}, size : Nat, mark : Data],
         W!Tell(v.s) + writing'.size = place',
         writing'.op = "idle" => writing'.size = 0,
         ~v.s.error /\ ~strayed' =>
           W!Over(Content(v), W!Tell(v.s), Run(writing'.size, writing'.mark)) = meant',
         ~open' => writing'.op = "idle" /\ v.s.buffer = <<>>
  PROVE  WriteInv'
<1>1. out' = v.s /\ file' = v.file
  BY DEF W!Becomes
<1>2. WriteTypeOK'
  BY <1>1 DEF WriteTypeOK, Sits
<1>3. Fits' /\ W!FailuresKept'
  BY <1>1 DEF Fits, W!FailuresKept, Sits
<1>4. PlaceInv'
  BY <1>1 DEF PlaceInv, W!Tell
<1>5. MeantInv'
  BY <1>1 DEF MeantInv, W!Sound, Whole, Content, W!Now, W!Tell, W!Over
<1>6. ClosedInv'
  BY <1>1 DEF ClosedInv
<1> QED BY <1>2, <1>3, <1>4, <1>5, <1>6 DEF WriteInv

(* One that was idle stays so. *)
LEMMA Resting ==
  ASSUME WriteInv, writing.op = "idle", NEW v, Sits(v), Len(v.s.buffer) < v.s.buffer_size,
         W!Becomes(v), UNCHANGED <<sink, writing, meant, strayed>>, open' \in BOOLEAN,
         place' = W!Tell(v.s), ~open' => v.s.buffer = <<>>,
         out.error => v.s.error, ~v.s.error => Content(v) = Content(W!Now)
  PROVE  WriteInv'
<1>1. writing.size = 0 /\ Whole = Content(W!Now)
  BY NothingLeft
<1>2. Run(0, writing.mark) = <<>>
  BY DEF Run
<1>3. W!Tell(v.s) \in Nat /\ Content(v) \in Files
  BY ContentIs DEF Sits, W!Tell, Writers
<1>4. W!Over(Content(v), W!Tell(v.s), <<>>) = Content(v)
  BY <1>3, OverNothing
<1>5. ~v.s.error /\ ~strayed' => Content(v) = meant'
  BY <1>1, WriteParts DEF MeantInv, W!Sound
<1>6. /\ sink' \in W!Sink /\ meant' \in Files /\ strayed' \in BOOLEAN /\ place' \in Nat
      /\ writing' \in [op : {"idle", "write", "direct"}, size : Nat, mark : Data]
      /\ writing' = writing
  BY <1>3 DEF WriteInv, WriteTypeOK
<1>7. W!Tell(v.s) + writing'.size = place'
  BY <1>1, <1>3, <1>6
<1> QED BY <1>1, <1>2, <1>4, <1>5, <1>6, <1>7, Becoming

LEMMA DrainedContent ==
  ASSUME NEW v, Sits(v), Drained(v)
  PROVE  Content(v) = v.file /\ W!Tell(v.s) = v.s.pos /\ v.s.pos \in Nat
BY OverNothing DEF Sits, Drained, Content, W!Tell, Writers

(* What FlushesAll leaves. *)
LEMMA Flushing ==
  ASSUME WriteInv, writing.op = "idle", NEW v \in W!FlushesAll(W!Now), W!Becomes(v),
         UNCHANGED <<sink, writing, meant, strayed>>, open' \in BOOLEAN, W!Learns
  PROVE  WriteInv'
<1>1. /\ Sits(v) /\ Drained(v) /\ v.s.buffer_size = out.buffer_size
      /\ out.error => v.s.error
      /\ ~v.s.error => v.file = Content(W!Now)
      /\ sink.seek = "works" => W!Tell(v.s) = W!Tell(out)
  BY WriteParts, FlushedAll
<1>2. ~v.s.error => Content(v) = Content(W!Now)
  BY <1>1, DrainedContent
<1>3. Len(v.s.buffer) < v.s.buffer_size /\ v.s.buffer = <<>>
  BY <1>1, WriteParts DEF Fits, Drained
<1>4. W!Tell(out) = place
  BY NothingLeft
<1>5. place' = W!Tell(v.s)
  BY <1>1, <1>4 DEF W!Learns, W!Becomes, W!Tell
<1> QED BY <1>1, <1>2, <1>3, <1>5, Resting

LEMMA Flush ==
  ASSUME WriteInv, W!Flush
  PROVE  WriteInv'
<1>1. PICK v \in W!FlushesAll(W!Now) : W!Becomes(v)
  BY DEF W!Flush
<1> QED BY <1>1, WriteParts, Flushing DEF W!Flush

LEMMA Close ==
  ASSUME WriteInv, W!Close
  PROVE  WriteInv'
<1>1. PICK v \in W!FlushesAll(W!Now) : W!Becomes(v)
  BY DEF W!Close
<1> QED BY <1>1, Flushing DEF W!Close

LEMMA WriteSeeks ==
  ASSUME WriteInv, NEW offset \in Nat, W!Seek(offset)
  PROVE  WriteInv'
<1>1. /\ open /\ writing.op = "idle" /\ sink' = sink /\ writing' = writing /\ meant' = meant
      /\ strayed' = strayed /\ open' = open
  BY DEF W!Seek
<1>2. Sits(W!Now) /\ W!Now.s = out /\ W!Now.file = file /\ out \in Writers /\ Fits
  BY WriteParts
<1>3. CASE /\ W!InBuffer(offset)
           /\ out' = [out EXCEPT !.buf_ptr = offset - out.pos] /\ place' = offset
           /\ file' = file
  <2>1. offset - out.pos \in 0 .. Len(out.buffer) /\ out.pos \in Nat /\ out.buffer \in Seq(Data)
    BY <1>2, <1>3 DEF W!InBuffer, Writers
  <2>2. offset - out.pos \in Nat /\ out.pos + (offset - out.pos) = offset
        /\ offset - out.pos <= Len(out.buffer)
    BY <2>1
  <2>3. /\ out' \in Writers /\ out'.buf_ptr = offset - out.pos /\ out'.pos = out.pos
        /\ out'.buffer = out.buffer /\ out'.buffer_size = out.buffer_size
        /\ out'.error = out.error /\ out'.at = out.at
    BY <1>2, <1>3, <2>2 DEF Writers
  <2> DEFINE v == [s |-> out', file |-> file]
  <2>4. v.s = out' /\ v.file = file /\ v \in [s : Writers, file : Files]
    BY <2>3, WriteParts
  <2> HIDE DEF v
  <2>5. Sits(v)
    BY <1>2, <2>2, <2>3, <2>4 DEF Sits
  <2>6. Content(v) = Content(W!Now)
    BY <1>2, <2>3, <2>4 DEF Content
  <2>7. Len(v.s.buffer) < v.s.buffer_size
    BY <1>2, <2>3, <2>4 DEF Fits
  <2>8. W!Tell(v.s) = place' /\ W!Becomes(v)
    BY <1>3, <2>2, <2>3, <2>4 DEF W!Tell, W!Becomes
  <2> QED BY <1>1, <2>3, <2>4, <2>5, <2>6, <2>7, <2>8, Resting, WriteParts
<1>4. CASE /\ ~W!InBuffer(offset)
           /\ \E u \in W!Flushes(W!Now) : \E v \in W!SinkSeeks(u, offset) : W!Becomes(v)
           /\ place' = IF sink.seek = "works" THEN offset ELSE W!Tell(out')
  <2>1. PICK u \in W!Flushes(W!Now) : \E v \in W!SinkSeeks(u, offset) : W!Becomes(v)
    BY <1>4
  <2>2. PICK v \in W!SinkSeeks(u, offset) : W!Becomes(v)
    BY <2>1
  <2>3. /\ Sits(u) /\ Drained(u) /\ u.s.buffer_size = out.buffer_size
        /\ out.error => u.s.error
        /\ ~u.s.error => u.file = Content(W!Now)
    BY <1>2, Flushed
  <2>4. /\ Sits(v) /\ Drained(v) /\ v.s.buffer_size = u.s.buffer_size
        /\ v.file = u.file /\ v.s.error = u.s.error
        /\ W!Tell(v.s) = offset \/ (v = u /\ sink.seek # "works")
    BY <2>2, <2>3, SinkMoved
  <2>5. ~v.s.error => Content(v) = Content(W!Now)
    BY <2>3, <2>4, DrainedContent
  <2>6. Len(v.s.buffer) < v.s.buffer_size /\ v.s.buffer = <<>>
    BY <1>2, <2>3, <2>4, WriteParts DEF Fits, Drained
  <2>7. place' = W!Tell(v.s)
    BY <1>4, <2>2, <2>4 DEF W!Becomes
  <2> QED BY <1>1, <2>2, <2>3, <2>4, <2>5, <2>6, <2>7, Resting, WriteParts
<1> QED BY <1>3, <1>4 DEF W!Seek

(* A write has all that it is to write still before it.                    *)
LEMMA WriteStarts ==
  ASSUME WriteInv, NEW size \in Nat, NEW mark \in Marks, NEW op \in {"write", "direct"},
         W!Write(size, mark, op)
  PROVE  WriteInv'
<1>1. /\ open /\ writing.op = "idle" /\ sink' = sink /\ out' = out /\ file' = file
      /\ strayed' = strayed /\ open' = open /\ place' = place + size
      /\ writing' = [op |-> op, size |-> size, mark |-> mark]
      /\ meant' = W!Over(meant, place, Run(size, mark))
  BY DEF W!Write, Run
<1>2. mark \in Data
  BY DEF Data
<1>3. W!Now.s = out /\ W!Now.file = file /\ Sits(W!Now) /\ Fits /\ place \in Nat
  BY WriteParts
<1>4. W!Tell(out) = place /\ Whole = Content(W!Now)
  BY <1>1, NothingLeft
<1>5. meant' \in Files
  BY <1>1, <1>2, <1>3, WriteParts, OverIs, Runs
<1>6. ~out.error /\ ~strayed => W!Over(Content(W!Now), W!Tell(out), Run(size, mark)) = meant'
  BY <1>1, <1>4, WriteParts DEF MeantInv, W!Sound
<1>7. W!Becomes(W!Now)
  BY <1>1, <1>3 DEF W!Becomes
<1>8. /\ writing' \in [op : {"idle", "write", "direct"}, size : Nat, mark : Data]
      /\ writing'.op # "idle" /\ writing'.size = size /\ writing'.mark = mark
  BY <1>1, <1>2
<1>9. place' \in Nat /\ W!Tell(out) + size = place'
  BY <1>1, <1>3, <1>4
<1>10. Len(out.buffer) < out.buffer_size
  BY <1>3 DEF Fits
<1> QED BY <1>1, <1>3, <1>5, <1>6, <1>7, <1>8, <1>9, <1>10, WriteParts, Becoming

(* A turn puts n bytes into the buffer, which moves what lies behind them  *)
(* from what is still to be written to the content.                        *)
LEMMA WriteTurns ==
  ASSUME WriteInv, W!WriteTurn
  PROVE  WriteInv'
<1> DEFINE n == W!Smaller(out.buffer_size - out.buf_ptr, writing.size)
           d == Run(n, writing.mark)
           put == [W!Now EXCEPT !.s = W!Put(n)]
<1>1. PICK v \in IF put.s.buf_ptr >= put.s.buffer_size THEN W!Flushes(put) ELSE {put} :
        W!Becomes(v)
  <2>1. put.s.buffer_size = out.buffer_size
    BY WriteParts DEF W!Put, W!Now, Writers
  <2> QED BY <2>1 DEF W!WriteTurn
<1>2. /\ writing.op = "write" /\ sink' = sink /\ meant' = meant /\ place' = place
      /\ strayed' = strayed /\ open' = open
      /\ writing' = IF n = writing.size THEN W!Idle ELSE [writing EXCEPT !.size = @ - n]
  BY DEF W!WriteTurn
<1>3. /\ n \in Nat /\ writing.size \in Nat /\ writing.mark \in Data /\ n \in 0 .. writing.size
      /\ out.buf_ptr \in Nat /\ out.buffer \in Seq(Data) /\ out.buffer_size \in Nat
      /\ n <= out.buffer_size - out.buf_ptr /\ out.buf_ptr \in 0 .. Len(out.buffer)
      /\ Len(out.buffer) < out.buffer_size /\ Len(out.buffer) \in Nat
  BY WriteParts DEF Fits, W!Smaller
<1>4. d \in Seq(Data) /\ Len(d) = n
  BY <1>3, Runs
<1> DEFINE b == Putting(out.buffer, out.buf_ptr, d)
<1>5. b \in Seq(Data) /\ Len(b) = IF out.buf_ptr + n > Len(out.buffer) THEN out.buf_ptr + n
                                  ELSE Len(out.buffer)
  BY <1>3, <1>4, PuttingIs
<1>6. W!Put(n) = [out EXCEPT !.buffer = b, !.buf_ptr = @ + n]
  BY <1>4, WriteParts DEF W!Put, W!Marked, Run, Putting, Writers
<1> HIDE DEF n, d, b
<1>7. W!Put(n) \in Writers
  <2>1. out.buf_ptr + n \in Nat
    BY <1>3
  <2>2. out \in Writers
    BY WriteParts
  <2> QED BY <1>5, <1>6, <2>1, <2>2 DEF Writers
<1>8. /\ put \in [s : Writers, file : Files] /\ put.file = file
      /\ put.s.buffer = b /\ put.s.buf_ptr = out.buf_ptr + n /\ put.s.pos = out.pos
      /\ put.s.buffer_size = out.buffer_size /\ put.s.error = out.error /\ put.s.at = out.at
  BY <1>6, <1>7, WriteParts DEF W!Now, Writers
<1> HIDE DEF put
<1>9. put.s.buf_ptr <= Len(put.s.buffer)
  BY <1>3, <1>5, <1>8
<1>10. Sits(put)
  BY <1>8, <1>9, WriteParts DEF Sits
<1>11. Content(put) = W!Over(Content(W!Now), W!Tell(out), d)
  <2>1. W!Over(file, out.pos, b)
          = W!Over(W!Over(file, out.pos, out.buffer), out.pos + out.buf_ptr, d)
    BY <1>3, <1>4, WriteParts, OverPut DEF b
  <2> QED BY <1>8, <2>1, WriteParts DEF Content, W!Tell
<1>12. W!Tell(put.s) = W!Tell(out) + n
  BY <1>3, <1>8, WriteParts DEF W!Tell
<1>13. /\ Sits(v) /\ Len(v.s.buffer) < v.s.buffer_size /\ W!Tell(v.s) = W!Tell(put.s)
       /\ out.error => v.s.error
       /\ ~v.s.error => Content(v) = Content(put)
  <2>1. CASE put.s.buf_ptr >= put.s.buffer_size
    <3>1. /\ Sits(v) /\ Drained(v) /\ v.s.buffer_size = put.s.buffer_size
          /\ v.s.pos = put.s.pos + Len(put.s.buffer)
          /\ put.s.error => v.s.error
          /\ ~v.s.error => v.file = Content(put)
      BY <1>1, <1>10, <2>1, Flushed
    <3>2. Len(b) = out.buf_ptr + n
      BY <1>3, <1>5, <1>8, <2>1
    <3>3. W!Tell(v.s) = W!Tell(put.s)
      BY <1>8, <3>1, <3>2, DrainedContent DEF W!Tell
    <3>4. Len(v.s.buffer) < v.s.buffer_size
      <4>1. Len(v.s.buffer) = 0
        BY <3>1 DEF Drained
      <4> QED BY <1>3, <1>8, <3>1, <4>1
    <3> QED BY <1>8, <3>1, <3>3, <3>4, DrainedContent
  <2>2. CASE ~(put.s.buf_ptr >= put.s.buffer_size)
    <3>1. v = put
      BY <1>1, <2>2
    <3>2. Len(put.s.buffer) < put.s.buffer_size
      BY <1>3, <1>5, <1>8, <2>2
    <3> QED BY <1>8, <1>10, <3>1, <3>2
  <2> QED BY <2>1, <2>2
<1>14. /\ writing' \in [op : {"idle", "write", "direct"}, size : Nat, mark : Data]
       /\ writing'.size = writing.size - n
       /\ writing'.op = "idle" => writing'.size = 0
       /\ n = writing.size \/ writing'.mark = writing.mark
  <2>1. writing \in [op : {"idle", "write", "direct"}, size : Nat, mark : Data]
    BY DEF WriteInv, WriteTypeOK
  <2>2. CASE n = writing.size
    BY <1>2, <1>3, <2>2 DEF W!Idle, Data
  <2>3. CASE n # writing.size
    BY <1>2, <1>3, <2>1, <2>3
  <2> QED BY <2>2, <2>3
<1>15. Run(writing'.size, writing'.mark) = Run(writing.size - n, writing.mark)
  BY <1>3, <1>14 DEF Run
<1>16. Content(W!Now) \in Files /\ W!Tell(out) \in Nat
  BY WriteParts, ContentIs
<1>17. W!Over(Content(put), W!Tell(out) + n, Run(writing.size - n, writing.mark)) = Whole
  <2>1. W!Over(W!Over(Content(W!Now), W!Tell(out), Run(n, writing.mark)), W!Tell(out) + n,
               Run(writing.size - n, writing.mark))
          = W!Over(Content(W!Now), W!Tell(out), Run(writing.size, writing.mark))
    <3>1. writing.size \in Nat /\ n \in 0 .. writing.size /\ writing.mark \in Data
      BY <1>3
    <3> QED BY <1>16, <3>1, OverRun
  <2> QED BY <1>11, <2>1 DEF Whole, d
<1>18. ~v.s.error /\ ~strayed' =>
         W!Over(Content(v), W!Tell(v.s), Run(writing'.size, writing'.mark)) = meant'
  BY <1>2, <1>12, <1>13, <1>15, <1>17, WriteParts DEF MeantInv, W!Sound
<1>19. W!Tell(v.s) + writing'.size = place'
  BY <1>2, <1>3, <1>12, <1>13, <1>14, <1>16, WriteParts DEF PlaceInv
<1>20. open'
  BY <1>2, WriteParts DEF ClosedInv
<1> QED BY <1>1, <1>2, <1>13, <1>14, <1>18, <1>19, <1>20, WriteParts, Becoming

(* A direct write goes where the user is, unless the flush strays.         *)
LEMMA WriteDirect ==
  ASSUME WriteInv, W!WriteDirect
  PROVE  WriteInv'
<1> DEFINE d == Run(writing.size, writing.mark)
<1>1. PICK u \in W!FlushesAll(W!Now) :
        /\ strayed' = (strayed \/ (sink.seek # "works" /\ W!Tell(u.s) # W!Tell(out)))
        /\ \E v \in W!WriteOuts(u, d) : W!Becomes(v)
  BY DEF W!WriteDirect, W!Marked, Run
<1>2. PICK v \in W!WriteOuts(u, d) : W!Becomes(v)
  BY <1>1
<1>3. /\ writing.op = "direct" /\ sink' = sink /\ meant' = meant /\ open' = open
      /\ writing' = W!Idle /\ W!Learns
  BY DEF W!WriteDirect
<1>4. d \in Seq(Data) /\ Len(d) = writing.size /\ writing.size \in Nat
  BY WriteParts, Runs
<1> HIDE DEF d
<1>5. /\ Sits(u) /\ Drained(u) /\ u.s.buffer_size = out.buffer_size
      /\ out.error => u.s.error
      /\ ~u.s.error => u.file = Content(W!Now)
      /\ sink.seek = "works" => W!Tell(u.s) = W!Tell(out)
  BY WriteParts, FlushedAll
<1>6. W!Tell(u.s) = u.s.pos /\ u.s.pos \in Nat
  BY <1>5, DrainedContent
<1>7. /\ v \in [s : Writers, file : Files]
      /\ v.s.buffer = <<>> /\ v.s.buf_ptr = 0 /\ v.s.buffer_size = u.s.buffer_size
      /\ v.s.pos = u.s.pos + writing.size
      /\ u.s.error => v.s.error
      /\ ~v.s.error => v.s.at = v.s.pos /\ v.file = W!Over(u.file, u.s.pos, d)
  BY <1>2, <1>4, <1>5, Written DEF Drained
<1>8. Sits(v) /\ Drained(v) /\ Len(v.s.buffer) = 0
  BY <1>7 DEF Sits, Drained
<1>9. Content(v) = v.file /\ W!Tell(v.s) = v.s.pos /\ v.s.pos \in Nat
  BY <1>8, DrainedContent
<1>10. ~v.s.error /\ ~strayed' => v.file = meant'
  <2> SUFFICES ASSUME ~v.s.error, ~strayed' PROVE v.file = meant'
    OBVIOUS
  <2>1. W!Tell(u.s) = W!Tell(out) /\ ~strayed
    BY <1>1, <1>5
  <2>2. ~out.error /\ u.file = Content(W!Now)
    BY <1>5, <1>7
  <2>3. v.file = Whole
    BY <1>6, <1>7, <2>1, <2>2 DEF Whole, d
  <2> QED BY <1>3, <2>1, <2>2, <2>3, WriteParts DEF MeantInv, W!Sound
<1>11. place' = W!Tell(v.s)
  <2>1. CASE sink.seek = "works"
    <3>1. place' = place /\ W!Tell(out) + writing.size = place
      BY <1>3, <2>1, WriteParts DEF W!Learns, PlaceInv
    <3> QED BY <1>5, <1>6, <1>7, <1>9, <2>1, <3>1
  <2>2. CASE sink.seek # "works"
    BY <1>2, <1>3, <2>2 DEF W!Learns, W!Becomes
  <2> QED BY <2>1, <2>2
<1>12. /\ writing' \in [op : {"idle", "write", "direct"}, size : Nat, mark : Data]
       /\ writing'.op = "idle" /\ writing'.size = 0
  BY <1>3 DEF W!Idle, Data
<1>13. Run(0, writing'.mark) = <<>>
  BY DEF Run
<1>14. v.file \in Files
  BY <1>7
<1>15. ~v.s.error /\ ~strayed' =>
         W!Over(Content(v), W!Tell(v.s), Run(writing'.size, writing'.mark)) = meant'
  <2>1. W!Over(v.file, v.s.pos, <<>>) = v.file
    BY <1>9, <1>14, OverNothing
  <2> QED BY <1>9, <1>10, <1>12, <1>13, <2>1
<1>16. Len(v.s.buffer) < v.s.buffer_size
  BY <1>5, <1>7, <1>8, WriteParts DEF Fits
<1>17. W!Tell(v.s) + writing'.size = place' /\ place' \in Nat
  BY <1>9, <1>11, <1>12
<1>18. strayed' \in BOOLEAN
  BY <1>1
<1> QED BY <1>2, <1>3, <1>7, <1>8, <1>12, <1>15, <1>16, <1>17, <1>18, WriteParts, Becoming

-----------------------------------------------------------------------------
(* A context that is written to, and what is promised of it.               *)
WriteVars == <<sink, out, file, writing, meant, place, strayed, open>>

LEMMA WriteStutters ==
  ASSUME WriteInv, UNCHANGED WriteVars
  PROVE  WriteInv'
BY DEF WriteVars, WriteInv, WriteTypeOK, Fits, W!FailuresKept, PlaceInv, MeantInv, ClosedInv,
       W!Sound, Whole, Content, W!Now, W!Tell, W!Over

LEMMA WriteBegins ==
  ASSUME W!Init
  PROVE  WriteInv
<1>1. <<>> \in Seq(Data) /\ Len(<<>>) = 0
  OBVIOUS
<1>2. PICK n \in BufferSizes :
        out = [buffer |-> <<>>, buf_ptr |-> 0, buffer_size |-> n, pos |-> 0,
               error |-> FALSE, at |-> 0]
  BY DEF W!Init
<1>3. n \in Nat /\ n > 0
  BY Sizes
<1>4. /\ out \in Writers /\ out.buffer = <<>> /\ out.buf_ptr = 0 /\ out.pos = 0 /\ out.at = 0
      /\ out.buffer_size = n
  BY <1>1, <1>2, <1>3 DEF Writers
<1>5. file \in Files /\ meant = file
  BY DEF W!Init, W!Nothing, Files, Data
<1>6. /\ writing \in [op : {"idle", "write", "direct"}, size : Nat, mark : Data]
      /\ writing.op = "idle" /\ writing.size = 0
      /\ sink \in W!Sink /\ place = 0 /\ strayed \in BOOLEAN /\ open = TRUE
  BY Sizes DEF W!Init, W!Idle, Data
<1>7. Whole = file
  <2>1. Run(0, writing.mark) = <<>>
    BY DEF Run
  <2>2. W!Over(file, 0, <<>>) = file
    BY <1>5, OverNothing
  <2>3. Content(W!Now) = file /\ W!Tell(out) = 0
    BY <1>4, <2>2 DEF Content, W!Now, W!Tell
  <2> QED BY <1>6, <2>1, <2>2, <2>3 DEF Whole
<1>8. Fits /\ W!FailuresKept
  BY <1>1, <1>3, <1>4 DEF Fits, W!FailuresKept
<1>9. PlaceInv /\ MeantInv /\ ClosedInv
  BY <1>4, <1>5, <1>6, <1>7 DEF PlaceInv, MeantInv, ClosedInv, W!Tell
<1> QED BY <1>4, <1>5, <1>6, <1>8, <1>9 DEF WriteInv, WriteTypeOK

LEMMA WriteNext ==
  ASSUME WriteInv, W!Next
  PROVE  WriteInv'
<1>1. ASSUME NEW size \in 1 .. MaxWrite, NEW mark \in Marks,
             W!Write(size, mark, IF sink.direct THEN "direct" ELSE "write")
      PROVE  WriteInv'
  <2>1. size \in Nat /\ (IF sink.direct THEN "direct" ELSE "write") \in {"write", "direct"}
    BY Sizes
  <2> QED BY <1>1, <2>1, WriteStarts
<1>2. ASSUME NEW mark \in Marks, W!Write(1, mark, "write") PROVE WriteInv'
  <2>1. 1 \in Nat /\ "write" \in {"write", "direct"}
    OBVIOUS
  <2> QED BY <1>2, <2>1, WriteStarts
<1>3. ASSUME NEW offset \in 0 .. MaxFile, W!Seek(offset) PROVE WriteInv'
  <2>1. offset \in Nat
    BY Sizes
  <2> QED BY <1>3, <2>1, WriteSeeks
<1>4. CASE W!Closed
  BY <1>4, WriteStutters DEF W!Closed, W!vars, WriteVars
<1> QED BY <1>1, <1>2, <1>3, <1>4, Flush, Close, WriteTurns, WriteDirect DEF W!Next, W!Continue

LEMMA WriteCorrect ==
  ASSUME WriteInv
  PROVE  W!NothingMisplaced /\ W!ClosedComplete /\ W!FailuresKept /\ W!PlaceKept
<1>1. W!FailuresKept /\ W!PlaceKept
  BY NothingLeft DEF WriteInv, W!PlaceKept
<1>2. W!NothingMisplaced
  BY NothingLeft, WriteParts DEF W!NothingMisplaced, MeantInv, Content
<1>3. W!ClosedComplete
  <2> SUFFICES ASSUME W!Sound, ~open PROVE file = meant
    BY DEF W!ClosedComplete
  <2>1. writing.op = "idle" /\ out.buffer = <<>>
    BY WriteParts DEF ClosedInv
  <2>2. Content(W!Now) = meant
    BY <2>1, NothingLeft, WriteParts DEF MeantInv
  <2>3. Content(W!Now) = file
    BY <2>1, WriteParts, OverNothing DEF Content
  <2> QED BY <2>2, <2>3
<1> QED BY <1>1, <1>2, <1>3

-----------------------------------------------------------------------------
(* What the cache answers. *)
LEMMA FaithfulParts ==
  ASSUME NEW x, Faithful(x)
  PROVE  /\ x \in Caching /\ x.root \in SUBSET Entries /\ x.logical_pos \in Nat
         /\ x.cache_pos \in Nat /\ x.inner_pos \in Int /\ x.end \in Nat
         /\ x.is_true_eof \in BOOLEAN /\ x.file \in Seq(Int) /\ x.offset \in Nat
         /\ x.inner \in Nat /\ x.cache_pos = x.offset /\ x.logical_pos <= x.end
BY DEF Faithful, Caching

(* Nothing but the positions in the file and in the resource changes.      *)
LEMMA StaysFaithful ==
  ASSUME NEW x, Faithful(x), NEW y \in Caching, y.root = x.root, y.file = x.file,
         y.end >= x.end, y.cache_pos = y.offset, y.logical_pos <= y.end
  PROVE  Faithful(y)
<1>1. ASSUME NEW e \in y.root PROVE Held(y, e) /\ C!EndOf(e) <= y.end
  <2>1. Held(x, e) /\ C!EndOf(e) <= x.end /\ e \in Entries
    BY <1>1, FaithfulParts DEF Faithful
  <2>2. C!EndOf(e) \in Nat /\ x.end \in Nat /\ y.end \in Nat
    <3>1. e.logical_pos \in Nat /\ e.size \in Nat
      BY <2>1 DEF Entries
    <3>2. C!EndOf(e) \in Nat
      BY <3>1 DEF C!EndOf
    <3>3. y.end \in Nat
      BY DEF Caching
    <3> QED BY <3>2, <3>3, FaithfulParts
  <2> QED BY <2>1, <2>2 DEF Held
<1> QED BY <1>1 DEF Faithful

(* The file is moved to where an entry has the byte at the position.       *)
LEMMA EntryFound ==
  ASSUME NEW x, Faithful(x), NEW e \in C!Cached(x)
  PROVE  /\ e \in Entries /\ Held(x, e) /\ C!EndOf(e) <= x.end
         /\ e.logical_pos <= x.logical_pos /\ x.logical_pos < C!EndOf(e)
         /\ Faithful(C!AtEntry(x, e))
         /\ C!AtEntry(x, e).root = x.root /\ C!AtEntry(x, e).file = x.file
         /\ C!AtEntry(x, e).end = x.end /\ C!AtEntry(x, e).logical_pos = x.logical_pos
         /\ C!AtEntry(x, e).offset = e.physical_pos + x.logical_pos - e.logical_pos
<1>1. e \in x.root /\ e.logical_pos <= x.logical_pos /\ x.logical_pos < C!EndOf(e)
  BY DEF C!Cached, C!Found
<1>2. e \in Entries /\ Held(x, e) /\ C!EndOf(e) <= x.end
  BY <1>1, FaithfulParts DEF Faithful
<1>3. e.physical_pos \in Nat /\ e.logical_pos \in Nat /\ x.logical_pos \in Nat
  BY <1>2, FaithfulParts DEF Entries
<1> DEFINE at == e.physical_pos + x.logical_pos - e.logical_pos
           y == C!AtEntry(x, e)
<1>4. at \in Nat
  BY <1>1, <1>3
<1>5. y = [x EXCEPT !.cache_pos = at, !.offset = at]
  <2>1. x.cache_pos = at => x.offset = at
    BY FaithfulParts
  <2>2. y = [x EXCEPT !.cache_pos = at, !.offset = IF x.cache_pos = at THEN @ ELSE at]
    BY DEF C!AtEntry, C!Positioned
  <2> HIDE DEF at, y
  <2> QED BY <2>1, <2>2, FaithfulParts DEF Caching
<1> HIDE DEF at, y
<1>6. /\ y \in Caching /\ y.root = x.root /\ y.file = x.file /\ y.end = x.end
      /\ y.logical_pos = x.logical_pos /\ y.cache_pos = at /\ y.offset = at
  BY <1>4, <1>5, FaithfulParts DEF Caching
<1>7. Faithful(y)
  BY <1>6, FaithfulParts, StaysFaithful
<1> QED BY <1>1, <1>2, <1>6, <1>7 DEF at, y

LEMMA PartOf ==
  ASSUME NEW q \in Seq(Int), NEW i \in Nat, NEW n \in Nat, i + n <= Len(q)
  PROVE  /\ SubSeq(q, i + 1, i + n) \in Seq(Int) /\ Len(SubSeq(q, i + 1, i + n)) = n
         /\ \A k \in 1 .. n : SubSeq(q, i + 1, i + n)[k] = q[i + k]
<1>1. Len(q) \in Nat /\ \A k \in 1 .. Len(q) : q[k] \in Int
  OBVIOUS
<1>2. i + 1 \in Int /\ i + n \in Int
  OBVIOUS
<1>3. \A k \in i + 1 .. i + n : q[k] \in Int
  <2>1. ASSUME NEW k \in i + 1 .. i + n PROVE k \in 1 .. Len(q)
    BY <1>1
  <2> QED BY <1>1, <2>1
<1>4. /\ SubSeq(q, i + 1, i + n) \in Seq(Int)
      /\ Len(SubSeq(q, i + 1, i + n)) = IF i + 1 <= i + n THEN i + n - (i + 1) + 1 ELSE 0
      /\ \A k \in 1 .. i + n - (i + 1) + 1 : SubSeq(q, i + 1, i + n)[k] = q[i + 1 + k - 1]
  BY <1>2, <1>3, SubSeqProperties
<1>5. i + n - (i + 1) + 1 = n
  OBVIOUS
<1>6. (IF i + 1 <= i + n THEN n ELSE 0) = n
  OBVIOUS
<1>7. ASSUME NEW k \in 1 .. n PROVE i + 1 + k - 1 = i + k
  OBVIOUS
<1> QED BY <1>4, <1>5, <1>6, <1>7

LEMMA Hits ==
  ASSUME NEW x, Faithful(x), NEW most \in Int, NEW a \in C!Hits(x, most)
  PROVE  Faithful(a.c) /\ a.bytes = Bytes(x.logical_pos, Len(a.bytes))
<1>0. PICK e \in C!Cached(x) :
        \E n \in 1 .. C!Smaller(most, C!EndOf(e) - x.logical_pos) :
          a = C!Answer(C!Advanced(C!AtEntry(x, e), n), "data",
                       SubSeq(C!AtEntry(x, e).file, C!AtEntry(x, e).offset + 1,
                              C!AtEntry(x, e).offset + n))
  BY DEF C!Hits
<1>1. PICK f : f = C!AtEntry(x, e)
  OBVIOUS
<1>2. /\ e \in Entries /\ Held(x, e) /\ C!EndOf(e) <= x.end
      /\ e.logical_pos <= x.logical_pos /\ x.logical_pos < C!EndOf(e)
      /\ Faithful(f) /\ f.root = x.root /\ f.file = x.file /\ f.end = x.end
      /\ f.logical_pos = x.logical_pos
      /\ f.offset = e.physical_pos + x.logical_pos - e.logical_pos
  BY <1>0, <1>1, EntryFound
<1>3. PICK n \in Nat :
        /\ n <= C!EndOf(e) - x.logical_pos
        /\ a = C!Answer(C!Advanced(f, n), "data", SubSeq(f.file, f.offset + 1, f.offset + n))
  <2>1. PICK n \in 1 .. C!Smaller(most, C!EndOf(e) - x.logical_pos) :
          a = C!Answer(C!Advanced(f, n), "data", SubSeq(f.file, f.offset + 1, f.offset + n))
    BY <1>0, <1>1
  <2>2. x.logical_pos \in Nat /\ C!EndOf(e) \in Nat
    BY <1>2, FaithfulParts DEF Entries, C!EndOf
  <2>3. n \in Nat /\ n <= C!EndOf(e) - x.logical_pos
    BY <2>2 DEF C!Smaller
  <2> QED BY <2>1, <2>3
<1>4. a.c = C!Advanced(f, n) /\ a.bytes = SubSeq(f.file, f.offset + 1, f.offset + n)
  BY <1>3 DEF C!Answer
<1>5. /\ e.physical_pos \in Nat /\ e.logical_pos \in Nat /\ e.size \in Nat
      /\ x.logical_pos \in Nat /\ x.end \in Nat /\ f.file \in Seq(Int) /\ f.offset \in Nat
      /\ f.cache_pos = f.offset /\ f \in Caching
      /\ C!EndOf(e) = e.logical_pos + e.size
  BY <1>2, FaithfulParts DEF Entries, C!EndOf
<1>6. n \in Nat /\ n <= C!EndOf(e) - x.logical_pos
  BY <1>3
<1> DEFINE z == x.logical_pos - e.logical_pos
<1>7. /\ z \in Nat /\ z + n <= e.size /\ f.offset = e.physical_pos + z
      /\ x.logical_pos = e.logical_pos + z
  <2>1. e.logical_pos <= x.logical_pos /\ x.logical_pos < C!EndOf(e)
    BY <1>2
  <2>2. z \in Nat /\ x.logical_pos = e.logical_pos + z
    BY <2>1, <1>5
  <2>3. f.offset = e.physical_pos + z
    BY <1>2, <1>5
  <2>4. z + n <= e.size
    BY <1>5, <1>6
  <2> QED BY <2>2, <2>3, <2>4
<1> HIDE DEF z
<1>8. Faithful(a.c)
  <2>1. f.offset + n \in Nat /\ x.logical_pos + n \in Nat
    <3>1. f.offset \in Nat /\ x.logical_pos \in Nat /\ n \in Nat
      BY <1>5
    <3> QED BY <3>1
  <2>2. x.logical_pos + n <= f.end
    <3>1. x.logical_pos + n <= C!EndOf(e)
      BY <1>5, <1>6, <1>7
    <3>2. C!EndOf(e) \in Nat /\ C!EndOf(e) <= f.end /\ f.end \in Nat
      BY <1>2, <1>5
    <3> QED BY <2>1, <3>1, <3>2
  <2>3. /\ a.c \in Caching /\ a.c.root = f.root /\ a.c.file = f.file /\ a.c.end = f.end
        /\ a.c.cache_pos = f.offset + n /\ a.c.offset = f.offset + n
        /\ a.c.logical_pos = x.logical_pos + n
    <3>1. f \in Caching /\ f.cache_pos = f.offset /\ f.logical_pos = x.logical_pos
      BY <1>2, <1>5
    <3>2. a.c = [f EXCEPT !.cache_pos = f.offset + n, !.offset = f.offset + n,
                           !.logical_pos = x.logical_pos + n]
      BY <1>4, <3>1 DEF C!Advanced
    <3> QED BY <2>1, <3>1, <3>2 DEF Caching
  <2>4. a.c.end >= f.end
    BY <1>2, <1>5, <2>3
  <2> QED BY <1>2, <2>2, <2>3, <2>4, StaysFaithful
<1>9. /\ a.bytes \in Seq(Int) /\ Len(a.bytes) = n
      /\ \A k \in 1 .. n : a.bytes[k] = f.file[f.offset + k]
  <2>1. e.physical_pos + e.size <= Len(f.file)
    BY <1>2 DEF Held
  <2>2. f.file \in Seq(Int) /\ f.offset \in Nat /\ Len(f.file) \in Nat
    BY <1>5
  <2>3. f.offset + n <= e.physical_pos + e.size
    <3>1. f.offset = e.physical_pos + z /\ z + n <= e.size
      BY <1>7
    <3>2. e.physical_pos \in Nat /\ e.size \in Nat /\ z \in Nat /\ n \in Nat
      BY <1>5, <1>7
    <3> QED BY <3>1, <3>2
  <2>4. f.offset + n <= Len(f.file)
    BY <2>1, <2>2, <2>3, <1>5, <1>6
  <2>5. PICK q : q = SubSeq(f.file, f.offset + 1, f.offset + n)
    OBVIOUS
  <2>6. q \in Seq(Int) /\ Len(q) = n /\ \A k \in 1 .. n : q[k] = f.file[f.offset + k]
    BY <2>2, <2>4, <2>5, <1>6, PartOf
  <2>7. a.bytes = q
    BY <2>5, <1>4
  <2> QED BY <2>6, <2>7
<1>10. ASSUME NEW k \in 1 .. n PROVE a.bytes[k] = x.logical_pos + k - 1
  <2>1. z + k \in 1 .. e.size /\ f.offset + k = e.physical_pos + (z + k)
    <3>1. z \in Nat /\ z + n <= e.size /\ e.size \in Nat
      BY <1>5, <1>7
    <3>2. k \in Nat /\ 1 <= k /\ k <= n
      OBVIOUS
    <3>3. z + k \in 1 .. e.size
      BY <3>1, <3>2
    <3>4. f.offset = e.physical_pos + z /\ e.physical_pos \in Nat
      BY <1>5, <1>7
    <3> QED BY <3>1, <3>2, <3>3, <3>4
  <2>2. f.file[e.physical_pos + (z + k)] = e.logical_pos + (z + k) - 1
    BY <1>2, <2>1 DEF Held
  <2>3. e.logical_pos + (z + k) - 1 = x.logical_pos + k - 1
    BY <1>5, <1>7
  <2> QED BY <1>9, <2>1, <2>2, <2>3
<1>11. a.bytes = Bytes(x.logical_pos, n)
  <2>1. x.logical_pos \in Int
    BY <1>5
  <2> QED BY <1>9, <1>10, <2>1, SameBytes
<1> QED BY <1>8, <1>9, <1>11

(* Bytes that have been put at the end of the file lengthen an entry, or   *)
(* are one.                                                                *)
LEMMA Entered ==
  ASSUME NEW x \in Caching, NEW i \in Nat, NEW n \in Nat, Len(x.file) = i + n,
         \A k \in 1 .. n : x.file[i + k] = x.logical_pos + k - 1,
         \A e \in x.root : Held(x, e) /\ C!EndOf(e) <= x.end,
         NEW z \in C!Entered(x, i, n)
  PROVE  /\ z \in Caching /\ z.file = x.file /\ z.end = x.end /\ z.logical_pos = x.logical_pos
         /\ z.cache_pos = x.cache_pos /\ z.offset = x.offset
         /\ \A e \in z.root :
              Held(z, e) /\ (C!EndOf(e) <= x.end \/ C!EndOf(e) = x.logical_pos + n)
<1> DEFINE last == {f \in C!Found(x) : C!Continues(x, f, i)}
           own == [logical_pos |-> x.logical_pos, physical_pos |-> i, size |-> n]
           longer(f) == [f EXCEPT !.size = @ + n]
<1>1. x.root \in SUBSET Entries /\ x.logical_pos \in Nat
  BY DEF Caching
<1>2. /\ own \in Entries /\ own.logical_pos = x.logical_pos /\ own.physical_pos = i
      /\ own.size = n
  BY <1>1 DEF Entries
<1>3. Held(x, own) /\ C!EndOf(own) = x.logical_pos + n
  BY <1>2 DEF Held, C!EndOf
<1>4. ASSUME NEW f \in last
      PROVE  /\ f \in Entries /\ longer(f) \in Entries /\ Held(x, longer(f))
             /\ C!EndOf(longer(f)) = x.logical_pos + n
  <2>1. f \in x.root /\ C!Continues(x, f, i)
    BY DEF C!Found
  <2>2. f \in Entries /\ Held(x, f)
    BY <1>1, <2>1
  <2>3. f.logical_pos + f.size = x.logical_pos /\ f.physical_pos + f.size = i
    BY <2>1 DEF C!Continues, C!EndOf
  <2>4. f.logical_pos \in Nat /\ f.physical_pos \in Nat /\ f.size \in Nat /\ f.size + n \in Nat
    BY <2>2 DEF Entries
  <2> DEFINE g == longer(f)
  <2>5. /\ g \in Entries /\ g.logical_pos = f.logical_pos /\ g.physical_pos = f.physical_pos
        /\ g.size = f.size + n
    BY <2>2, <2>4 DEF Entries
  <2> HIDE DEF g
  <2>6. C!EndOf(g) = x.logical_pos + n
    BY <1>1, <2>3, <2>4, <2>5 DEF C!EndOf
  <2>7. g.physical_pos + g.size <= Len(x.file)
    BY <2>3, <2>4, <2>5
  <2>8. ASSUME NEW k \in 1 .. g.size
        PROVE  x.file[g.physical_pos + k] = g.logical_pos + k - 1
    <3>1. CASE k <= f.size
      <4>1. k \in 1 .. f.size
        BY <3>1, <2>4, <2>5
      <4> QED BY <4>1, <2>2, <2>5 DEF Held
    <3>2. CASE k > f.size
      <4>1. k \in Int /\ k <= f.size + n
        BY <2>4, <2>5
      <4>2. k - f.size \in 1 .. n
        BY <3>2, <4>1, <2>4
      <4>3. i + (k - f.size) = g.physical_pos + k
        BY <4>1, <2>3, <2>4, <2>5
      <4>4. x.file[i + (k - f.size)] = x.logical_pos + (k - f.size) - 1
        BY <4>2
      <4>5. x.logical_pos + (k - f.size) - 1 = g.logical_pos + k - 1
        BY <1>1, <2>3, <2>4, <2>5
      <4> QED BY <4>3, <4>4, <4>5
    <3> QED BY <2>4, <2>5, <3>1, <3>2
  <2>9. Held(x, g)
    BY <2>7, <2>8 DEF Held
  <2> QED BY <2>2, <2>5, <2>6, <2>9 DEF g
<1> HIDE DEF last, own, longer
<1>5. PICK r \in SUBSET Entries :
        /\ z = [x EXCEPT !.root = r]
        /\ \A e \in r : e \in x.root \/ (Held(x, e) /\ C!EndOf(e) = x.logical_pos + n)
  <2>1. CASE last # {}
    <3> DEFINE r == (x.root \ last) \cup {longer(f) : f \in last}
    <3>1. z = [x EXCEPT !.root = r]
      BY <2>1 DEF C!Entered, last, longer
    <3>2. r \in SUBSET Entries
      BY <1>1, <1>4
    <3>3. \A e \in r : e \in x.root \/ (Held(x, e) /\ C!EndOf(e) = x.logical_pos + n)
      BY <1>4
    <3> QED BY <3>1, <3>2, <3>3
  <2>2. CASE last = {}
    <3>1. z = x \/ z = [x EXCEPT !.root = x.root \cup {own}]
      BY <2>2 DEF C!Entered, last, own
    <3>2. CASE z = x
      <4>1. x = [x EXCEPT !.root = x.root]
        BY DEF Caching
      <4> QED BY <1>1, <3>2, <4>1
    <3>3. CASE z = [x EXCEPT !.root = x.root \cup {own}]
      <4>1. x.root \cup {own} \in SUBSET Entries
        BY <1>1, <1>2
      <4>2. \A e \in x.root \cup {own} :
              e \in x.root \/ (Held(x, e) /\ C!EndOf(e) = x.logical_pos + n)
        BY <1>3
      <4> QED BY <3>3, <4>1, <4>2
    <3> QED BY <3>1, <3>2, <3>3
  <2> QED BY <2>1, <2>2
<1>6. /\ z \in Caching /\ z.file = x.file /\ z.end = x.end /\ z.logical_pos = x.logical_pos
      /\ z.cache_pos = x.cache_pos /\ z.offset = x.offset /\ z.root = r
  BY <1>5 DEF Caching
<1>7. ASSUME NEW e \in z.root
      PROVE  Held(z, e) /\ (C!EndOf(e) <= x.end \/ C!EndOf(e) = x.logical_pos + n)
  <2>1. Held(x, e) /\ (C!EndOf(e) <= x.end \/ C!EndOf(e) = x.logical_pos + n)
    BY <1>5, <1>6, <1>7
  <2> QED BY <1>6, <2>1 DEF Held
<1> QED BY <1>6, <1>7

LEMMA EntryAdded ==
  ASSUME NEW x, Faithful(x), NEW n \in Nat, NEW z \in C!AddEntry(x, Bytes(x.logical_pos, n))
  PROVE  /\ z \in Caching /\ z.end = x.end /\ z.logical_pos = x.logical_pos
         /\ z.cache_pos = z.offset
         /\ \A e \in z.root :
              Held(z, e) /\ (C!EndOf(e) <= x.end \/ C!EndOf(e) <= x.logical_pos + n)
<1> DEFINE b == Bytes(x.logical_pos, n)
           i == Len(x.file)
           grown(k) == [x EXCEPT !.file = @ \o SubSeq(b, 1, k),
                                 !.cache_pos = i + k, !.offset = i + k]
<1>1. /\ x \in Caching /\ x.file \in Seq(Int) /\ x.logical_pos \in Nat /\ x.end \in Nat
      /\ i \in Nat /\ x.logical_pos \in Int
  BY FaithfulParts
<1>2. b \in Seq(Int) /\ Len(b) = n /\ \A k \in 1 .. n : b[k] = x.logical_pos + k - 1
  BY <1>1, BytesAre
<1>3. \A e \in x.root : Held(x, e) /\ C!EndOf(e) <= x.end /\ e \in Entries
  BY FaithfulParts DEF Faithful
<1> HIDE DEF b, i
<1>4. CASE z = x
  BY <1>1, <1>3, <1>4, FaithfulParts
<1>5. CASE z = [x EXCEPT !.cache_pos = i, !.offset = i]
  <2>1. /\ z \in Caching /\ z.end = x.end /\ z.logical_pos = x.logical_pos /\ z.file = x.file
        /\ z.cache_pos = i /\ z.offset = i /\ z.root = x.root
    BY <1>1, <1>5 DEF Caching
  <2> QED BY <1>3, <2>1 DEF Held
<1>6. ASSUME NEW k \in Nat, k <= n, z \in C!Entered(grown(k), i, k)
      PROVE  /\ z \in Caching /\ z.end = x.end /\ z.logical_pos = x.logical_pos
             /\ z.cache_pos = z.offset
             /\ \A e \in z.root :
                  Held(z, e) /\ (C!EndOf(e) <= x.end \/ C!EndOf(e) <= x.logical_pos + n)
  <2> DEFINE p == SubSeq(b, 1, k)
             w == x.file \o p
             g == grown(k)
  <2>1. p \in Seq(Int) /\ Len(p) = k /\ \A j \in 1 .. k : p[j] = x.logical_pos + j - 1
    BY <1>2, <1>6
  <2> HIDE DEF p
  <2>2. /\ w \in Seq(Int) /\ Len(w) = i + k
        /\ \A j \in 1 .. i : w[j] = x.file[j]
    <3>1. i = Len(x.file) /\ Len(p) = k /\ p \in Seq(Int) /\ x.file \in Seq(Int)
      BY <1>1, <2>1 DEF i
    <3>2. w \in Seq(Int) /\ Len(w) = i + k
      BY <3>1, <1>1, <1>6, ConcatProperties
    <3>3. ASSUME NEW j \in 1 .. i PROVE w[j] = x.file[j]
      <4>1. j \in 1 .. i + k
        BY <1>1, <1>6
      <4>2. j <= i
        BY <1>1
      <4> QED BY <3>1, <4>1, <4>2, ConcatProperties
    <3> QED BY <3>2, <3>3
  <2>3. ASSUME NEW j \in 1 .. k PROVE w[i + j] = x.logical_pos + j - 1
    <3>1. w[i + j] = p[j]
      <4>1. i + j \in i + 1 .. i + k /\ i + j - i = j
        BY <1>1
      <4>2. i = Len(x.file) /\ Len(p) = k /\ p \in Seq(Int) /\ x.file \in Seq(Int)
        BY <1>1, <2>1 DEF i
      <4> QED BY <4>1, <4>2, ConcatProperties
    <3> QED BY <2>1, <3>1
  <2> HIDE DEF w
  <2>4. i + k \in Nat
    BY <1>1
  <2>5. g = [x EXCEPT !.file = w, !.cache_pos = i + k, !.offset = i + k]
    BY <1>1 DEF Caching, w, p
  <2> HIDE DEF grown, g
  <2>6. /\ g \in Caching /\ g.root = x.root /\ g.file = w /\ g.logical_pos = x.logical_pos
        /\ g.end = x.end /\ g.cache_pos = i + k /\ g.offset = i + k
    BY <1>1, <2>2, <2>4, <2>5 DEF Caching
  <2>7. ASSUME NEW e \in g.root PROVE Held(g, e) /\ C!EndOf(e) <= g.end
    <3>1. Held(x, e) /\ C!EndOf(e) <= x.end /\ e \in Entries
      BY <1>3, <2>6
    <3>2. e.physical_pos \in Nat /\ e.size \in Nat /\ e.physical_pos + e.size <= i
      BY <3>1 DEF Held, Entries, i
    <3>3. e.physical_pos + e.size <= Len(w)
      BY <1>1, <1>6, <2>2, <3>2
    <3>4. ASSUME NEW j \in 1 .. e.size
          PROVE  w[e.physical_pos + j] = e.logical_pos + j - 1
      <4>1. e.physical_pos + j \in 1 .. i
        BY <1>1, <3>2
      <4> QED BY <2>2, <3>1, <4>1 DEF Held
    <3> QED BY <2>6, <3>1, <3>3, <3>4 DEF Held
  <2>8. z \in C!Entered(g, i, k)
    BY <1>6 DEF g
  <2>9. Len(g.file) = i + k /\ \A j \in 1 .. k : g.file[i + j] = g.logical_pos + j - 1
    BY <2>2, <2>3, <2>6
  <2>10. /\ z \in Caching /\ z.file = g.file /\ z.end = g.end /\ z.logical_pos = g.logical_pos
         /\ z.cache_pos = g.cache_pos /\ z.offset = g.offset
         /\ \A e \in z.root :
              Held(z, e) /\ (C!EndOf(e) <= g.end \/ C!EndOf(e) = g.logical_pos + k)
    <3>1. g \in Caching /\ i \in Nat /\ k \in Nat
      BY <1>1, <1>6, <2>6
    <3> QED BY <3>1, <2>7, <2>8, <2>9, Entered
  <2>11. x.logical_pos + k <= x.logical_pos + n
    BY <1>1, <1>6
  <2> QED BY <2>6, <2>10, <2>11
<1>7. z = x \/ z = [x EXCEPT !.cache_pos = i, !.offset = i]
      \/ \E k \in 1 .. C!Smaller(Len(b), Disk - i) : z \in C!Entered(grown(k), i, k)
  BY DEF C!AddEntry, b, i
<1>8. \A k \in 1 .. C!Smaller(Len(b), Disk - i) : k \in Nat /\ k <= n
  BY <1>1, <1>2, Sizes DEF C!Smaller
<1> HIDE DEF grown
<1> QED BY <1>4, <1>5, <1>6, <1>7, <1>8

(* What comes from the inner protocol, if it is where the cache is.        *)
Rightly(x, a) == Faithful(a.c) /\ a.bytes = Bytes(x.logical_pos, Len(a.bytes))

LEMMA NoneIsRight ==
  ASSUME NEW x, Faithful(x), NEW y, Faithful(y), NEW word
  PROVE  Rightly(x, C!Answer(y, word, <<>>))
<1>1. x.logical_pos \in Int
  BY FaithfulParts
<1>2. Len(<<>>) = 0 /\ Bytes(x.logical_pos, 0) = <<>>
  BY <1>1, NoBytes
<1> QED BY <1>2 DEF Rightly, C!Answer

LEMMA FromInner ==
  ASSUME NEW x, Faithful(x), NEW n \in Nat, NEW a \in C!FromInner(x, n), ~a.strayed
  PROVE  Rightly(x, a)
<1> DEFINE b == [k \in 1 .. n |-> x.inner + k - 1]
           read == [x EXCEPT !.inner = @ + n, !.inner_pos = @ + n]
           final(z) == [z EXCEPT !.logical_pos = @ + n,
                                 !.end = C!Larger(@, z.logical_pos + n)]
<1>1. PICK z \in C!AddEntry(read, b) :
        a = [C!Answer(final(z), "data", b) EXCEPT !.strayed = x.inner # x.logical_pos]
  BY DEF C!FromInner
<1>2. a.c = final(z) /\ a.bytes = b /\ x.inner = x.logical_pos
  BY <1>1 DEF C!Answer
<1>3. b = Bytes(x.logical_pos, n)
  BY <1>2 DEF Bytes
<1> HIDE DEF b
<1>4. /\ x \in Caching /\ x.logical_pos \in Nat /\ x.inner + n \in Nat /\ x.inner_pos + n \in Int
      /\ x.end \in Nat
  BY FaithfulParts
<1>5. /\ read \in Caching /\ read.root = x.root /\ read.file = x.file /\ read.end = x.end
      /\ read.cache_pos = x.cache_pos /\ read.offset = x.offset
      /\ read.logical_pos = x.logical_pos
  BY <1>4 DEF Caching
<1> HIDE DEF read
<1>6. Faithful(read)
  <2>1. read.end >= x.end
    BY <1>4, <1>5
  <2> QED BY <1>5, <2>1, FaithfulParts, StaysFaithful
<1>7. /\ z \in Caching /\ z.end = x.end /\ z.logical_pos = x.logical_pos
      /\ z.cache_pos = z.offset
      /\ \A e \in z.root :
           Held(z, e) /\ (C!EndOf(e) <= x.end \/ C!EndOf(e) <= x.logical_pos + n)
  <2>1. z \in C!AddEntry(read, Bytes(read.logical_pos, n))
    BY <1>1, <1>3, <1>5
  <2> QED BY <1>5, <1>6, <2>1, EntryAdded
<1>8. PICK l \in Nat : l = C!Larger(x.end, x.logical_pos + n) /\ x.end <= l
                       /\ x.logical_pos + n <= l
  BY <1>4 DEF C!Larger
<1> DEFINE y == final(z)
<1>9. /\ y \in Caching /\ y.root = z.root /\ y.file = z.file /\ y.end = l
      /\ y.logical_pos = x.logical_pos + n /\ y.cache_pos = y.offset
  <2>1. x.logical_pos + n \in Nat
    BY <1>4
  <2> QED BY <1>7, <1>8, <2>1 DEF Caching
<1>10. y = a.c
  BY <1>2
<1> HIDE DEF y, final
<1>11. ASSUME NEW e \in y.root PROVE Held(y, e) /\ C!EndOf(e) <= y.end
  <2>1. Held(z, e) /\ (C!EndOf(e) <= x.end \/ C!EndOf(e) <= x.logical_pos + n)
    BY <1>7, <1>9, <1>11
  <2>2. C!EndOf(e) \in Nat
    BY <1>9 DEF Caching, Entries, C!EndOf
  <2>3. C!EndOf(e) <= l
    BY <1>4, <1>8, <2>1, <2>2
  <2> QED BY <1>9, <2>1, <2>3 DEF Held
<1>12. Faithful(y)
  BY <1>8, <1>9, <1>11 DEF Faithful
<1>13. Len(b) = n
  <2>1. x.logical_pos \in Int
    BY <1>4
  <2> QED BY <1>3, <2>1, BytesAre
<1> QED BY <1>2, <1>3, <1>10, <1>12, <1>13 DEF Rightly

LEMMA InnerMoves ==
  ASSUME NEW x, Faithful(x), NEW p \in Int, NEW y \in C!InnerSeeks(x, p)
  PROVE  /\ p \in Nat /\ Faithful(y) /\ y.end = x.end /\ y.logical_pos = x.logical_pos
         /\ y.inner \in Nat /\ y.inner_pos = x.inner_pos
<1>1. p \in Nat /\ y = [x EXCEPT !.inner = p]
  BY DEF C!InnerSeeks
<1>2. x \in Caching /\ x.end \in Nat
  BY FaithfulParts
<1>3. /\ y \in Caching /\ y.root = x.root /\ y.file = x.file /\ y.end = x.end
      /\ y.cache_pos = x.cache_pos /\ y.offset = x.offset /\ y.logical_pos = x.logical_pos
      /\ y.inner = p /\ y.inner_pos = x.inner_pos
  BY <1>1, <1>2 DEF Caching
<1>4. y.end >= x.end
  BY <1>2, <1>3
<1> QED BY <1>1, <1>3, <1>4, FaithfulParts, StaysFaithful

LEMMA Positioned ==
  ASSUME NEW x, Faithful(x), NEW y \in C!InnerPositioned(x)
  PROVE  Faithful(y) /\ y.logical_pos = x.logical_pos
<1>1. CASE y = x
  BY <1>1
<1>2. CASE \E v \in C!InnerSeeks(x, x.logical_pos) : y = [v EXCEPT !.inner_pos = v.inner]
  <2>1. PICK v \in C!InnerSeeks(x, x.logical_pos) : y = [v EXCEPT !.inner_pos = v.inner]
    BY <1>2
  <2>2. x.logical_pos \in Int
    BY FaithfulParts
  <2>3. Faithful(v) /\ v.logical_pos = x.logical_pos /\ v.inner \in Nat
    BY <2>1, <2>2, InnerMoves
  <2>4. /\ y \in Caching /\ y.root = v.root /\ y.file = v.file /\ y.end = v.end
        /\ y.cache_pos = v.cache_pos /\ y.offset = v.offset /\ y.logical_pos = v.logical_pos
    <3>1. v \in Caching /\ v.inner \in Int
      BY <2>3, FaithfulParts
    <3> QED BY <2>1, <3>1 DEF Caching
  <2>5. y.end >= v.end /\ y.cache_pos = y.offset /\ y.logical_pos <= y.end
    BY <2>3, <2>4, FaithfulParts
  <2> QED BY <2>3, <2>4, <2>5, StaysFaithful
<1> QED BY <1>1, <1>2 DEF C!InnerPositioned

LEMMA Misses ==
  ASSUME NEW x, Faithful(x), NEW most \in Int, NEW a \in C!Misses(x, most), ~a.strayed
  PROVE  Rightly(x, a)
<1>1. CASE a = C!Answer(x, "error", <<>>)
  BY <1>1, NoneIsRight
<1>2. ASSUME NEW v \in C!InnerPositioned(x), a = C!Answer(v, "error", <<>>)
      PROVE  Rightly(x, a)
  BY <1>2, Positioned, NoneIsRight
<1>3. ASSUME NEW v \in C!InnerPositioned(x),
             a = C!Answer([v EXCEPT !.is_true_eof = TRUE], "EOF", <<>>)
      PROVE  Rightly(x, a)
  <2> DEFINE y == [v EXCEPT !.is_true_eof = TRUE]
  <2>1. Faithful(v)
    BY Positioned
  <2>2. /\ y \in Caching /\ y.root = v.root /\ y.file = v.file /\ y.end = v.end
        /\ y.cache_pos = v.cache_pos /\ y.offset = v.offset /\ y.logical_pos = v.logical_pos
    BY <2>1, FaithfulParts DEF Caching
  <2> HIDE DEF y
  <2>3. y.end >= v.end /\ y.cache_pos = y.offset /\ y.logical_pos <= y.end
    BY <2>1, <2>2, FaithfulParts
  <2>4. Faithful(y)
    BY <2>1, <2>2, <2>3, StaysFaithful
  <2> QED BY <1>3, <2>4, NoneIsRight DEF y
<1>4. ASSUME NEW v \in C!InnerPositioned(x), NEW n \in Nat, a \in C!FromInner(v, n)
      PROVE  Rightly(x, a)
  <2>1. Faithful(v) /\ v.logical_pos = x.logical_pos
    BY Positioned
  <2>2. Rightly(v, a)
    BY <1>4, <2>1, FromInner
  <2> QED BY <2>1, <2>2 DEF Rightly
<1>5. \/ a = C!Answer(x, "error", <<>>)
      \/ \E v \in C!InnerPositioned(x) :
           \/ a = C!Answer(v, "error", <<>>)
           \/ a = C!Answer([v EXCEPT !.is_true_eof = TRUE], "EOF", <<>>)
           \/ \E n \in Nat : a \in C!FromInner(v, n)
  <2>1. \A i \in Int : \A n \in 1 .. i : n \in Nat
    OBVIOUS
  <2>2. ASSUME NEW v \in C!InnerPositioned(x)
        PROVE  C!Smaller(most, CacheSize - v.inner) \in Int
    BY Positioned, FaithfulParts, Sizes DEF C!Smaller
  <2>3. ASSUME NEW v \in C!InnerPositioned(x),
               a \in {C!Answer(v, "error", <<>>)} \cup
                     (IF v.inner >= CacheSize
                      THEN {C!Answer([v EXCEPT !.is_true_eof = TRUE], "EOF", <<>>)}
                      ELSE UNION {C!FromInner(v, n) :
                                    n \in 1 .. C!Smaller(most, CacheSize - v.inner)})
        PROVE  \/ a = C!Answer(v, "error", <<>>)
               \/ a = C!Answer([v EXCEPT !.is_true_eof = TRUE], "EOF", <<>>)
               \/ \E n \in Nat : a \in C!FromInner(v, n)
    BY <2>1, <2>2, <2>3
  <2> QED BY <2>3 DEF C!Misses
<1> QED BY <1>1, <1>2, <1>3, <1>4, <1>5

LEMMA CacheReads ==
  ASSUME Faithful(c), NEW most \in Int, NEW a \in C!Followed(most)
  PROVE  Rightly(c, a)
<1>1. a \in C!CacheReads(most) /\ ~a.strayed
  BY DEF C!Followed
<1>2. CASE a \in C!Hits(c, most)
  BY <1>2, Hits DEF Rightly
<1>3. ASSUME NEW x \in C!Faults(c) \cup {c}, a \in C!Misses(x, most) PROVE Rightly(c, a)
  <2>1. Faithful(x) /\ x.logical_pos = c.logical_pos
    BY EntryFound DEF C!Faults
  <2>2. Rightly(x, a)
    BY <1>1, <1>3, <2>1, Misses
  <2> QED BY <2>1, <2>2 DEF Rightly
<1> QED BY <1>1, <1>2, <1>3 DEF C!CacheReads

-----------------------------------------------------------------------------
(* A call of the cache. *)
Seekings == [whence : {"none", "set", "end"}, pos : Int]

LEMMA CacheParts ==
  ASSUME CacheInv
  PROVE  /\ prot \in C!Prot /\ seeking \in Seekings /\ seeking.pos \in Int
         /\ seeking.whence \in {"none", "set", "end"} /\ Faithful(c)
BY DEF CacheInv, Seekings

LEMMA NoSeeking ==
  C!NoCall \in Seekings
BY DEF C!NoCall, Seekings

(* A seek goes no further than the end, which it may move.                 *)
LEMMA CacheMoves ==
  ASSUME CacheInv, NEW x, Faithful(x), NEW p \in Nat, p <= x.end, C!Moved(x, p), prot' = prot
  PROVE  CacheInv'
<1> DEFINE y == [x EXCEPT !.logical_pos = p]
<1>0. x \in Caching
  BY FaithfulParts
<1>1. c' = y /\ seeking' = C!NoCall
  BY DEF C!Moved, C!SeekEnds
<1>2. /\ y \in Caching /\ y.root = x.root /\ y.file = x.file /\ y.end = x.end
      /\ y.cache_pos = x.cache_pos /\ y.offset = x.offset /\ y.logical_pos = p
  BY <1>0 DEF Caching
<1> HIDE DEF y
<1>3. y.end >= x.end /\ y.cache_pos = y.offset /\ y.logical_pos <= y.end
  BY <1>2, FaithfulParts
<1>4. Faithful(y)
  BY <1>2, <1>3, StaysFaithful
<1> QED BY <1>1, <1>4, CacheParts, NoSeeking DEF CacheInv, Seekings

LEMMA CacheEnds ==
  ASSUME CacheInv, NEW x, Faithful(x), C!SeekEnds(x), prot' = prot
  PROVE  CacheInv'
BY CacheParts, NoSeeking DEF CacheInv, Seekings, C!SeekEnds

LEMMA EndMoves ==
  ASSUME NEW x, Faithful(x), NEW p \in Int,
         NEW y \in Caching, y.root = x.root, y.file = x.file, y.cache_pos = x.cache_pos,
         y.offset = x.offset, y.logical_pos = x.logical_pos, y.end = C!Larger(x.end, p)
  PROVE  Faithful(y) /\ p <= y.end
<1>1. x.end \in Nat /\ x.logical_pos \in Nat /\ x.logical_pos <= x.end
      /\ x.cache_pos = x.offset
  BY FaithfulParts
<1>2. y.end >= x.end /\ p <= y.end /\ y.end \in Nat
  BY <1>1 DEF C!Larger
<1>3. y.logical_pos <= y.end /\ y.cache_pos = y.offset
  BY <1>1, <1>2
<1> QED BY <1>2, <1>3, StaysFaithful

LEMMA SeekMisses ==
  ASSUME CacheInv, NEW x, Faithful(x), NEW whence \in {"set", "end"}, NEW p \in Int,
         C!SeekMiss(x, whence, p), prot' = prot
  PROVE  CacheInv'
<1> DEFINE target == IF whence = "end" THEN CacheSize + p ELSE p
<1>1. target \in Int
  BY Sizes
<1>2. \/ \E v \in C!InnerSeeks(x, target) :
           C!Moved([v EXCEPT !.end = C!Larger(@, target)], target)
      \/ c' = x /\ seeking' = [whence |-> whence, pos |-> p]
      \/ C!SeekEnds(x)
  BY DEF C!SeekMiss
<1> HIDE DEF target
<1>3. ASSUME NEW v \in C!InnerSeeks(x, target),
             C!Moved([v EXCEPT !.end = C!Larger(@, target)], target)
      PROVE  CacheInv'
  <2>1. target \in Nat /\ Faithful(v)
    BY <1>1, InnerMoves
  <2>2. v \in Caching /\ v.end \in Nat
    BY <2>1, FaithfulParts
  <2>3. C!Larger(v.end, target) \in Nat
    BY <2>1, <2>2 DEF C!Larger
  <2> DEFINE y == [v EXCEPT !.end = C!Larger(@, target)]
  <2>4. /\ y \in Caching /\ y.root = v.root /\ y.file = v.file /\ y.cache_pos = v.cache_pos
        /\ y.offset = v.offset /\ y.logical_pos = v.logical_pos
        /\ y.end = C!Larger(v.end, target)
    BY <2>2, <2>3 DEF Caching
  <2>5. C!Moved(y, target)
    BY <1>3
  <2> HIDE DEF y
  <2>6. Faithful(y) /\ target <= y.end
    BY <1>1, <2>1, <2>4, EndMoves
  <2> QED BY <2>1, <2>5, <2>6, CacheMoves
<1>4. CASE c' = x /\ seeking' = [whence |-> whence, pos |-> p]
  BY <1>4, CacheParts DEF CacheInv
<1> QED BY <1>2, <1>3, <1>4, CacheEnds

LEMMA SeekSets ==
  ASSUME CacheInv, NEW x, Faithful(x), NEW p \in Int, C!SeekSet(x, p), prot' = prot
  PROVE  CacheInv'
<1>1. CASE p \in 0 .. x.end - 1
  <2>1. p \in Nat /\ p <= x.end /\ C!Moved(x, p)
    BY <1>1, FaithfulParts DEF C!SeekSet
  <2> QED BY <2>1, CacheMoves
<1>2. CASE ~(p \in 0 .. x.end - 1)
  <2>1. C!SeekMiss(x, "set", p) /\ "set" \in {"set", "end"}
    BY <1>2 DEF C!SeekSet
  <2> QED BY <2>1, SeekMisses
<1> QED BY <1>1, <1>2

LEMMA CacheRead ==
  ASSUME CacheInv, C!Read
  PROVE  CacheInv'
<1>1. PICK a \in C!Followed(MaxCacheRead) : c' = a.c
  BY DEF C!Read
<1>2. Faithful(a.c)
  <2>1. MaxCacheRead \in Int
    BY Sizes
  <2> QED BY <1>1, <2>1, CacheParts, CacheReads DEF Rightly
<1> QED BY <1>1, <1>2, CacheParts DEF CacheInv, C!Read

LEMMA CacheSeek ==
  ASSUME CacheInv, NEW whence \in {"set", "end"}, NEW p \in Int, C!Seek(whence, p)
  PROVE  CacheInv'
<1>1. prot' = prot /\ Faithful(c) /\ c.end \in Nat
  BY CacheParts, FaithfulParts DEF C!Seek
<1>2. C!SeekSet(c, p) \/ C!SeekSet(c, p + c.end) \/ C!SeekMiss(c, "end", p)
  BY DEF C!Seek
<1>3. p + c.end \in Int /\ "end" \in {"set", "end"}
  BY <1>1
<1> QED BY <1>1, <1>2, <1>3, SeekSets, SeekMisses

LEMMA ReadAheadDone ==
  ASSUME CacheInv, C!ReadAheadDone
  PROVE  CacheInv'
BY CacheParts, CacheEnds DEF C!ReadAheadDone

LEMMA ReadAhead ==
  ASSUME CacheInv, C!ReadAhead
  PROVE  CacheInv'
<1> DEFINE most == IF seeking.whence = "set"
                   THEN C!Smaller(MaxCacheRead, seeking.pos - c.logical_pos)
                   ELSE MaxCacheRead
<1>1. Faithful(c) /\ seeking.pos \in Int /\ c.logical_pos \in Nat /\ prot' = prot
  BY CacheParts, FaithfulParts DEF C!ReadAhead
<1>2. most \in Int
  BY <1>1, Sizes DEF C!Smaller
<1>3. PICK a \in C!Followed(most) :
        \/ c' = a.c /\ seeking' = seeking
        \/ C!SeekSet(a.c, seeking.pos + a.c.end)
        \/ C!SeekEnds(a.c)
  <2>1. PICK a \in C!Followed(most) :
          CASE a.kind = "data" -> c' = a.c /\ UNCHANGED seeking
            [] a.kind = "EOF" /\ seeking.whence = "end" -> C!SeekSet(a.c, seeking.pos + a.c.end)
            [] OTHER -> C!SeekEnds(a.c)
    BY DEF C!ReadAhead
  <2> HIDE DEF most
  <2> QED BY <2>1
<1> HIDE DEF most
<1>4. Faithful(a.c)
  BY <1>1, <1>2, <1>3, CacheReads DEF Rightly
<1>5. CASE c' = a.c /\ seeking' = seeking
  BY <1>1, <1>4, <1>5, CacheParts DEF CacheInv
<1>6. seeking.pos + a.c.end \in Int
  BY <1>1, <1>4, FaithfulParts
<1> QED BY <1>1, <1>3, <1>4, <1>5, <1>6, SeekSets, CacheEnds

(* AVSEEK_SIZE moves the inner protocol, and the end if it is told one.    *)
LEMMA SeekSize ==
  ASSUME CacheInv, C!SeekSize
  PROVE  CacheInv'
<1>1. PICK a \in C!Sizes : c' = a.c
  BY DEF C!SeekSize
<1>2. prot' = prot /\ seeking' = seeking
  BY DEF C!SeekSize
<1>3. ASSUME NEW x, Faithful(x), NEW p \in Int PROVE Faithful(C!Told(x, p).c)
  <2> DEFINE y == [x EXCEPT !.end = C!Larger(@, p), !.is_true_eof = @ \/ p > 0]
  <2>1. C!Told(x, p).c = y
    BY DEF C!Told
  <2>2. x \in Caching /\ x.end \in Nat /\ x.is_true_eof \in BOOLEAN
    BY <1>3, FaithfulParts
  <2>3. C!Larger(x.end, p) \in Nat
    BY <2>2 DEF C!Larger
  <2>4. PICK l \in Nat : l = C!Larger(x.end, p)
    BY <2>3
  <2>5. PICK eof \in BOOLEAN : eof = (x.is_true_eof \/ p > 0)
    OBVIOUS
  <2>6. y = [x EXCEPT !.end = l, !.is_true_eof = eof]
    BY <2>2, <2>4, <2>5 DEF Caching
  <2> HIDE DEF y
  <2>7. /\ y \in Caching /\ y.root = x.root /\ y.file = x.file /\ y.cache_pos = x.cache_pos
        /\ y.offset = x.offset /\ y.logical_pos = x.logical_pos /\ y.end = l
    BY <2>2, <2>6 DEF Caching
  <2>8. Faithful(y)
    BY <1>3, <2>4, <2>7, EndMoves
  <2> QED BY <2>1, <2>8
<1>4. ASSUME NEW x, Faithful(x), NEW y \in C!MaybeBack(x) PROVE Faithful(y)
  <2>1. x.inner_pos \in Int
    BY <1>4, FaithfulParts
  <2> QED BY <1>4, <2>1, InnerMoves DEF C!MaybeBack
<1>5. CacheSize \in Int /\ CacheSize - 1 \in Int /\ -1 \in Int /\ Faithful(c)
  BY Sizes, CacheParts
<1>6. \E x, p : a = C!Told(x, p) /\ Faithful(x) /\ p \in Int
  <2>1. CASE a = C!Told(c, CacheSize)
    BY <1>5, <2>1
  <2>2. ASSUME NEW v \in C!InnerSeeks(c, CacheSize - 1), NEW x \in C!MaybeBack(v),
               a = C!Told(x, CacheSize - 1)
        PROVE  \E y, p : a = C!Told(y, p) /\ Faithful(y) /\ p \in Int
    <3>1. Faithful(v)
      BY <1>5, InnerMoves
    <3> QED BY <1>4, <1>5, <2>2, <3>1
  <2>3. ASSUME NEW x \in C!MaybeBack(c), a = C!Told(x, -1)
        PROVE  \E y, p : a = C!Told(y, p) /\ Faithful(y) /\ p \in Int
    BY <1>4, <1>5, <2>3
  <2> QED BY <1>1, <2>1, <2>2, <2>3 DEF C!Sizes
<1>7. Faithful(c')
  BY <1>1, <1>3, <1>6
<1> QED BY <1>2, <1>7, CacheParts DEF CacheInv, Seekings

-----------------------------------------------------------------------------
(* The cache, and what it promises. *)
CacheVars == <<prot, c, seeking>>

LEMMA CacheStutters ==
  ASSUME CacheInv, UNCHANGED CacheVars
  PROVE  CacheInv'
BY DEF CacheVars, CacheInv

LEMMA CacheBegins ==
  ASSUME C!Init
  PROVE  CacheInv
<1>1. <<>> \in Seq(Int)
  OBVIOUS
<1>2. c \in Caching /\ c.cache_pos = c.offset /\ c.logical_pos = 0 /\ c.end = 0 /\ c.root = {}
  BY <1>1 DEF C!Init, Caching
<1>3. Faithful(c)
  BY <1>2 DEF Faithful
<1> QED BY <1>3, Sizes, NoSeeking DEF CacheInv, C!Init, Seekings

LEMMA CacheNext ==
  ASSUME CacheInv, C!Next
  PROVE  CacheInv'
<1>1. ASSUME NEW p \in -1 .. CacheSize + 1, C!Seek("set", p) PROVE CacheInv'
  BY <1>1, Sizes, CacheSeek
<1>2. ASSUME NEW p \in -1 .. 0, C!Seek("end", p) PROVE CacheInv'
  BY <1>2, CacheSeek
<1> QED BY <1>1, <1>2, CacheRead, SeekSize, ReadAhead, ReadAheadDone
        DEF C!Next, C!Call, C!Continue

LEMMA CacheCorrect ==
  ASSUME CacheInv
  PROVE  C!DataAtPosition /\ C!EndCovers
<1>1. ASSUME NEW a \in C!Followed(MaxCacheRead) PROVE C!AtPosition(a)
  <2>1. MaxCacheRead \in Int
    BY Sizes
  <2> QED BY <2>1, CacheParts, CacheReads DEF Rightly, Bytes, C!AtPosition
<1> QED BY <1>1, CacheParts DEF C!DataAtPosition, C!EndCovers, Faithful

-----------------------------------------------------------------------------
(* The three together. *)
LEMMA IoBegins ==
  ASSUME Init
  PROVE  IoInv
BY ReadBegins, WriteBegins, CacheBegins DEF Init, IoInv

LEMMA ReadMatches ==
  ASSUME ReadInv
  PROVE  R!BytesAtPosition /\ R!BufferMatches /\ R!BufferFits
<1>1. R!BytesAtPosition
  BY ReadParts DEF CallInv, R!BytesAtPosition, Bytes
<1>2. R!BufferMatches
  BY ReadParts, HoldsParts DEF R!BufferMatches, Holds, Begin, Bytes
<1>3. R!BufferFits
  BY ReadParts DEF R!BufferFits, Holds
<1> QED BY <1>1, <1>2, <1>3

LEMMA IoStep ==
  ASSUME IoInv, [Next]_vars
  PROVE  IoInv' /\ R!SeekLands
<1> USE DEF vars, reading, written, cached
<1>1. ASSUME UNCHANGED ReadVars PROVE R!SeekLands
  BY <1>1 DEF ReadVars, R!SeekLands, R!Idle
<1>2. CASE Reads(R!Next)
  <2>1. ReadInv' /\ R!SeekLands
    BY <1>2, ReadNext DEF IoInv, Reads
  <2>2. UNCHANGED WriteVars /\ UNCHANGED CacheVars
    BY <1>2 DEF Reads, WriteVars, CacheVars
  <2> QED BY <2>1, <2>2, WriteStutters, CacheStutters DEF IoInv
<1>3. CASE Writes(W!Next)
  <2>1. WriteInv'
    BY <1>3, WriteNext DEF IoInv, Writes
  <2>2. UNCHANGED ReadVars /\ UNCHANGED CacheVars
    BY <1>3 DEF Writes, ReadVars, CacheVars
  <2> QED BY <1>1, <2>1, <2>2, ReadStutters, CacheStutters DEF IoInv
<1>4. CASE Caches(C!Next)
  <2>1. CacheInv'
    BY <1>4, CacheNext DEF IoInv, Caches
  <2>2. UNCHANGED ReadVars /\ UNCHANGED WriteVars
    BY <1>4 DEF Caches, ReadVars, WriteVars
  <2> QED BY <1>1, <2>1, <2>2, ReadStutters, WriteStutters DEF IoInv
<1>5. CASE UNCHANGED vars
  <2>1. UNCHANGED ReadVars /\ UNCHANGED WriteVars /\ UNCHANGED CacheVars
    BY <1>5 DEF ReadVars, WriteVars, CacheVars
  <2> QED BY <1>1, <2>1, ReadStutters, WriteStutters, CacheStutters DEF IoInv
<1> QED BY <1>2, <1>3, <1>4, <1>5 DEF Next

(* The invariant: the buffers and the cache hold what they are taken to    *)
(* hold, after every call of aviobuf.c and cache.c, whatever fails.        *)
THEOREM IoCorrect == Spec => []IoInv
<1>1. Init => IoInv
  BY IoBegins
<1>2. IoInv /\ [Next]_vars => IoInv'
  BY IoStep
<1> QED BY <1>1, <1>2, PTL DEF Spec

(* What avio_read and cache_read return are the bytes at the position at   *)
(* which they began: what fill_buffer and add_entry leave in the buffer    *)
(* and in the file is what it is taken to be, whatever failed before.      *)
THEOREM BytesReadRight == Spec => []BytesRead
<1>1. IoInv => BytesRead
  BY ReadMatches, CacheCorrect DEF IoInv, BytesRead
<1> QED BY <1>1, IoCorrect, PTL

(* What avio_write puts into the buffer, and flush_buffer into the file,   *)
(* is what the user means to be there, through seeks within the buffer,    *)
(* flushes and direct writes; as long as no error is kept.                 *)
THEOREM BytesWrittenRight == Spec => []BytesWritten
<1>1. IoInv => BytesWritten
  BY WriteCorrect DEF IoInv, BytesWritten
<1> QED BY <1>1, IoCorrect, PTL

(* A window that ffio_ensure_seekback has promised last can be sought in,  *)
(* however fill_buffer has moved the data and set back the buffer size.    *)
THEOREM SeekbackStays == Spec => []SeekbackAvailable
<1>1. IoInv => SeekbackAvailable
  BY ReadParts, HoldsParts
     DEF IoInv, SeekbackAvailable, R!SeekbackAvailable, R!Start, WindowInv, Covers, Begin, Promised
<1> QED BY <1>1, IoCorrect, PTL

(* A seek of avio_seek that succeeds leads where it was to lead, in the    *)
(* buffer, by skipping or in the source; and one that cache_seek takes to  *)
(* succeed at once stays before an end that covers all that is cached.     *)
THEOREM SeeksDoLand == Spec => SeeksLand
<1>1. IoInv' => C!EndCovers'
  BY DEF IoInv, CacheInv, Faithful, C!EndCovers, C!EndOf
<1>2. IoInv /\ [Next]_vars => [R!SeekLands /\ C!EndCovers']_vars
  BY <1>1, IoStep
<1> QED BY <1>2, IoCorrect, PTL DEF Spec, SeeksLand
=============================================================================
