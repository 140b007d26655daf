----------------------------- MODULE BufferedIo -----------------------------
(***************************************************************************)
(* What lies between a demuxer or muxer and a protocol: the buffer of an   *)
(* AVIOContext, opened for reading or for writing, and the cache protocol, *)
(* which a file name may ask for.  In a behaviour one of the three is      *)
(* used, as kind says; the others never start.                             *)
(***************************************************************************)
EXTENDS Integers, Sequences

CONSTANTS IO_BUFFER_SIZE, BufferSizes, ShortSeek,   \* of both contexts
          ReadSize, Sources, MaxRead, MaxWindow,    \* of AvioRead
          MaxFile, Marks, Sinks, MaxWrite,          \* of AvioWrite
          CacheSize, MaxCacheRead, Disk, Prots      \* of CacheProtocol

VARIABLES kind,                                     \* "read", "write" or "cache"
          src, s, call, probe, window,              \* those of AvioRead
          sink, out, file, writing, meant, place, strayed, open,   \* of AvioWrite
          prot, c, seeking                          \* of CacheProtocol

R == INSTANCE AvioRead WITH Size <- ReadSize
W == INSTANCE AvioWrite WITH s <- out, call <- writing
C == INSTANCE CacheProtocol WITH
       Size <- CacheSize, MaxRead <- MaxCacheRead, MaxFile <- Disk, call <- seeking

ASSUME IoAssumption ==
  /\ {ReadSize, IO_BUFFER_SIZE, MaxRead, MaxWindow, MaxFile, MaxWrite, CacheSize,
      MaxCacheRead} \subseteq Nat \ {0}
  /\ BufferSizes \subseteq Nat \ {0} /\ {ShortSeek, Disk} \subseteq Nat
  /\ Sources \subseteq R!Source /\ Sinks \subseteq W!Sink /\ Prots \subseteq C!Prot

reading == <<src, s, call, probe, window>>
written == <<sink, out, file, writing, meant, place, strayed, open>>
cached == <<prot, c, seeking>>
vars == <<kind, reading, written, cached>>

Init ==
  /\ kind \in {"read", "write", "cache"}
  /\ R!Init /\ W!Init /\ C!Init
  /\ kind # "read" => /\ src = CHOOSE x \in Sources : TRUE
                      /\ s.buffer_size = CHOOSE n \in BufferSizes : TRUE
                      /\ ~probe.on
  /\ kind # "write" => /\ sink = CHOOSE x \in Sinks : TRUE
                       /\ out.buffer_size = CHOOSE n \in BufferSizes : TRUE
  /\ kind # "cache" => prot = CHOOSE x \in Prots : TRUE

Reads(A) == kind = "read" /\ A /\ UNCHANGED <<kind, written, cached>>
Writes(A) == kind = "write" /\ A /\ UNCHANGED <<kind, reading, cached>>
Caches(A) == kind = "cache" /\ A /\ UNCHANGED <<kind, reading, written>>

Next == Reads(R!Next) \/ Writes(W!Next) \/ Caches(C!Next)

(* A call that has begun goes on; nobody need call anything. *)
Spec == /\ Init /\ [][Next]_vars
        /\ WF_vars(Reads(R!Continue) \/ Writes(W!Continue) \/ Caches(C!Continue))
-----------------------------------------------------------------------------
(* What a read returns are the bytes at the position at which it began:    *)
(* the buffer of the context, and the file and the table of the cache,     *)
(* hold what they are taken to hold, whatever failed before.               *)
BytesRead == R!BytesAtPosition /\ R!BufferMatches /\ R!BufferFits /\ C!DataAtPosition

(* What was written, with the buffer laid over it, is what the user means  *)
(* the file to be, wherever the user sought; and a failure is told.        *)
BytesWritten == W!NothingMisplaced /\ W!ClosedComplete /\ W!FailuresKept /\ W!PlaceKept

(* In a context that is not direct, the window that ffio_ensure_seekback   *)
(* has promised last can be sought in.                                     *)
SeekbackAvailable == R!SeekbackAvailable

(* A seek in a context leads where it was to lead, and one in the cache is *)
(* taken to succeed at once up to an end that covers all that is cached.   *)
SeeksLand == [][R!SeekLands /\ C!EndCovers']_vars

(* Reading, writing and seeking return. *)
Calling == R!Calling \/ W!Calling \/ C!Calling
CallsReturn == []<>~Calling

(* Refuted by the code: what the comments say of seeks in the window that  *)
(* was promised, of the next read after a seek, and of AVSEEK_SIZE.        *)
SeekbackPossible == R!SeekbackPossible
ReadsAtPosition == C!ReadsAtPosition
SizeReturned == C!SizeReturned
=============================================================================
