---------------------------- MODULE FfplayProofs ----------------------------
(***************************************************************************)
(* Theorems about Ffplay and the decoding functions it calls.              *)
(*                                                                         *)
(* PlayInv, the inductive invariant, follows a packet on its way: from the *)
(* list (QueueInv) through the decoder (ContentsInv, DecoderInv) into the  *)
(* ring of pictures (PicturesInv, RingInv), and the null packet that ends  *)
(* a serial (OpenInv, EndedInv, ShownInv).  The lemmas first say what the  *)
(* decoding functions and the packet list do, then what each thread does.  *)
(***************************************************************************)
EXTENDS Ffplay, TLAPS

(* The packet list, and what is anywhere in the decoder. *)
Kinds == [i \in 1 .. Len(packets) |-> packets[i][1]]
Serials == [i \in 1 .. Len(packets) |-> packets[i][2]]
Contents == {bsf_pkt, in_pkt, buffer_frame} \cup {held[i] : i \in 1 .. Len(held)}

QueueTypeOK ==
  /\ rpc \in {"top", "seek", "check", "read", "gone"} /\ readPkts \in Nat
  /\ packets \in Seq(Int \X (Nat \ {0}))
  /\ serial \in Nat \ {0}
  /\ put_serial \in Seq(Nat) /\ Len(put_serial) = readPkts
  /\ ended \in {"open", "ended", "grown"}
  /\ dpc \in {"top", "receive", "received", "get", "compare", "send", "sent", "writable", "fill",
              "push", "gone"}
  /\ pkt \in Nat \cup {FLUSH} /\ pkt_serial \in Int /\ finished \in Int

DecodeTypeOK ==
  /\ bsf_eof \in BOOLEAN /\ bsf_pkt \in Nat /\ in_pkt \in Nat /\ parts \in Int
  /\ held \in Seq(Nat \ {0})
  /\ buffer_frame \in Nat /\ draining \in BOOLEAN /\ draining_done \in BOOLEAN
  /\ nb_draining_errors \in Nat
  /\ busy \in {"none", "send", "receive"}
  /\ ret \in [code : {"ok", "frame", "EAGAIN", "EOF", "EINVAL", "error"}, frame : Nat]

(* stream_close ends the read thread before it aborts the queue. *)
CloseInv == q_abort \/ mpc \in {"abort", "signal", "join", "closed"} => rpc = "gone"

(* The serials of the list, with that of the packet in hand in front: they *)
(* grow at a flush packet and nowhere else.                                *)
Before == [i \in 1 .. Len(packets) + 1 |-> IF i = 1 THEN pkt_serial ELSE Serials[i - 1]]

QueueInv ==
  /\ rpc = "seek" => Len(packets) = 0
  /\ rpc \notin {"seek", "gone"} => Before[Len(packets) + 1] = serial
  /\ \A i \in 1 .. Len(packets) :
       /\ Kinds[i] = FLUSH => Serials[i] > Before[i]
       /\ Kinds[i] # FLUSH => Kinds[i] >= 0 /\ Serials[i] = Before[i]
       /\ Kinds[i] > 0 => Kinds[i] <= readPkts /\ put_serial[Kinds[i]] = Serials[i]
       /\ Serials[i] <= serial
  /\ pkt_serial <= serial
  /\ pkt > 0 => pkt <= readPkts /\ put_serial[pkt] = pkt_serial
  /\ \A p \in 1 .. readPkts : put_serial[p] <= serial

(* Where the packet in hand is; while it is a flush packet, or one of an   *)
(* older serial, the decoder still holds what came before it.              *)
InHand == dpc \in {"compare", "send"}
Flushing == InHand /\ pkt = FLUSH
Stale == dpc \in {"top", "get", "compare", "gone"} /\ pkt_serial # serial
HasFrame == dpc \in {"writable", "fill"} \/ (dpc = "received" /\ busy = "none" /\ ret.code = "frame")

ContentsInv ==
  /\ \A p \in Contents : p > 0 =>
       /\ p <= readPkts /\ put_serial[p] <= pkt_serial
       /\ Flushing => put_serial[p] < pkt_serial
       /\ Flushing \/ Stale \/ put_serial[p] = pkt_serial
  /\ HasFrame => ret.frame > 0 /\ ret.frame <= readPkts /\ put_serial[ret.frame] = pkt_serial

(* What is decoded bears the serial it was put with. *)
PicturesInv ==
  /\ slots \in [Slots -> [frame : Nat, serial : Int]]
  /\ \A k \in Slots : slots[k].frame > 0 =>
       slots[k].frame <= readPkts /\ put_serial[slots[k].frame] = slots[k].serial

(* The decoder is asked for frames until it has none: when it is given a   *)
(* packet there is room for it.                                            *)
Answered(code) == dpc = "received" /\ busy = "none" /\ ret.code = code
Received == bsf_pkt = 0 /\ in_pkt = 0 /\ buffer_frame = 0

ApiInv ==
  /\ pending = FALSE
  /\ busy = "receive" => dpc = "received"
  /\ busy = "send" => dpc = "sent"
  /\ dpc = "sent" /\ busy = "none" => ret.code # "EAGAIN"
  /\ dpc \in {"get", "compare", "send"} => Flushing \/ Stale \/ Received
  /\ Answered("EAGAIN") => Received
  /\ Answered("EOF") => draining

(* decode.c and bsf.c. *)
DecoderInv ==
  /\ busy # "none" => buffer_frame = 0
  /\ bsf_eof => bsf_pkt = 0
  /\ draining => bsf_eof /\ in_pkt = 0
  /\ draining_done => draining
  /\ accepted \subseteq decoded \cup {bsf_pkt, in_pkt} /\ 0 \notin accepted

(* The decoder has been told of the end of the serial in hand: once the    *)
(* null packet of a serial is read, only null packets may come after it.   *)
EofTaken == finished = pkt_serial \/ (bsf_eof /\ ~Flushing)
NullInHand == InHand /\ pkt = 0

FinishedInv ==
  /\ finished <= pkt_serial \/ finished = 0
  /\ Flushing => finished < pkt_serial

OpenInv ==
  ended = "open" =>
    /\ \A i \in 1 .. Len(packets) : Kinds[i] = 0 => Serials[i] # serial
    /\ pkt_serial = serial => ~EofTaken /\ ~NullInHand

EndedInv ==
  ended = "ended" =>
    /\ \A i \in 1 .. Len(packets) : Kinds[i] = 0 /\ Serials[i] = serial =>
         \A j \in i .. Len(packets) : Kinds[j] <= 0
    /\ pkt_serial = serial /\ (EofTaken \/ NullInHand) =>
         \A j \in 1 .. Len(packets) : Kinds[j] <= 0
    /\ pkt_serial = serial /\ EofTaken => ~(InHand /\ pkt > 0)

(* A packet of this serial is decoded, or on its way to the decoder. *)
Underway(p) ==
  \/ p \in decoded \/ (InHand /\ pkt = p) \/ bsf_pkt = p \/ in_pkt = p
  \/ \E i \in 1 .. Len(packets) : Kinds[i] = p

NothingLost ==
  ended # "grown" /\ rpc \notin {"seek", "gone"} =>
    \A p \in 1 .. readPkts : put_serial[p] = serial => Underway(p)

ShownInv ==
  ended = "ended" /\ finished = serial => Contents = {0} /\ dpc # "push" /\ ~HasFrame

(* From rindex on there are the filled slots and then the empty ones.  A   *)
(* slot is emptied before size tells of it, and filled likewise.           *)
Turn(k) == (rindex + k) % max_size
Leaving == IF mpc = "next" THEN 1 ELSE 0
Coming == IF dpc = "push" THEN 1 ELSE 0
Filled == size - Leaving + Coming
RingInv ==
  /\ windex \in Slots /\ rindex \in Slots /\ size \in Nat /\ rindex_shown \in {0, 1}
  /\ mpc \in {"refresh", "next", "join_read", "abort", "signal", "join", "closed"}
  /\ size <= max_size /\ (dpc \in {"fill", "push"} => size < max_size)
  /\ rindex_shown <= size - Leaving
  /\ windex = Turn(Filled)
  /\ \A k \in 0 .. max_size - 1 :
       /\ k < Filled => slots[Turn(k)].frame > 0
       /\ k >= Filled => slots[Turn(k)] = NoPicture
PlayInv ==
  /\ QueueTypeOK /\ DecodeTypeOK /\ CloseInv /\ QueueInv /\ ContentsInv /\ PicturesInv /\ ApiInv
  /\ DecoderInv /\ FinishedInv /\ OpenInv /\ EndedInv /\ NothingLost /\ ShownInv /\ RingInv

-----------------------------------------------------------------------------
(* The decoding functions.                                                 *)
LEMMA ContentsAre ==
  ASSUME DecodeTypeOK
  PROVE  Contents \subseteq Nat /\ bsf_pkt \in Contents /\ in_pkt \in Contents
         /\ buffer_frame \in Contents
  BY DEF DecodeTypeOK, Contents

LEMMA ContentsStay ==
  ASSUME UNCHANGED decodeVars PROVE Contents' = Contents
  BY DEF decodeVars, Contents

(* What the first frame held back, or the last, has to do with the others. *)
LEMMA HeldFirst ==
  ASSUME NEW s \in Seq(Nat \ {0}), s # <<>>
  PROVE  /\ Tail(s) \in Seq(Nat \ {0}) /\ Head(s) \in Nat \ {0}
         /\ Head(s) \in {s[i] : i \in 1 .. Len(s)}
         /\ {Tail(s)[i] : i \in 1 .. Len(Tail(s))} \subseteq {s[i] : i \in 1 .. Len(s)}
<1>1. Len(s) \in Nat /\ Len(s) > 0 /\ Head(s) = s[1] /\ Tail(s) \in Seq(Nat \ {0})
      /\ Len(Tail(s)) = Len(s) - 1 /\ \A i \in 1 .. Len(s) - 1 : Tail(s)[i] = s[i + 1]
  OBVIOUS
<1>2. ASSUME NEW i \in 1 .. Len(Tail(s)) PROVE Tail(s)[i] \in {s[k] : k \in 1 .. Len(s)}
  <2>1. i + 1 \in 1 .. Len(s) /\ Tail(s)[i] = s[i + 1]
    BY <1>1
  <2> QED BY <2>1
<1> QED BY <1>1, <1>2

LEMMA HeldLast ==
  ASSUME NEW s \in Seq(Nat \ {0}), NEW p \in Nat \ {0}
  PROVE  /\ Append(s, p) \in Seq(Nat \ {0}) /\ Append(s, p) # <<>>
         /\ {Append(s, p)[i] : i \in 1 .. Len(Append(s, p))} = {s[i] : i \in 1 .. Len(s)} \cup {p}
<1>1. Append(s, p) \in Seq(Nat \ {0}) /\ Len(Append(s, p)) = Len(s) + 1 /\ Len(s) \in Nat
      /\ Append(s, p)[Len(s) + 1] = p /\ \A i \in 1 .. Len(s) : Append(s, p)[i] = s[i]
  OBVIOUS
<1>2. Append(s, p) # <<>>
  BY <1>1
<1>3. ASSUME NEW i \in 1 .. Len(s) + 1 PROVE Append(s, p)[i] \in {s[k] : k \in 1 .. Len(s)} \cup {p}
  <2>1. i = Len(s) + 1 \/ i \in 1 .. Len(s)
    BY <1>1
  <2> QED BY <1>1, <2>1
<1>4. ASSUME NEW i \in 1 .. Len(s) PROVE s[i] \in {Append(s, p)[k] : k \in 1 .. Len(s) + 1}
  <2>1. i \in 1 .. Len(s) + 1 /\ s[i] = Append(s, p)[i]
    BY <1>1
  <2> QED BY <2>1
<1>5. Len(s) + 1 \in 1 .. Len(s) + 1
  BY <1>1
<1> QED BY <1>1, <1>2, <1>3, <1>4, <1>5

(* A turn of the loop of decode_simple_receive_frame: what it keeps, what  *)
(* it gives, and what its answers say.                                     *)
LoopOK ==
  /\ DecodeTypeOK' /\ DecoderInv'
  /\ Contents' \subseteq Contents \cup {0}
  /\ busy' = "none" /\ ret'.code = "frame" => ret'.frame \in Contents /\ ret'.frame > 0
  /\ busy' \in {"none", busy}
  /\ busy = "send" /\ busy' = "none" => ret'.code # "EAGAIN"
  /\ busy = "receive" /\ busy' = "none" => (ret'.code = "EAGAIN" => Received') /\ (ret'.code = "EOF" => draining')
  /\ bsf_eof' = bsf_eof
  /\ \A p \in {bsf_pkt, in_pkt} : p = 0 \/ p \in decoded' \/ p = bsf_pkt' \/ p = in_pkt'
  /\ decoded \subseteq decoded'

(* The ways in which a turn of the loop ends. *)
LEMMA LoopEnding ==
  ASSUME DecodeTypeOK, busy # "none", buffer_frame = 0,
         NEW code \in {"EAGAIN", "EOF", "error"}, LoopEnds(code)
  PROVE  /\ busy' = "none" /\ buffer_frame' = 0 /\ ret'.code # "frame"
         /\ ret' \in [code : {"ok", "frame", "EAGAIN", "EOF", "EINVAL", "error"}, frame : Nat]
         /\ busy = "send" => ret'.code # "EAGAIN"
         /\ busy = "receive" => ret'.code = code
<1>1. PICK answer \in {"ok", "EAGAIN", "EOF", "error"} :
        /\ ret' = [code |-> answer, frame |-> 0] /\ busy' = "none" /\ buffer_frame' = 0
        /\ answer = IF busy = "send" /\ code \in {"EAGAIN", "EOF"} THEN "ok" ELSE code
  BY DEF LoopEnds, Returns, NoFrame
<1> QED BY <1>1 DEF DecodeTypeOK

LEMMA LoopGiving ==
  ASSUME DecodeTypeOK, busy # "none", buffer_frame = 0, NEW f \in Nat \ {0}, Gives(f)
  PROVE  /\ busy' \in {"none", busy} /\ buffer_frame' \in {0, f}
         /\ busy' # "none" => buffer_frame' = 0
         /\ busy' = "none" => ret'.code \in {"ok", "frame"}
         /\ ret' \in [code : {"ok", "frame", "EAGAIN", "EOF", "EINVAL", "error"}, frame : Nat]
         /\ busy' = "none" /\ ret'.code = "frame" => ret'.frame = f
<1>1. CASE LoopGoesOn
  BY <1>1 DEF LoopGoesOn, DecodeTypeOK
<1>2. CASE LoopGives(f) /\ busy = "send"
  BY <1>2 DEF LoopGives, Returns, NoFrame, DecodeTypeOK
<1>3. CASE LoopGives(f) /\ busy # "send"
  BY <1>3 DEF LoopGives, ReturnsFrame, DecodeTypeOK
<1> QED BY <1>1, <1>2, <1>3 DEF Gives

LEMMA FetchKeeps ==
  ASSUME DecodeTypeOK, DecoderInv, FetchPacket PROVE LoopOK
<1>1. /\ busy # "none" /\ in_pkt = 0 /\ ~draining /\ buffer_frame = 0 /\ ~draining_done
      /\ held' = held /\ draining_done' = draining_done /\ accepted' = accepted /\ decoded' = decoded
      /\ nb_draining_errors' = nb_draining_errors
      /\ held \in Seq(Nat \ {0})
  BY DEF FetchPacket, DecoderInv, DecodeTypeOK
<1>2. CASE BsfPacket = "EAGAIN" /\ LoopEnds("EAGAIN") /\ UNCHANGED <<bsf, in_pkt, parts, draining>>
  <2>1. bsf_pkt = 0 /\ ~bsf_eof
    BY <1>2 DEF BsfPacket, DecodeTypeOK
  <2>2. /\ busy' = "none" /\ buffer_frame' = 0 /\ ret'.code # "frame"
        /\ ret' \in [code : {"ok", "frame", "EAGAIN", "EOF", "EINVAL", "error"}, frame : Nat]
        /\ busy = "send" => ret'.code # "EAGAIN"
        /\ busy = "receive" => ret'.code = "EAGAIN"
    BY <1>1, <1>2, LoopEnding
  <2>3. DecodeTypeOK'
    BY <1>1, <1>2, <2>2 DEF DecodeTypeOK, bsf
  <2>4. DecoderInv'
    BY <1>1, <1>2, <2>1, <2>2 DEF DecoderInv, bsf
  <2>5. Contents' = Contents /\ Received'
    BY <1>1, <1>2, <2>1, <2>2 DEF Contents, Received, bsf
  <2> QED BY <1>1, <1>2, <2>1, <2>2, <2>3, <2>4, <2>5 DEF LoopOK, bsf
<1>3. CASE BsfPacket = "EOF" /\ draining' = TRUE /\ LoopGoesOn /\ UNCHANGED <<bsf, in_pkt, parts>>
  <2>1. bsf_eof /\ bsf_pkt = 0
    BY <1>3 DEF BsfPacket, DecoderInv, DecodeTypeOK
  <2>2. busy' = busy /\ ret' = ret /\ buffer_frame' = 0
    BY <1>1, <1>3 DEF LoopGoesOn
  <2>3. DecodeTypeOK'
    BY <1>1, <1>3, <2>2 DEF DecodeTypeOK, bsf
  <2>4. DecoderInv'
    BY <1>1, <1>3, <2>1, <2>2 DEF DecoderInv, bsf
  <2>5. Contents' = Contents
    BY <1>1, <1>3, <2>2 DEF Contents, bsf
  <2> QED BY <1>1, <1>3, <2>1, <2>2, <2>3, <2>4, <2>5 DEF LoopOK, bsf
<1>4. CASE /\ BsfPacket = "packet" /\ in_pkt' = bsf_pkt /\ bsf_pkt' = 0 /\ parts' \in 1 .. MaxParts
           /\ LoopGoesOn /\ UNCHANGED <<bsf_eof, draining>>
  <2>1. ~bsf_eof /\ bsf_pkt # 0 /\ bsf_pkt \in Nat
    BY <1>4 DEF BsfPacket, DecodeTypeOK
  <2>2. busy' = busy /\ ret' = ret /\ buffer_frame' = 0
    BY <1>1, <1>4 DEF LoopGoesOn
  <2>3. DecodeTypeOK'
    BY <1>1, <1>4, <2>1, <2>2, DecodeAssumption DEF DecodeTypeOK
  <2>4. DecoderInv'
    BY <1>1, <1>4, <2>1, <2>2 DEF DecoderInv
  <2>5. Contents' \subseteq Contents \cup {0}
    BY <1>1, <1>4, <2>2 DEF Contents
  <2> QED BY <1>1, <1>4, <2>1, <2>2, <2>3, <2>4, <2>5 DEF LoopOK
<1> QED BY <1>2, <1>3, <1>4 DEF FetchPacket

LEMMA NoMoreKeeps ==
  ASSUME DecodeTypeOK, DecoderInv, NoMoreFrames PROVE LoopOK
<1>1. /\ busy # "none" /\ draining /\ bsf_eof /\ bsf_pkt = 0 /\ in_pkt = 0 /\ buffer_frame = 0
      /\ draining_done' = TRUE /\ LoopEnds("EOF")
      /\ UNCHANGED <<bsf_eof, bsf_pkt, in_pkt, parts, held, draining, nb_draining_errors, accepted,
                     decoded>>
  BY DEF NoMoreFrames, DecoderInv, DecodeTypeOK, bsf
<1>2. /\ busy' = "none" /\ buffer_frame' = 0 /\ ret'.code # "frame"
      /\ ret' \in [code : {"ok", "frame", "EAGAIN", "EOF", "EINVAL", "error"}, frame : Nat]
      /\ busy = "send" => ret'.code # "EAGAIN"
      /\ busy = "receive" => ret'.code = "EOF"
  BY <1>1, LoopEnding
<1>3. DecodeTypeOK'
  BY <1>1, <1>2 DEF DecodeTypeOK
<1>4. DecoderInv'
  BY <1>1, <1>2 DEF DecoderInv
<1>5. Contents' = Contents
  BY <1>1, <1>2 DEF Contents
<1> QED BY <1>1, <1>2, <1>3, <1>4, <1>5 DEF LoopOK

LEMMA PacketKeeps ==
  ASSUME DecodeTypeOK, DecoderInv, DecodePacket PROVE LoopOK
<1>1. /\ busy # "none" /\ in_pkt \in Nat \ {0} /\ ~draining /\ ~draining_done /\ buffer_frame = 0
      /\ decoded' = decoded \cup {in_pkt} /\ held \in Seq(Nat \ {0})
      /\ UNCHANGED <<bsf_eof, bsf_pkt, draining, draining_done, nb_draining_errors, accepted>>
  BY DEF DecodePacket, DecoderInv, DecodeTypeOK, bsf
<1>2. CASE LoopEnds("error") /\ in_pkt' = 0 /\ parts' = 0 /\ UNCHANGED held
  <2>1. /\ busy' = "none" /\ buffer_frame' = 0 /\ ret'.code # "frame"
        /\ ret' \in [code : {"ok", "frame", "EAGAIN", "EOF", "EINVAL", "error"}, frame : Nat]
        /\ busy = "send" => ret'.code # "EAGAIN"
        /\ busy = "receive" => ret'.code = "error"
    BY <1>1, <1>2, LoopEnding
  <2>2. DecodeTypeOK'
    BY <1>1, <1>2, <2>1 DEF DecodeTypeOK
  <2>3. DecoderInv'
    BY <1>1, <1>2, <2>1 DEF DecoderInv
  <2>4. Contents' \subseteq Contents \cup {0}
    BY <1>1, <1>2, <2>1 DEF Contents
  <2> QED BY <1>1, <1>2, <2>1, <2>2, <2>3, <2>4 DEF LoopOK
<1>3. CASE /\ parts' = parts - 1 /\ in_pkt' = IF parts = 1 THEN 0 ELSE in_pkt
           /\ LET all == Append(held, in_pkt) IN
              IF Len(all) > Delay THEN held' = Tail(all) /\ Gives(Head(all))
                                  ELSE held' = all /\ LoopGoesOn
  <2>1. PICK s \in Seq(Nat \ {0}) : s = Append(held, in_pkt) /\ s # <<>>
          /\ {s[i] : i \in 1 .. Len(s)} = {held[i] : i \in 1 .. Len(held)} \cup {in_pkt}
    BY <1>1, HeldLast
  <2>2. in_pkt' \in {0, in_pkt} /\ parts' \in Int
    BY <1>1, <1>3 DEF DecodeTypeOK
  <2>3. {s[i] : i \in 1 .. Len(s)} \subseteq Contents
    BY <2>1 DEF Contents
  <2>4. CASE held' = Tail(s) /\ Gives(Head(s))
    <3>1. /\ held' \in Seq(Nat \ {0}) /\ Head(s) \in Nat \ {0} /\ Head(s) \in Contents
          /\ {held'[i] : i \in 1 .. Len(held')} \subseteq Contents
      BY <2>1, <2>3, <2>4, HeldFirst
    <3>2. /\ busy' \in {"none", busy} /\ buffer_frame' \in {0, Head(s)}
          /\ busy' # "none" => buffer_frame' = 0
          /\ busy' = "none" => ret'.code \in {"ok", "frame"}
          /\ ret' \in [code : {"ok", "frame", "EAGAIN", "EOF", "EINVAL", "error"}, frame : Nat]
          /\ busy' = "none" /\ ret'.code = "frame" => ret'.frame = Head(s)
      BY <1>1, <2>4, <3>1, LoopGiving
    <3>3. DecodeTypeOK'
      BY <1>1, <2>2, <3>1, <3>2 DEF DecodeTypeOK
    <3>4. DecoderInv'
      BY <1>1, <2>2, <3>2 DEF DecoderInv
    <3>5. Contents' \subseteq Contents \cup {0}
      BY <1>1, <2>2, <3>1, <3>2 DEF Contents
    <3> QED BY <1>1, <2>2, <3>1, <3>2, <3>3, <3>4, <3>5 DEF LoopOK
  <2>5. CASE held' = s /\ LoopGoesOn
    <3>1. busy' = busy /\ ret' = ret /\ buffer_frame' = 0
      BY <1>1, <2>5 DEF LoopGoesOn
    <3>2. DecodeTypeOK'
      BY <1>1, <2>2, <2>5, <3>1 DEF DecodeTypeOK
    <3>3. DecoderInv'
      BY <1>1, <2>2, <3>1 DEF DecoderInv
    <3>4. Contents' \subseteq Contents \cup {0}
      <4>1. {held'[i] : i \in 1 .. Len(held')} \subseteq Contents
        BY <2>3, <2>5
      <4> QED BY <1>1, <2>2, <3>1, <4>1 DEF Contents
    <3> QED BY <1>1, <2>2, <3>1, <3>2, <3>3, <3>4 DEF LoopOK
  <2> QED BY <1>3, <2>1, <2>4, <2>5
<1> QED BY <1>2, <1>3 DEF DecodePacket

LEMMA DrainKeeps ==
  ASSUME DecodeTypeOK, DecoderInv, Drain PROVE LoopOK
<1>1. /\ busy # "none" /\ draining /\ bsf_eof /\ bsf_pkt = 0 /\ in_pkt = 0 /\ buffer_frame = 0
      /\ held \in Seq(Nat \ {0}) /\ draining_done = FALSE
      /\ UNCHANGED <<bsf_eof, bsf_pkt, in_pkt, parts, draining, accepted, decoded>>
  BY DEF Drain, DecoderInv, DecodeTypeOK, bsf
<1>2. CASE held # <<>> /\ held' = Tail(held) /\ Gives(Head(held)) /\ UNCHANGED <<draining_done, nb_draining_errors>>
  <2>1. /\ held' \in Seq(Nat \ {0}) /\ Head(held) \in Nat \ {0} /\ Head(held) \in Contents
        /\ {held'[i] : i \in 1 .. Len(held')} \subseteq Contents
    BY <1>1, <1>2, HeldFirst DEF Contents
  <2>2. /\ busy' \in {"none", busy} /\ buffer_frame' \in {0, Head(held)}
        /\ busy' # "none" => buffer_frame' = 0
        /\ busy' = "none" => ret'.code \in {"ok", "frame"}
        /\ ret' \in [code : {"ok", "frame", "EAGAIN", "EOF", "EINVAL", "error"}, frame : Nat]
        /\ busy' = "none" /\ ret'.code = "frame" => ret'.frame = Head(held)
    BY <1>1, <1>2, <2>1, LoopGiving
  <2>3. DecodeTypeOK'
    BY <1>1, <1>2, <2>1, <2>2 DEF DecodeTypeOK
  <2>4. DecoderInv'
    BY <1>1, <1>2, <2>2 DEF DecoderInv
  <2>5. Contents' \subseteq Contents \cup {0}
    BY <1>1, <2>1, <2>2 DEF Contents
  <2> QED BY <1>1, <2>1, <2>2, <2>3, <2>4, <2>5 DEF LoopOK
<1>3. CASE held = <<>> /\ draining_done' = TRUE /\ LoopGoesOn /\ UNCHANGED <<held, nb_draining_errors>>
  <2>1. busy' = busy /\ ret' = ret /\ buffer_frame' = 0
    BY <1>1, <1>3 DEF LoopGoesOn
  <2>2. DecodeTypeOK'
    BY <1>1, <1>3, <2>1 DEF DecodeTypeOK
  <2>3. DecoderInv'
    BY <1>1, <1>3, <2>1 DEF DecoderInv
  <2>4. Contents' = Contents
    BY <1>1, <1>3, <2>1 DEF Contents
  <2> QED BY <1>1, <2>1, <2>2, <2>3, <2>4 DEF LoopOK
<1>4. CASE /\ nb_draining_errors' = nb_draining_errors + 1
           /\ draining_done' = (nb_draining_errors >= nb_errors_max)
           /\ LoopEnds("error") /\ UNCHANGED held
  <2>1. /\ busy' = "none" /\ buffer_frame' = 0 /\ ret'.code # "frame"
        /\ ret' \in [code : {"ok", "frame", "EAGAIN", "EOF", "EINVAL", "error"}, frame : Nat]
        /\ busy = "send" => ret'.code # "EAGAIN"
        /\ busy = "receive" => ret'.code = "error"
    BY <1>1, <1>4, LoopEnding
  <2>2. DecodeTypeOK'
    <3>1. draining_done' \in BOOLEAN /\ nb_draining_errors' \in Nat
      BY <1>4, DecodeAssumption DEF DecodeTypeOK
    <3> QED BY <1>1, <1>4, <2>1, <3>1 DEF DecodeTypeOK
  <2>3. DecoderInv'
    BY <1>1, <2>1 DEF DecoderInv
  <2>4. Contents' = Contents
    BY <1>1, <1>4, <2>1 DEF Contents
  <2> QED BY <1>1, <2>1, <2>2, <2>3, <2>4 DEF LoopOK
<1> QED BY <1>2, <1>3, <1>4 DEF Drain

LEMMA LoopKeeps ==
  ASSUME DecodeTypeOK, DecoderInv, DecodeLoop PROVE LoopOK
  BY FetchKeeps, NoMoreKeeps, PacketKeeps, DrainKeeps DEF DecodeLoop

LEMMA FlushKeeps ==
  ASSUME DecodeTypeOK, FlushBuffers
  PROVE  /\ DecodeTypeOK' /\ DecoderInv' /\ Contents' = {0} /\ Received'
         /\ bsf_eof' = FALSE /\ busy' = busy /\ ret' = ret /\ decoded' = decoded
<1>1. DecodeTypeOK'
  <2>1. <<>> \in Seq(Nat \ {0})
    OBVIOUS
  <2>2. held' \in Seq(Nat \ {0})
    BY <2>1 DEF FlushBuffers
  <2>3. /\ bsf_pkt' = 0 /\ in_pkt' = 0 /\ parts' = 0 /\ buffer_frame' = 0
        /\ nb_draining_errors' = 0 /\ busy' = busy /\ ret' = ret
    BY DEF FlushBuffers, NoFrame
  <2>4. busy \in {"none", "send", "receive"}
        /\ ret \in [code : {"ok", "frame", "EAGAIN", "EOF", "EINVAL", "error"}, frame : Nat]
    BY DEF DecodeTypeOK
  <2>5. bsf_eof' \in BOOLEAN /\ draining' \in BOOLEAN /\ draining_done' \in BOOLEAN
    BY Zenon DEF FlushBuffers
  <2> QED BY <2>2, <2>3, <2>4, <2>5 DEF DecodeTypeOK
<1>2. DecoderInv'
  BY DEF FlushBuffers, DecoderInv, NoFrame
<1>3. Contents' = {0}
  <2>1. held' = <<>> /\ bsf_pkt' = 0 /\ in_pkt' = 0 /\ buffer_frame' = 0
    BY DEF FlushBuffers, NoFrame
  <2>2. {held'[i] : i \in 1 .. Len(held')} = {}
    <3>1. Len(held') = 0 /\ 1 .. 0 = {}
      BY <2>1
    <3> QED BY <3>1
  <2> QED BY <2>1, <2>2 DEF Contents
<1> QED BY <1>1, <1>2, <1>3 DEF FlushBuffers, Received, NoFrame

LEMMA SendKeeps ==
  ASSUME DecodeTypeOK, DecoderInv, Received, NEW p \in Nat, SendPacket(p)
  PROVE  /\ DecodeTypeOK' /\ DecoderInv' /\ Contents' \subseteq Contents \cup {p}
         /\ busy' \in {"none", "send"} /\ (busy' = "none" => ret'.code # "EAGAIN")
         /\ p = 0 \/ bsf_eof => Contents' = Contents
         /\ p = 0 => bsf_eof'
         /\ p > 0 => bsf_eof' = bsf_eof /\ (bsf_eof \/ bsf_pkt' = p)
         /\ decoded' = decoded
<1>1. /\ busy = "none" /\ bsf_pkt = 0 /\ in_pkt = 0 /\ buffer_frame = 0
      /\ UNCHANGED <<in_pkt, parts, held, buffer_frame, draining, draining_done, nb_draining_errors,
                     decoded>>
  BY DEF SendPacket, Received
<1>2. CASE /\ UNCHANGED <<bsf_eof, bsf_pkt, accepted>>
           /\ \E code \in {"EOF", "EINVAL"} : Returns(code)
           /\ draining \/ (p # 0 /\ bsf_eof)
  <2>1. PICK code \in {"EOF", "EINVAL"} : busy' = "none" /\ ret' = [code |-> code, frame |-> 0]
    BY <1>2 DEF Returns, NoFrame
  <2>2. Contents' = Contents
    BY <1>1, <1>2 DEF Contents
  <2>3. DecodeTypeOK'
    BY <1>1, <1>2, <2>1 DEF DecodeTypeOK
  <2>4. DecoderInv'
    BY <1>1, <1>2, <2>1 DEF DecoderInv
  <2>5. ret'.code # "EAGAIN"
    BY <2>1
  <2>6. bsf_eof
    BY <1>2 DEF DecoderInv
  <2> QED BY <1>1, <1>2, <2>1, <2>2, <2>3, <2>4, <2>5, <2>6
<1>3. CASE /\ p = 0 /\ bsf_eof' = TRUE /\ UNCHANGED <<bsf_pkt, accepted>>
           /\ busy' = "send" /\ UNCHANGED ret
  <2>1. Contents' = Contents
    BY <1>1, <1>3 DEF Contents
  <2>2. DecodeTypeOK'
    BY <1>1, <1>3 DEF DecodeTypeOK
  <2>3. DecoderInv'
    BY <1>1, <1>3 DEF DecoderInv
  <2> QED BY <1>1, <1>3, <2>1, <2>2, <2>3
<1>4. CASE /\ p # 0 /\ ~bsf_eof /\ bsf_pkt' = p /\ accepted' = accepted \cup {p} /\ UNCHANGED bsf_eof
           /\ busy' = "send" /\ UNCHANGED ret
  <2>1. Contents' \subseteq Contents \cup {p}
    BY <1>1, <1>4 DEF Contents
  <2>2. DecodeTypeOK'
    BY <1>1, <1>4 DEF DecodeTypeOK
  <2>3. DecoderInv'
    BY <1>1, <1>4 DEF DecoderInv
  <2> QED BY <1>1, <1>4, <2>1, <2>2, <2>3
<1> QED BY <1>1, <1>2, <1>3, <1>4 DEF SendPacket, NoFrame, bsf

LEMMA ReceiveKeeps ==
  ASSUME DecodeTypeOK, DecoderInv, ReceiveFrame
  PROVE  /\ DecodeTypeOK' /\ DecoderInv' /\ Contents' \subseteq Contents \cup {0}
         /\ busy' \in {"none", "receive"}
         /\ busy' = "none" => ret'.code = "frame" /\ ret'.frame \in Contents /\ ret'.frame > 0
         /\ UNCHANGED <<bsf_eof, bsf_pkt, in_pkt, decoded>>
<1>1. UNCHANGED <<bsf_eof, bsf_pkt, in_pkt, parts, held, draining, draining_done, nb_draining_errors,
                  accepted, decoded>>
  BY DEF ReceiveFrame, bsf
<1>2. CASE buffer_frame # 0
  <2>1. ret' = [code |-> "frame", frame |-> buffer_frame] /\ busy' = "none" /\ buffer_frame' = 0
    BY <1>2 DEF ReceiveFrame, ReturnsFrame, NoFrame
  <2>2. DecodeTypeOK'
    BY <1>1, <2>1 DEF DecodeTypeOK
  <2>3. DecoderInv'
    BY <1>1, <2>1 DEF DecoderInv
  <2>4. Contents' \subseteq Contents \cup {0} /\ buffer_frame \in Contents
    BY <1>1, <2>1 DEF Contents
  <2>5. buffer_frame > 0
    BY <1>2 DEF DecodeTypeOK
  <2> QED BY <1>1, <2>1, <2>2, <2>3, <2>4, <2>5
<1>3. CASE buffer_frame = 0
  <2>1. busy' = "receive" /\ buffer_frame' = 0 /\ ret' = ret
    BY <1>3 DEF ReceiveFrame, NoFrame
  <2>2. DecodeTypeOK'
    BY <1>1, <2>1 DEF DecodeTypeOK
  <2>3. DecoderInv'
    BY <1>1, <2>1 DEF DecoderInv
  <2>4. Contents' = Contents
    BY <1>1, <1>3, <2>1 DEF Contents
  <2> QED BY <1>1, <2>1, <2>2, <2>3, <2>4
<1> QED BY <1>2, <1>3

-----------------------------------------------------------------------------
(* The queue of packets.                                                   *)
LEMMA QueueLists ==
  ASSUME QueueTypeOK
  PROVE  /\ Len(packets) \in Nat
         /\ \A i \in 1 .. Len(packets) : Kinds[i] \in Int /\ Serials[i] \in Nat \ {0}
  BY DEF QueueTypeOK, Kinds, Serials

LEMMA QueueStays ==
  ASSUME packets' = packets PROVE Kinds' = Kinds /\ Serials' = Serials /\ Len(packets') = Len(packets)
  BY DEF Kinds, Serials

LEMMA BeforeStays ==
  ASSUME packets' = packets, pkt_serial' = pkt_serial PROVE Before' = Before
  BY QueueStays DEF Before

LEMMA NoPackets ==
  ASSUME packets' = <<>>
  PROVE  Len(packets') = 0 /\ packets' \in Seq(Int \X (Nat \ {0}))
  OBVIOUS

LEMMA QueueGrows ==
  ASSUME QueueTypeOK, NEW p \in Int, ~q_abort, Put(p)
  PROVE  /\ serial' = IF p = FLUSH THEN serial + 1 ELSE serial
         /\ packets' \in Seq(Int \X (Nat \ {0})) /\ Len(packets') = Len(packets) + 1
         /\ \A i \in 1 .. Len(packets) : Kinds'[i] = Kinds[i] /\ Serials'[i] = Serials[i]
         /\ Kinds'[Len(packets) + 1] = p /\ Serials'[Len(packets) + 1] = serial'
<1>1. /\ serial' = IF p = FLUSH THEN serial + 1 ELSE serial
      /\ packets' = Append(packets, <<p, serial'>>)
      /\ packets \in Seq(Int \X (Nat \ {0})) /\ serial' \in Nat \ {0}
  BY DEF Put, QueueTypeOK
<1>2. PICK new \in Int \X (Nat \ {0}) : new = <<p, serial'>> /\ new[1] = p /\ new[2] = serial'
  <2>1. PICK n \in Nat \ {0} : n = serial'
    BY <1>1
  <2>2. <<p, n>> \in Int \X (Nat \ {0}) /\ <<p, n>>[1] = p /\ <<p, n>>[2] = n
    OBVIOUS
  <2> QED BY <2>1, <2>2
<1>3. /\ packets' \in Seq(Int \X (Nat \ {0})) /\ Len(packets') = Len(packets) + 1
      /\ packets'[Len(packets) + 1] = new
      /\ \A i \in 1 .. Len(packets) : packets'[i] = packets[i]
  BY <1>1, <1>2
<1>4. Len(packets) \in Nat
  BY <1>1
<1> QED BY <1>1, <1>2, <1>3, <1>4 DEF Kinds, Serials

LEMMA QueueShrinks ==
  ASSUME QueueTypeOK, packets # <<>>, packets' = Tail(packets)
  PROVE  /\ packets' \in Seq(Int \X (Nat \ {0})) /\ Len(packets') = Len(packets) - 1
         /\ Len(packets) >= 1
         /\ \A i \in 1 .. Len(packets) - 1 : Kinds'[i] = Kinds[i + 1] /\ Serials'[i] = Serials[i + 1]
         /\ Head(packets)[1] = Kinds[1] /\ Head(packets)[2] = Serials[1]
<1>1. packets \in Seq(Int \X (Nat \ {0}))
  BY DEF QueueTypeOK
<1>2. /\ packets' \in Seq(Int \X (Nat \ {0})) /\ Len(packets') = Len(packets) - 1
      /\ Len(packets) \in Nat /\ Len(packets) >= 1 /\ Head(packets) = packets[1]
      /\ \A i \in 1 .. Len(packets) - 1 : packets'[i] = packets[i + 1]
  BY <1>1
<1> QED BY <1>2 DEF Kinds, Serials

-----------------------------------------------------------------------------
(* Everything but the picture queue and the end of the player. *)
StreamInv ==
  /\ QueueTypeOK /\ DecodeTypeOK /\ QueueInv /\ ContentsInv /\ ApiInv /\ DecoderInv
  /\ FinishedInv /\ OpenInv /\ EndedInv /\ NothingLost /\ ShownInv

DecoderStays == UNCHANGED <<dpc, pkt, pkt_serial, pending, finished, decodeVars>>

LEMMA DecoderStaysFacts ==
  ASSUME DecoderStays
  PROVE  /\ Contents' = Contents /\ InHand' = InHand /\ Flushing' = Flushing /\ HasFrame' = HasFrame
         /\ EofTaken' = EofTaken /\ NullInHand' = NullInHand
         /\ (DecodeTypeOK => DecodeTypeOK') /\ (DecoderInv => DecoderInv')
         /\ (FinishedInv => FinishedInv')
         /\ UNCHANGED <<dpc, pkt, pkt_serial, pending, finished, bsf_pkt, in_pkt, buffer_frame, busy,
                        ret, decoded, draining>>
<1>1. Contents' = Contents
  BY ContentsStay DEF DecoderStays
<1>2. InHand' = InHand /\ Flushing' = Flushing /\ HasFrame' = HasFrame
  BY DEF DecoderStays, decodeVars, InHand, Flushing, HasFrame
<1>3. EofTaken' = EofTaken /\ NullInHand' = NullInHand
  BY DEF DecoderStays, decodeVars, InHand, Flushing, EofTaken, NullInHand
<1>4. DecodeTypeOK => DecodeTypeOK'
  BY DEF DecoderStays, decodeVars, DecodeTypeOK
<1>5. DecoderInv => DecoderInv'
  BY DEF DecoderStays, decodeVars, DecoderInv
<1>6. FinishedInv => FinishedInv'
  BY <1>2 DEF DecoderStays, FinishedInv
<1>7. UNCHANGED <<dpc, pkt, pkt_serial, pending, finished, bsf_pkt, in_pkt, buffer_frame, busy, ret,
                  decoded, draining>>
  BY DEF DecoderStays, decodeVars
<1> QED BY <1>1, <1>2, <1>3, <1>4, <1>5, <1>6, <1>7

(* A packet in the decoder stays as old as it is while serials grow.       *)
LEMMA ContentsAge ==
  ASSUME ContentsInv, QueueInv, DecoderStays, serial' >= serial, serial \in Nat, serial' \in Nat,
         pkt_serial \in Int, readPkts \in Nat, readPkts' \in Nat, readPkts' >= readPkts,
         \A p \in 1 .. readPkts : put_serial'[p] = put_serial[p], DecodeTypeOK
  PROVE  ContentsInv'
<1>1. /\ Contents' = Contents /\ Contents \subseteq Nat /\ Flushing' = Flushing /\ HasFrame' = HasFrame
      /\ dpc' = dpc /\ pkt_serial' = pkt_serial /\ ret' = ret /\ pkt_serial <= serial
  BY DecoderStaysFacts, ContentsAre DEF QueueInv
<1>2. Stale => Stale'
  BY <1>1 DEF Stale
<1>3. ASSUME NEW p \in Contents, p > 0
      PROVE  /\ p <= readPkts' /\ put_serial'[p] <= pkt_serial
             /\ Flushing => put_serial'[p] < pkt_serial
             /\ Flushing \/ Stale' \/ put_serial'[p] = pkt_serial
  <2>1. p \in 1 .. readPkts
    BY <1>1, <1>3 DEF ContentsInv
  <2> QED BY <1>1, <1>2, <1>3, <2>1 DEF ContentsInv
<1>4. HasFrame => ret.frame > 0 /\ ret.frame <= readPkts' /\ put_serial'[ret.frame] = pkt_serial
  <2>1. ret.frame \in Nat
    BY DEF DecodeTypeOK
  <2>2. HasFrame => ret.frame \in 1 .. readPkts
    BY <2>1 DEF ContentsInv
  <2> QED BY <2>1, <2>2 DEF ContentsInv
<1> QED BY <1>1, <1>3, <1>4 DEF ContentsInv

LEMMA ApiAges ==
  ASSUME ApiInv, DecoderStays, serial' >= serial, serial \in Nat, serial' \in Nat, pkt_serial \in Int,
         pkt_serial <= serial
  PROVE  ApiInv'
<1>1. Stale => Stale'
  BY DecoderStaysFacts DEF Stale
<1> QED BY <1>1, DecoderStaysFacts DEF ApiInv, Received, Answered

(* Steps of the main thread.  Only closing empties the queue. *)
LEMMA MainKeepsStream ==
  ASSUME StreamInv, DecoderStays, UNCHANGED <<rpc, readPkts, put_serial, ended, serial>>,
         packets' = packets \/ (packets' = <<>> /\ rpc = "gone")
  PROVE  StreamInv'
<1>1. /\ QueueTypeOK /\ DecodeTypeOK /\ QueueInv /\ ContentsInv /\ ApiInv /\ DecoderInv
      /\ FinishedInv /\ OpenInv /\ EndedInv /\ NothingLost /\ ShownInv
  BY DEF StreamInv
<1>2. DecodeTypeOK' /\ DecoderInv' /\ FinishedInv'
  BY <1>1, DecoderStaysFacts
<1>3. ContentsInv' /\ ApiInv'
  BY <1>1, ContentsAge, ApiAges DEF QueueTypeOK, QueueInv
<1>4. ShownInv'
  BY <1>1, DecoderStaysFacts DEF ShownInv
<1>5. CASE packets' = packets
  <2>1. Kinds' = Kinds /\ Serials' = Serials /\ Len(packets') = Len(packets)
    BY <1>5, QueueStays
  <2>2. QueueTypeOK'
    BY <1>1, <1>5, DecoderStaysFacts DEF QueueTypeOK
  <2>3. QueueInv'
    BY <1>1, <1>5, <2>1, BeforeStays, DecoderStaysFacts DEF QueueInv
  <2>4. OpenInv' /\ EndedInv'
    BY <1>1, <2>1, DecoderStaysFacts DEF OpenInv, EndedInv
  <2>5. NothingLost'
    BY <1>1, <2>1, DecoderStaysFacts DEF NothingLost, Underway
  <2> QED BY <1>2, <1>3, <1>4, <2>2, <2>3, <2>4, <2>5 DEF StreamInv
<1>6. CASE packets' = <<>> /\ rpc = "gone"
  <2>1. Len(packets') = 0 /\ packets' \in Seq(Int \X (Nat \ {0})) /\ \A i \in 1 .. 0 : FALSE
    BY <1>6, NoPackets
  <2>2. QueueTypeOK'
    BY <1>1, <2>1, DecoderStaysFacts DEF QueueTypeOK
  <2>3. QueueInv'
    BY <1>1, <1>6, <2>1, DecoderStaysFacts DEF QueueInv
  <2>4. OpenInv' /\ EndedInv'
    BY <1>1, <2>1, DecoderStaysFacts DEF OpenInv, EndedInv
  <2>5. NothingLost'
    BY <1>6 DEF NothingLost
  <2> QED BY <1>2, <1>3, <1>4, <2>2, <2>3, <2>4, <2>5 DEF StreamInv
<1> QED BY <1>5, <1>6

-----------------------------------------------------------------------------
(* The read thread.                                                        *)
LEMMA StreamParts ==
  ASSUME StreamInv
  PROVE  /\ QueueTypeOK /\ DecodeTypeOK /\ QueueInv /\ ContentsInv /\ ApiInv /\ DecoderInv
         /\ FinishedInv /\ OpenInv /\ EndedInv /\ NothingLost /\ ShownInv
         /\ serial \in Nat \ {0} /\ readPkts \in Nat /\ pkt_serial \in Int /\ pkt_serial <= serial
         /\ Len(packets) \in Nat /\ finished \in Int
         /\ \A i \in 1 .. Len(packets) : Kinds[i] \in Int /\ Serials[i] \in Nat \ {0}
         /\ \A p \in 1 .. readPkts : put_serial[p] \in Nat /\ put_serial[p] <= serial
         /\ finished = serial => pkt_serial = serial
<1>1. QueueTypeOK /\ QueueInv /\ FinishedInv
  BY DEF StreamInv
<1>2. \A p \in 1 .. readPkts : put_serial[p] \in Nat
  BY <1>1 DEF QueueTypeOK
<1>3. finished = serial => pkt_serial = serial
  BY <1>1 DEF QueueTypeOK, QueueInv, FinishedInv
<1> QED BY <1>1, <1>2, <1>3, QueueLists DEF StreamInv, QueueTypeOK, QueueInv

LEMMA StreamNumbers ==
  ASSUME StreamInv
  PROVE  serial \in Nat \ {0} /\ readPkts \in Nat /\ pkt_serial \in Int /\ Len(packets) \in Nat
  BY StreamParts

(* A step that leaves the queue alone. *)
LEMMA ReaderMoves ==
  ASSUME StreamInv, DecoderStays, UNCHANGED <<readPkts, put_serial, ended, serial, packets>>,
         rpc \notin {"seek", "gone"}, rpc' \in {"top", "check", "read", "gone"}
  PROVE  StreamInv'
<1>1. Kinds' = Kinds /\ Serials' = Serials /\ Len(packets') = Len(packets)
  BY QueueStays
<1>2. QueueTypeOK'
  BY StreamParts, DecoderStaysFacts DEF QueueTypeOK
<1>3. QueueInv'
  BY StreamParts, <1>1, BeforeStays, DecoderStaysFacts DEF QueueInv
<1>4. DecodeTypeOK' /\ DecoderInv' /\ FinishedInv'
  BY StreamParts, DecoderStaysFacts
<1>5. ContentsInv' /\ ApiInv'
  BY StreamParts, ContentsAge, ApiAges
<1>6. OpenInv' /\ EndedInv'
  BY StreamParts, <1>1, DecoderStaysFacts DEF OpenInv, EndedInv
<1>7. NothingLost'
  BY StreamParts, <1>1, DecoderStaysFacts DEF NothingLost, Underway
<1>8. ShownInv'
  BY StreamParts, DecoderStaysFacts DEF ShownInv
<1> QED BY <1>2, <1>3, <1>4, <1>5, <1>6, <1>7, <1>8 DEF StreamInv

(* A seek empties the queue, ... *)
LEMMA SeekBegins ==
  ASSUME StreamInv, DecoderStays, UNCHANGED <<readPkts, put_serial, ended, serial>>,
         packets' = <<>>, rpc' = "seek"
  PROVE  StreamInv'
<1>1. Len(packets') = 0 /\ packets' \in Seq(Int \X (Nat \ {0})) /\ \A i \in 1 .. 0 : FALSE
  BY NoPackets
<1>2. QueueTypeOK'
  BY StreamParts, <1>1, DecoderStaysFacts DEF QueueTypeOK
<1>3. QueueInv'
  BY StreamParts, <1>1, DecoderStaysFacts DEF QueueInv
<1>4. DecodeTypeOK' /\ DecoderInv' /\ FinishedInv'
  BY StreamParts, DecoderStaysFacts
<1>5. ContentsInv' /\ ApiInv'
  BY StreamParts, ContentsAge, ApiAges
<1>6. OpenInv' /\ EndedInv'
  BY StreamParts, <1>1, DecoderStaysFacts DEF OpenInv, EndedInv
<1>7. NothingLost'
  BY DEF NothingLost
<1>8. ShownInv'
  BY StreamParts, DecoderStaysFacts DEF ShownInv
<1> QED BY <1>2, <1>3, <1>4, <1>5, <1>6, <1>7, <1>8 DEF StreamInv

(* ... and starts a new serial, older than everything that there is. *)
LEMMA SeekEnds ==
  ASSUME StreamInv, DecoderStays, UNCHANGED <<readPkts, put_serial>>, ~q_abort,
         Put(FLUSH), rpc = "seek", rpc' = "check", ended' = "open"
  PROVE  StreamInv'
<1>1. /\ Len(packets) = 0 /\ serial' = serial + 1 /\ packets' \in Seq(Int \X (Nat \ {0}))
      /\ Len(packets') = 1 /\ Kinds'[1] = FLUSH /\ Serials'[1] = serial'
  <2>1. Len(packets) = 0 /\ FLUSH \in Int
    BY StreamParts DEF QueueInv, FLUSH
  <2> QED BY <2>1, StreamParts, QueueGrows
<1>2. serial' \in Nat \ {0} /\ pkt_serial < serial' /\ finished < serial'
      /\ \A p \in 1 .. readPkts : put_serial[p] < serial'
  <2>1. finished <= serial
    BY StreamParts DEF FinishedInv
  <2> QED BY <1>1, <2>1, StreamParts
<1>3. QueueTypeOK'
  BY StreamParts, <1>1, <1>2, DecoderStaysFacts DEF QueueTypeOK
<1>4. QueueInv'
  <2>1. ASSUME NEW i \in 1 .. Len(packets')
        PROVE  i = 1 /\ Kinds'[i] = FLUSH /\ Serials'[i] = serial' /\ Before'[i] = pkt_serial
    BY <1>1, DecoderStaysFacts DEF Before
  <2>2. Before'[2] = serial'
    BY <1>1 DEF Before
  <2>3. pkt' = pkt /\ pkt_serial' = pkt_serial /\ FLUSH = -1
    BY DecoderStaysFacts DEF FLUSH
  <2>4. pkt > 0 => pkt <= readPkts /\ put_serial[pkt] = pkt_serial
    BY StreamParts DEF QueueInv
  <2>5. Len(packets') + 1 = 2 /\ rpc' = "check"
    BY <1>1
  <2>6. ASSUME NEW i \in 1 .. Len(packets')
        PROVE  /\ Kinds'[i] = FLUSH => Serials'[i] > Before'[i]
               /\ Kinds'[i] # FLUSH => Kinds'[i] >= 0 /\ Serials'[i] = Before'[i]
               /\ Kinds'[i] > 0 => Kinds'[i] <= readPkts' /\ put_serial'[Kinds'[i]] = Serials'[i]
               /\ Serials'[i] <= serial'
    BY <1>2, <2>1, <2>3, StreamNumbers
  <2>7. pkt_serial' <= serial' /\ \A p \in 1 .. readPkts' : put_serial'[p] <= serial'
    BY <1>2, <2>3, StreamParts
  <2> QED BY <2>2, <2>3, <2>4, <2>5, <2>6, <2>7 DEF QueueInv
<1>5. DecodeTypeOK' /\ DecoderInv' /\ FinishedInv'
  BY StreamParts, DecoderStaysFacts
<1>6. ContentsInv' /\ ApiInv'
  BY StreamParts, <1>1, <1>2, ContentsAge, ApiAges
<1>7. OpenInv'
  BY <1>1, <1>2, DecoderStaysFacts DEF OpenInv, FLUSH
<1>8. EndedInv' /\ ShownInv'
  BY DEF EndedInv, ShownInv
<1>9. NothingLost'
  BY <1>2 DEF NothingLost
<1> QED BY <1>3, <1>4, <1>5, <1>6, <1>7, <1>8, <1>9 DEF StreamInv

(* What appending a packet or a null packet does to the queue. *)
LEMMA QueueAppends ==
  ASSUME StreamInv, DecoderStays, ~q_abort, NEW p \in Nat, Put(p), rpc = "read", rpc' = "top",
         readPkts' \in Nat, readPkts' >= readPkts, put_serial' \in Seq(Nat),
         Len(put_serial') = readPkts', ended' \in {"open", "ended", "grown"},
         \A q \in 1 .. readPkts : put_serial'[q] = put_serial[q],
         \A q \in 1 .. readPkts' : put_serial'[q] <= serial,
         p > 0 => p <= readPkts' /\ put_serial'[p] = serial
  PROVE  /\ QueueTypeOK' /\ QueueInv' /\ ContentsInv' /\ ApiInv' /\ serial' = serial
         /\ DecodeTypeOK' /\ DecoderInv' /\ FinishedInv'
         /\ Len(packets') = Len(packets) + 1
         /\ \A i \in 1 .. Len(packets) : Kinds'[i] = Kinds[i] /\ Serials'[i] = Serials[i]
         /\ Kinds'[Len(packets) + 1] = p /\ Serials'[Len(packets) + 1] = serial
<1>1. /\ serial' = serial /\ packets' \in Seq(Int \X (Nat \ {0})) /\ Len(packets') = Len(packets) + 1
      /\ \A i \in 1 .. Len(packets) : Kinds'[i] = Kinds[i] /\ Serials'[i] = Serials[i]
      /\ Kinds'[Len(packets) + 1] = p /\ Serials'[Len(packets) + 1] = serial
  <2>1. p \in Int /\ p # FLUSH
    BY DEF FLUSH
  <2> QED BY <2>1, StreamParts, QueueGrows
<1>2. QueueTypeOK'
  BY StreamParts, <1>1, DecoderStaysFacts DEF QueueTypeOK
<1>3. QueueInv'
  <2>1. pkt' = pkt /\ pkt_serial' = pkt_serial /\ FLUSH = -1 /\ Len(packets) \in Nat
    BY StreamParts, DecoderStaysFacts DEF FLUSH
  <2>2. \A i \in 1 .. Len(packets) + 1 : Before'[i] = Before[i]
    BY <1>1, <2>1 DEF Before
  <2>3. Before[Len(packets) + 1] = serial
    BY StreamParts DEF QueueInv
  <2>4. ASSUME NEW i \in 1 .. Len(packets) + 1
        PROVE  /\ Kinds'[i] = FLUSH => Serials'[i] > Before'[i]
               /\ Kinds'[i] # FLUSH => Kinds'[i] >= 0 /\ Serials'[i] = Before'[i]
               /\ Kinds'[i] > 0 => Kinds'[i] <= readPkts' /\ put_serial'[Kinds'[i]] = Serials'[i]
               /\ Serials'[i] <= serial
    <3>1. CASE i = Len(packets) + 1
      <4>1. Kinds'[i] = p /\ Serials'[i] = serial /\ Before'[i] = serial
        BY <1>1, <2>2, <2>3, <3>1
      <4> QED BY <2>1, <4>1, StreamNumbers
    <3>2. CASE i \in 1 .. Len(packets)
      <4>1. Kinds[i] \in Int /\ Kinds'[i] = Kinds[i] /\ Serials'[i] = Serials[i] /\ Before'[i] = Before[i]
        BY <1>1, <2>2, <3>2, StreamParts
      <4>2. /\ Kinds[i] = FLUSH => Serials[i] > Before[i]
            /\ Kinds[i] # FLUSH => Kinds[i] >= 0 /\ Serials[i] = Before[i]
            /\ Kinds[i] > 0 => Kinds[i] <= readPkts /\ put_serial[Kinds[i]] = Serials[i]
            /\ Serials[i] <= serial
        BY <3>2, StreamParts DEF QueueInv
      <4>3. Kinds[i] > 0 => Kinds[i] \in 1 .. readPkts
        BY <4>1, <4>2, StreamParts
      <4>4. Kinds[i] > 0 => put_serial'[Kinds[i]] = put_serial[Kinds[i]]
        BY <4>3
      <4> QED BY <4>1, <4>2, <4>4, StreamNumbers
    <3> QED BY <2>1, <3>1, <3>2
  <2>5. pkt > 0 => pkt <= readPkts' /\ put_serial'[pkt] = pkt_serial
    <3>1. pkt \in Nat \cup {FLUSH} /\ (pkt > 0 => pkt <= readPkts /\ put_serial[pkt] = pkt_serial)
      BY StreamParts DEF QueueTypeOK, QueueInv
    <3>2. pkt > 0 => pkt \in 1 .. readPkts
      BY <2>1, <3>1, StreamParts
    <3> QED BY <3>1, <3>2, StreamParts
  <2>6. Before'[Len(packets) + 2] = serial
    BY <1>1, <2>1 DEF Before
  <2>7. pkt_serial <= serial
    BY StreamParts
  <2> QED BY <1>1, <2>1, <2>4, <2>5, <2>6, <2>7 DEF QueueInv
<1>4. ContentsInv' /\ ApiInv'
  <2>1. /\ ContentsInv /\ ApiInv /\ QueueInv /\ DecodeTypeOK /\ pkt_serial <= serial
        /\ serial' >= serial /\ serial \in Nat /\ serial' \in Nat
    BY StreamParts, <1>1
  <2> QED BY <2>1, StreamNumbers, ContentsAge, ApiAges
<1> QED BY <1>1, <1>2, <1>3, <1>4, StreamParts, DecoderStaysFacts

LEMMA PacketRead ==
  ASSUME StreamInv, DecoderStays, ~q_abort, Put(readPkts + 1), readPkts' = readPkts + 1,
         put_serial' = Append(put_serial, serial), rpc = "read", rpc' = "top",
         ended' = IF ended = "open" THEN "open" ELSE "grown"
  PROVE  StreamInv'
<1>1. PICK p \in Nat : p = readPkts + 1 /\ p > 0
  BY StreamParts
<1>2. /\ put_serial' \in Seq(Nat) /\ Len(put_serial') = p /\ put_serial'[p] = serial
      /\ \A q \in 1 .. readPkts : put_serial'[q] = put_serial[q]
  <2>1. put_serial \in Seq(Nat) /\ Len(put_serial) = readPkts /\ serial \in Nat
    BY StreamParts DEF QueueTypeOK
  <2> QED BY <1>1, <2>1
<1>3. \A q \in 1 .. p : q = p \/ q \in 1 .. readPkts
  BY <1>1, StreamParts
<1>4. \A q \in 1 .. p : put_serial'[q] <= serial
  BY <1>2, <1>3, StreamParts
<1>5. /\ QueueTypeOK' /\ QueueInv' /\ ContentsInv' /\ ApiInv' /\ serial' = serial
      /\ DecodeTypeOK' /\ DecoderInv' /\ FinishedInv'
      /\ Len(packets') = Len(packets) + 1
      /\ \A i \in 1 .. Len(packets) : Kinds'[i] = Kinds[i] /\ Serials'[i] = Serials[i]
      /\ Kinds'[Len(packets) + 1] = p /\ Serials'[Len(packets) + 1] = serial
  <2>1. Put(p) /\ readPkts' = p /\ p >= readPkts /\ ended' \in {"open", "ended", "grown"}
    BY <1>1, StreamParts
  <2>2. /\ readPkts' \in Nat /\ put_serial' \in Seq(Nat) /\ Len(put_serial') = readPkts'
        /\ \A q \in 1 .. readPkts' : put_serial'[q] <= serial
        /\ p <= readPkts' /\ put_serial'[p] = serial
    BY <1>1, <1>2, <1>4, <2>1
  <2> QED BY <1>1, <1>2, <2>1, <2>2, QueueAppends
<1>6. \A i \in 1 .. Len(packets) + 1 : i = Len(packets) + 1 \/ i \in 1 .. Len(packets)
  BY StreamNumbers
<1>7. OpenInv'
  <2>1. CASE ended = "open"
    <3>1. /\ \A i \in 1 .. Len(packets) : Kinds[i] = 0 => Serials[i] # serial
          /\ pkt_serial = serial => ~EofTaken /\ ~NullInHand
      BY <2>1, StreamParts DEF OpenInv
    <3>2. \A i \in 1 .. Len(packets') : Kinds'[i] = 0 => Serials'[i] # serial
      BY <1>1, <1>5, <1>6, <3>1
    <3> QED BY <1>5, <3>1, <3>2, DecoderStaysFacts DEF OpenInv
  <2> QED BY <2>1 DEF OpenInv
<1>8. EndedInv' /\ ShownInv'
  BY DEF EndedInv, ShownInv
<1>9. NothingLost'
  <2> SUFFICES ASSUME ended' # "grown", NEW q \in 1 .. p, put_serial'[q] = serial PROVE Underway(q)'
    BY <1>1, <1>5 DEF NothingLost
  <2>1. CASE q = p
    <3>1. Len(packets') \in 1 .. Len(packets') /\ Kinds'[Len(packets')] = p
      BY <1>5, StreamNumbers
    <3> QED BY <2>1, <3>1 DEF Underway
  <2>2. CASE q \in 1 .. readPkts
    <3>1. Underway(q)
      BY <1>2, <2>2, StreamParts DEF NothingLost
    <3>2. \A i \in 1 .. Len(packets) : i \in 1 .. Len(packets') /\ Kinds'[i] = Kinds[i]
      BY <1>5, StreamNumbers
    <3> QED BY <3>1, <3>2, DecoderStaysFacts DEF Underway
  <2> QED BY <1>3, <2>1, <2>2
<1> QED BY <1>5, <1>7, <1>8, <1>9 DEF StreamInv

LEMMA EndRead ==
  ASSUME StreamInv, DecoderStays, ~q_abort, Put(0), UNCHANGED <<readPkts, put_serial>>,
         rpc = "read", rpc' = "top", ended' = IF ended = "open" THEN "ended" ELSE ended
  PROVE  StreamInv'
<1>1. /\ QueueTypeOK' /\ QueueInv' /\ ContentsInv' /\ ApiInv' /\ serial' = serial
      /\ DecodeTypeOK' /\ DecoderInv' /\ FinishedInv'
      /\ Len(packets') = Len(packets) + 1
      /\ \A i \in 1 .. Len(packets) : Kinds'[i] = Kinds[i] /\ Serials'[i] = Serials[i]
      /\ Kinds'[Len(packets) + 1] = 0 /\ Serials'[Len(packets) + 1] = serial
  <2>1. ended' \in {"open", "ended", "grown"} /\ put_serial' \in Seq(Nat) /\ Len(put_serial') = readPkts
    BY StreamParts DEF QueueTypeOK
  <2> QED BY <2>1, StreamParts, QueueAppends
<1>2. \A i \in 1 .. Len(packets) + 1 : i = Len(packets) + 1 \/ i \in 1 .. Len(packets)
  BY StreamParts
<1>3. OpenInv'
  BY DEF OpenInv
<1>4. ASSUME ended = "open" PROVE EndedInv' /\ ShownInv'
  <2>1. \A i \in 1 .. Len(packets) : Kinds[i] = 0 => Serials[i] # serial
    BY <1>4, StreamParts DEF OpenInv
  <2>2. pkt_serial = serial => ~EofTaken /\ ~NullInHand
    BY <1>4, StreamParts DEF OpenInv
  <2>3. EndedInv'
    <3>1. ASSUME NEW i \in 1 .. Len(packets) + 1, Kinds'[i] = 0, Serials'[i] = serial,
                 NEW j \in i .. Len(packets) + 1
          PROVE  Kinds'[j] <= 0
      <4>1. i = Len(packets) + 1
        BY <1>1, <1>2, <2>1, <3>1
      <4>2. j = Len(packets) + 1
        BY <4>1, StreamNumbers
      <4> QED BY <1>1, <4>2
    <3> QED BY <1>1, <2>2, <3>1, DecoderStaysFacts DEF EndedInv
  <2>4. finished # serial
    BY <2>2, StreamParts DEF EofTaken
  <2>5. ShownInv'
    BY <1>1, <2>4, DecoderStaysFacts DEF ShownInv
  <2> QED BY <2>3, <2>5
<1>5. ASSUME ended = "ended" PROVE EndedInv' /\ ShownInv'
  <2>1. EndedInv'
    <3>1. ASSUME NEW i \in 1 .. Len(packets) + 1, Kinds'[i] = 0, Serials'[i] = serial,
                 NEW j \in i .. Len(packets) + 1
          PROVE  Kinds'[j] <= 0
      <4>1. j = Len(packets) + 1 \/ (i \in 1 .. Len(packets) /\ j \in i .. Len(packets) /\ j \in 1 .. Len(packets))
        BY <1>2, StreamParts
      <4> QED BY <1>1, <1>5, <3>1, <4>1, StreamParts DEF EndedInv
    <3>2. ASSUME pkt_serial = serial, EofTaken \/ NullInHand, NEW j \in 1 .. Len(packets) + 1
          PROVE  Kinds'[j] <= 0
      BY <1>1, <1>2, <1>5, <3>2, StreamParts DEF EndedInv
    <3>3. pkt_serial = serial /\ EofTaken => ~(InHand /\ pkt > 0)
      BY <1>5, StreamParts DEF EndedInv
    <3> QED BY <1>1, <3>1, <3>2, <3>3, DecoderStaysFacts DEF EndedInv
  <2>2. ShownInv'
    BY <1>1, <1>5, StreamParts, DecoderStaysFacts DEF ShownInv
  <2> QED BY <2>1, <2>2
<1>6. ASSUME ended = "grown" PROVE EndedInv' /\ ShownInv'
  BY <1>6 DEF EndedInv, ShownInv
<1>7. NothingLost'
  <2> SUFFICES ASSUME ended # "grown", NEW q \in 1 .. readPkts, put_serial[q] = serial PROVE Underway(q)'
    BY <1>1 DEF NothingLost
  <2>1. Underway(q)
    BY StreamParts DEF NothingLost
  <2>2. \A i \in 1 .. Len(packets) : i \in 1 .. Len(packets') /\ Kinds'[i] = Kinds[i]
    BY <1>1, StreamNumbers
  <2> QED BY <2>1, <2>2, DecoderStaysFacts DEF Underway
<1>8. ended \in {"open", "ended", "grown"}
  BY StreamParts DEF QueueTypeOK
<1> QED BY <1>1, <1>3, <1>4, <1>5, <1>6, <1>7, <1>8 DEF StreamInv

LEMMA ReaderKeepsStream ==
  ASSUME StreamInv, CloseInv, ReadStep PROVE StreamInv'
<1>1. DecoderStays /\ (rpc # "gone" => ~q_abort)
  BY DEF ReadStep, ReadTop, ReadSeek, ReadCheck, ReadPacket, decoder, DecoderStays, CloseInv
<1>2. CASE ReadTop
  <2>1. \/ packets' = packets /\ rpc = "top" /\ rpc' \in {"check", "gone"}
        \/ packets' = <<>> /\ rpc' = "seek"
    BY <1>2 DEF ReadTop
  <2>2. UNCHANGED <<readPkts, put_serial, ended, serial>>
    BY <1>2 DEF ReadTop, history
  <2> QED BY <1>1, <2>1, <2>2, ReaderMoves, SeekBegins
<1>3. CASE ReadSeek
  BY <1>1, <1>3, SeekEnds DEF ReadSeek
<1>4. CASE ReadCheck
  BY <1>1, <1>4, ReaderMoves DEF ReadCheck, queue, history
<1>5. CASE ReadPacket
  <2>1. rpc = "read" /\ ~q_abort
    BY <1>1, <1>5 DEF ReadPacket
  <2>2. CASE /\ readPkts' = readPkts + 1 /\ Put(readPkts + 1) /\ put_serial' = Append(put_serial, serial)
             /\ ended' = (IF ended = "open" THEN "open" ELSE "grown") /\ rpc' = "top"
    BY <1>1, <2>1, <2>2, PacketRead
  <2>3. CASE /\ Put(0) /\ ended' = (IF ended = "open" THEN "ended" ELSE ended)
             /\ rpc' = "top" /\ UNCHANGED <<readPkts, put_serial>>
    BY <1>1, <2>1, <2>3, EndRead
  <2>4. CASE rpc' \in {"top", "gone"} /\ UNCHANGED <<readPkts, put_serial, ended, serial, packets>>
    BY <1>1, <2>1, <2>4, ReaderMoves
  <2> QED BY <1>5, <2>2, <2>3, <2>4 DEF ReadPacket, queue, history
<1> QED BY <1>2, <1>3, <1>4, <1>5 DEF ReadStep

-----------------------------------------------------------------------------
(* The decoder thread.                                                     *)
ReaderStays == UNCHANGED <<rpc, readPkts, put_serial, ended, serial>>

LEMMA QueuePartStays ==
  ASSUME StreamInv, ReaderStays, UNCHANGED <<packets, pkt, pkt_serial>>, finished' \in Int,
         dpc' \in {"top", "receive", "received", "get", "compare", "send", "sent", "writable",
                   "fill", "push", "gone"}
  PROVE  /\ QueueTypeOK' /\ QueueInv'
         /\ Kinds' = Kinds /\ Serials' = Serials /\ Len(packets') = Len(packets)
<1>1. QueueTypeOK'
  BY StreamParts DEF QueueTypeOK, ReaderStays
<1>2. QueueInv'
  BY StreamParts, QueueStays, BeforeStays DEF QueueInv, ReaderStays
<1> QED BY <1>1, <1>2, QueueStays

(* A step that only moves on, with no packet in hand. *)
LEMMA DecoderMoves ==
  ASSUME StreamInv, ReaderStays,
         UNCHANGED <<packets, pkt, pkt_serial, pending, finished, decodeVars>>, busy = "none",
         ~InHand, dpc' \in {"top", "receive", "get", "writable", "fill", "push", "gone"},
         dpc' \in {"writable", "fill", "push"} => HasFrame \/ dpc' = dpc,
         dpc' = "get" => Stale' \/ Received,
         Stale => Stale'
  PROVE  StreamInv'
<1>1. /\ Kinds' = Kinds /\ Serials' = Serials /\ Len(packets') = Len(packets)
      /\ QueueTypeOK' /\ QueueInv'
  BY StreamParts, QueuePartStays
<1>2. /\ ~InHand' /\ ~Flushing /\ ~Flushing' /\ ~NullInHand /\ ~NullInHand' /\ EofTaken' = EofTaken
      /\ (HasFrame' => HasFrame) /\ (dpc' = "push" => HasFrame \/ dpc = "push")
  BY DEF InHand, Flushing, NullInHand, EofTaken, HasFrame, decodeVars
<1>3. Contents' = Contents
  BY ContentsStay
<1>4. DecodeTypeOK' /\ DecoderInv'
  BY StreamParts DEF DecodeTypeOK, DecoderInv, decodeVars
<1>5. ret' = ret /\ busy' = busy /\ bsf_pkt' = bsf_pkt /\ in_pkt' = in_pkt
      /\ buffer_frame' = buffer_frame /\ decoded' = decoded
  BY DEF decodeVars
<1>6. ContentsInv'
  BY StreamParts, <1>2, <1>3, <1>5 DEF ContentsInv, ReaderStays
<1>7. ApiInv'
  BY StreamParts, <1>5 DEF ApiInv, Received, Answered
<1>8. FinishedInv'
  BY StreamParts, <1>2 DEF FinishedInv
<1>9. OpenInv' /\ EndedInv'
  BY StreamParts, <1>1, <1>2 DEF OpenInv, EndedInv, ReaderStays
<1>10. NothingLost'
  BY StreamParts, <1>1, <1>2, <1>5 DEF NothingLost, Underway, ReaderStays
<1>11. ShownInv'
  BY StreamParts, <1>2, <1>3 DEF ShownInv, ReaderStays
<1> QED BY <1>1, <1>4, <1>6, <1>7, <1>8, <1>9, <1>10, <1>11 DEF StreamInv

LEMMA TopKeeps ==
  ASSUME StreamInv, DecodeTop PROVE StreamInv'
<1>1. /\ dpc = "top" /\ dpc' = (IF serial = pkt_serial THEN "receive" ELSE "get") /\ ReaderStays
      /\ UNCHANGED <<packets, pkt, pkt_serial, pending, finished, decodeVars>>
  BY DEF DecodeTop, DGoto, ReaderStays, others, readVars, history, queue, decoderLocals
<1>2. busy = "none"
  BY <1>1, StreamParts DEF ApiInv, DecodeTypeOK
<1>3. ~InHand /\ (dpc' = "get" => Stale') /\ (Stale => Stale')
  BY <1>1 DEF InHand, Stale, ReaderStays
<1> QED BY <1>1, <1>2, <1>3, DecoderMoves

(* What is in the decoder between two flushes is of the serial in hand. *)
LEMMA ContentsHold ==
  ASSUME UNCHANGED <<readPkts, put_serial, pkt_serial>>, pkt_serial \in Int, ~Flushing',
         \A p \in Contents' : p > 0 => p <= readPkts /\ put_serial[p] = pkt_serial,
         HasFrame' => ret'.frame > 0 /\ ret'.frame <= readPkts /\ put_serial[ret'.frame] = pkt_serial
  PROVE  ContentsInv'
<1>1. ASSUME NEW p \in Contents', p > 0
      PROVE  /\ p <= readPkts' /\ put_serial'[p] <= pkt_serial'
             /\ Flushing' => put_serial'[p] < pkt_serial'
             /\ Flushing' \/ Stale' \/ put_serial'[p] = pkt_serial'
  <2>1. p <= readPkts /\ put_serial[p] = pkt_serial
    BY <1>1
  <2> QED BY <2>1
<1> QED BY <1>1 DEF ContentsInv

LEMMA NothingStays ==
  ASSUME Contents = {0}, Contents' \subseteq Contents \cup {0} PROVE Contents' = {0}
<1>1. bsf_pkt' \in Contents'
  BY DEF Contents
<1> QED BY <1>1

LEMMA ReceiveStepKeeps ==
  ASSUME StreamInv, DecodeReceive PROVE StreamInv'
<1>1. dpc = "receive" /\ ReaderStays /\ UNCHANGED <<packets, pkt, pkt_serial, pending, finished>>
  BY DEF DecodeReceive, ReaderStays, others, readVars, history, queue, decoderLocals
<1>2. CASE dpc' = "gone" /\ UNCHANGED decodeVars
  <2>1. busy = "none" /\ ~InHand /\ ~Stale
    BY <1>1, StreamParts DEF ApiInv, DecodeTypeOK, InHand, Stale
  <2> QED BY <1>1, <1>2, <2>1, DecoderMoves
<1>3. CASE ReceiveFrame /\ dpc' = "received"
  <2>1. /\ DecodeTypeOK' /\ DecoderInv' /\ Contents' \subseteq Contents \cup {0}
        /\ busy' \in {"none", "receive"}
        /\ busy' = "none" => ret'.code = "frame" /\ ret'.frame \in Contents /\ ret'.frame > 0
        /\ UNCHANGED <<bsf_eof, bsf_pkt, in_pkt, decoded>>
    BY <1>3, StreamParts, ReceiveKeeps
  <2>2. /\ ~InHand /\ ~InHand' /\ ~Flushing /\ ~Flushing' /\ ~Stale /\ ~NullInHand /\ ~NullInHand'
        /\ EofTaken' = EofTaken
    BY <1>1, <1>3, <2>1 DEF InHand, Flushing, Stale, NullInHand, EofTaken
  <2>3. QueueTypeOK' /\ QueueInv' /\ Kinds' = Kinds /\ Serials' = Serials /\ Len(packets') = Len(packets)
    BY <1>1, <1>3, StreamParts, QueuePartStays
  <2>4. \A p \in Contents : p > 0 => p <= readPkts /\ put_serial[p] = pkt_serial
    BY <2>2, StreamParts DEF ContentsInv
  <2>5. ContentsInv'
    <3>1. \A p \in Contents' : p > 0 => p <= readPkts /\ put_serial[p] = pkt_serial
      BY <2>1, <2>4
    <3>2. HasFrame' => ret'.frame \in Contents /\ ret'.frame > 0
      BY <1>3, <2>1 DEF HasFrame
    <3>3. HasFrame' => ret'.frame > 0 /\ ret'.frame <= readPkts /\ put_serial[ret'.frame] = pkt_serial
      BY <2>4, <3>2
    <3>4. UNCHANGED <<readPkts, put_serial, pkt_serial>> /\ ~Flushing'
      BY <1>1, <2>2 DEF ReaderStays
    <3> QED BY <3>1, <3>3, <3>4, StreamNumbers, ContentsHold
  <2>6. ApiInv'
    BY <1>1, <1>3, <2>1, StreamParts DEF ApiInv, Answered
  <2>7. FinishedInv' /\ OpenInv' /\ EndedInv'
    BY <1>1, <2>2, <2>3, StreamParts DEF FinishedInv, OpenInv, EndedInv, ReaderStays
  <2>8. NothingLost'
    BY <1>1, <2>1, <2>2, <2>3, StreamParts DEF NothingLost, Underway, ReaderStays
  <2>9. ShownInv'
    <3>1. ended = "ended" /\ finished = serial => Contents = {0}
      BY StreamParts DEF ShownInv
    <3>2. Contents = {0} => Contents' = {0} /\ busy' # "none"
      BY <2>1, NothingStays
    <3>3. HasFrame' => busy' = "none"
      BY <1>3 DEF HasFrame
    <3> QED BY <1>1, <1>3, <3>1, <3>2, <3>3 DEF ShownInv, ReaderStays
  <2> QED BY <2>1, <2>3, <2>5, <2>6, <2>7, <2>8, <2>9 DEF StreamInv
<1> QED BY <1>2, <1>3 DEF DecodeReceive, DGoto

LEMMA WorkKeeps ==
  ASSUME StreamInv, DecodeWork PROVE StreamInv'
<1>1. /\ dpc \in {"received", "sent"} /\ dpc' = dpc /\ ReaderStays /\ DecodeLoop
      /\ UNCHANGED <<packets, pkt, pkt_serial, pending, finished>>
  BY DEF DecodeWork, ReaderStays, others, readVars, history, queue, decoderLocals
<1>2. LoopOK
  BY <1>1, StreamParts, LoopKeeps
<1>3. busy # "none"
  BY <1>1 DEF DecodeLoop, FetchPacket, NoMoreFrames, DecodePacket, Drain
<1>4. /\ ~InHand /\ ~InHand' /\ ~Flushing /\ ~Flushing' /\ ~Stale /\ ~NullInHand /\ ~NullInHand'
      /\ EofTaken' = EofTaken
  BY <1>1, <1>2 DEF InHand, Flushing, Stale, NullInHand, EofTaken, LoopOK
<1>5. QueueTypeOK' /\ QueueInv' /\ Kinds' = Kinds /\ Serials' = Serials /\ Len(packets') = Len(packets)
  BY <1>1, StreamParts, QueuePartStays
<1>6. \A p \in Contents : p > 0 => p <= readPkts /\ put_serial[p] = pkt_serial
  BY <1>4, StreamParts DEF ContentsInv
<1>7. ContentsInv'
  <2>1. \A p \in Contents' : p > 0 => p <= readPkts /\ put_serial[p] = pkt_serial
    BY <1>2, <1>6 DEF LoopOK
  <2>2. HasFrame' => ret'.frame \in Contents /\ ret'.frame > 0
    BY <1>1, <1>2 DEF HasFrame, LoopOK
  <2>3. HasFrame' => ret'.frame > 0 /\ ret'.frame <= readPkts /\ put_serial[ret'.frame] = pkt_serial
    BY <1>6, <2>2
  <2>4. UNCHANGED <<readPkts, put_serial, pkt_serial>> /\ ~Flushing'
    BY <1>1, <1>4 DEF ReaderStays
  <2> QED BY <2>1, <2>3, <2>4, StreamNumbers, ContentsHold
<1>8. ApiInv'
  <2>1. /\ busy = "receive" => dpc = "received"
        /\ busy = "send" => dpc = "sent"
        /\ busy \in {"send", "receive"} /\ pending = FALSE
    BY <1>3, StreamParts DEF ApiInv, DecodeTypeOK
  <2>2. /\ busy' \in {"none", busy}
        /\ busy = "send" /\ busy' = "none" => ret'.code # "EAGAIN"
        /\ busy = "receive" /\ busy' = "none" => (ret'.code = "EAGAIN" => Received') /\ (ret'.code = "EOF" => draining')
    BY <1>2 DEF LoopOK
  <2> QED BY <1>1, <2>1, <2>2 DEF ApiInv, Answered
<1>9. FinishedInv' /\ OpenInv' /\ EndedInv'
  BY <1>1, <1>4, <1>5, StreamParts DEF FinishedInv, OpenInv, EndedInv, ReaderStays
<1>10. NothingLost'
  <2> SUFFICES ASSUME ended # "grown", rpc \notin {"seek", "gone"}, NEW p \in 1 .. readPkts,
                      put_serial[p] = serial
               PROVE  Underway(p)'
    BY <1>1 DEF NothingLost, ReaderStays
  <2>1. Underway(p) /\ p # 0
    BY StreamParts DEF NothingLost
  <2>2. \/ p \in decoded \/ p \in {bsf_pkt, in_pkt}
        \/ \E i \in 1 .. Len(packets) : Kinds[i] = p
    BY <1>4, <2>1 DEF Underway
  <2>3. p \in {bsf_pkt, in_pkt} => p \in decoded' \/ p = bsf_pkt' \/ p = in_pkt'
    BY <1>2, <2>1 DEF LoopOK
  <2>4. decoded \subseteq decoded'
    BY <1>2 DEF LoopOK
  <2> QED BY <1>5, <2>2, <2>3, <2>4 DEF Underway
<1>11. ShownInv'
  <2>1. ended = "ended" /\ finished = serial => Contents = {0} /\ dpc # "push"
    BY StreamParts DEF ShownInv
  <2>2. Contents' \subseteq Contents \cup {0} /\ (HasFrame' => ret'.frame \in Contents /\ ret'.frame > 0)
    BY <1>1, <1>2 DEF LoopOK, HasFrame
  <2>3. Contents = {0} => Contents' = {0} /\ ~HasFrame'
    BY <2>2, NothingStays
  <2> QED BY <1>1, <2>1, <2>3 DEF ShownInv, ReaderStays
<1> QED BY <1>2, <1>5, <1>7, <1>8, <1>9, <1>10, <1>11 DEF StreamInv, LoopOK

LEMMA ReceivedKeeps ==
  ASSUME StreamInv, DecodeReceived PROVE StreamInv'
<1>1. dpc = "received" /\ busy = "none" /\ ReaderStays /\ UNCHANGED <<packets, pkt, pkt_serial, pending>>
  BY DEF DecodeReceived, ReaderStays, others, readVars, history, queue
<1>2. ~InHand /\ ~Stale /\ ~Flushing /\ ~NullInHand
  BY <1>1 DEF InHand, Stale, Flushing, NullInHand
<1>3. CASE /\ UNCHANGED <<finished, decodeVars>>
           /\ \/ ret.code = "frame" /\ dpc' \in {"writable", "top"}
              \/ ret.code = "EAGAIN" /\ dpc' = "get"
              \/ ret.code = "error" /\ dpc' = "receive"
  <2>1. /\ dpc' \in {"writable", "fill", "push"} => HasFrame \/ dpc' = dpc
        /\ dpc' = "get" => Stale' \/ Received
    BY <1>1, <1>3, StreamParts DEF HasFrame, ApiInv, Answered
  <2> QED BY <1>1, <1>2, <1>3, <2>1, DecoderMoves
<1>4. CASE ret.code = "EOF" /\ finished' = pkt_serial /\ FlushBuffers /\ dpc' = "top"
  <2>1. /\ DecodeTypeOK' /\ DecoderInv' /\ Contents' = {0} /\ busy' = busy /\ decoded' = decoded
    BY <1>4, StreamParts, FlushKeeps
  <2>2. bsf_eof /\ bsf_pkt = 0 /\ in_pkt = 0
    BY <1>1, <1>4, StreamParts DEF ApiInv, Answered, DecoderInv
  <2>3. QueueTypeOK' /\ QueueInv' /\ Kinds' = Kinds /\ Serials' = Serials /\ Len(packets') = Len(packets)
    BY <1>1, <1>4, StreamNumbers, QueuePartStays
  <2>4. ~InHand' /\ ~Flushing' /\ ~NullInHand' /\ ~HasFrame' /\ EofTaken /\ EofTaken'
    BY <1>1, <1>2, <1>4, <2>2 DEF InHand, Flushing, NullInHand, HasFrame, EofTaken
  <2>5. ContentsInv'
    BY <2>1, <2>4 DEF ContentsInv
  <2>6. ApiInv'
    <3>1. pending = FALSE
      BY StreamParts DEF ApiInv
    <3> QED BY <1>1, <1>4, <2>1, <3>1 DEF ApiInv, Answered
  <2>7. FinishedInv'
    BY <1>1, <1>4, <2>4, StreamNumbers DEF FinishedInv
  <2>8. OpenInv' /\ EndedInv'
    BY <1>1, <1>2, <2>3, <2>4, StreamParts DEF OpenInv, EndedInv, ReaderStays
  <2>9. NothingLost'
    <3> SUFFICES ASSUME ended # "grown", rpc \notin {"seek", "gone"}, NEW p \in 1 .. readPkts,
                        put_serial[p] = serial
                 PROVE  Underway(p)'
      BY <1>1 DEF NothingLost, ReaderStays
    <3>1. Underway(p) /\ p # 0
      BY StreamParts DEF NothingLost
    <3> QED BY <1>2, <2>1, <2>2, <2>3, <3>1 DEF Underway
  <2>10. ShownInv'
    BY <1>4, <2>1, <2>4 DEF ShownInv
  <2> QED BY <2>1, <2>3, <2>5, <2>6, <2>7, <2>8, <2>9, <2>10 DEF StreamInv
<1> QED BY <1>3, <1>4 DEF DecodeReceived, DGoto

(* The steps that only pass on a picture, or an answer. *)
LEMMA SentKeeps ==
  ASSUME StreamInv, DecodeSent PROVE StreamInv'
<1>1. /\ dpc = "sent" /\ busy = "none" /\ dpc' = "top" /\ ReaderStays
      /\ UNCHANGED <<packets, pkt, pkt_serial, finished, decodeVars>>
      /\ pending' = (ret.code = "EAGAIN")
  BY DEF DecodeSent, DGoto, ReaderStays, others, readVars, history, queue
<1>2. pending' = pending
  <2>1. ret.code # "EAGAIN" /\ pending = FALSE
    BY <1>1, StreamParts DEF ApiInv
  <2> QED BY <1>1, <2>1
<1>3. ~InHand /\ ~Stale
  BY <1>1 DEF InHand, Stale
<1> QED BY <1>1, <1>2, <1>3, DecoderMoves

LEMMA PictureKeeps ==
  ASSUME StreamInv, PeekWritable \/ FillPicture \/ PushPicture PROVE StreamInv'
<1>1. /\ ReaderStays /\ UNCHANGED <<packets, pkt, pkt_serial, pending, finished, decodeVars>>
      /\ \/ dpc = "writable" /\ dpc' \in {"writable", "fill", "gone"}
         \/ dpc = "fill" /\ dpc' = "push"
         \/ dpc = "push" /\ dpc' = "top"
  BY DEF PeekWritable, FillPicture, PushPicture, DGoto, ReaderStays, others, readVars, history, queue,
         decoderLocals
<1>2. ~InHand /\ ~Stale /\ (dpc' \in {"writable", "fill", "push"} => HasFrame)
  BY <1>1 DEF InHand, Stale, HasFrame
<1>3. busy = "none"
  BY <1>1, StreamParts DEF ApiInv, DecodeTypeOK
<1> QED BY <1>1, <1>2, <1>3, DecoderMoves

LEMMA CompareKeeps ==
  ASSUME StreamInv, DecodeCompare PROVE StreamInv'
<1>1. /\ dpc = "compare" /\ dpc' = (IF serial = pkt_serial THEN "send" ELSE "get") /\ ReaderStays
      /\ UNCHANGED <<packets, pkt, pkt_serial, pending, finished, decodeVars>>
  BY DEF DecodeCompare, DGoto, ReaderStays, others, readVars, history, queue, decoderLocals
<1>2. /\ QueueTypeOK' /\ QueueInv'
      /\ Kinds' = Kinds /\ Serials' = Serials /\ Len(packets') = Len(packets)
  BY <1>1, StreamParts, QueuePartStays
<1>3. /\ UNCHANGED <<bsf_eof, bsf_pkt, in_pkt, buffer_frame, busy, ret, decoded, draining>>
      /\ busy = "none"
  BY <1>1, StreamParts DEF decodeVars, ApiInv, DecodeTypeOK
<1>4. DecodeTypeOK' /\ DecoderInv' /\ Contents' = Contents
  BY <1>1, StreamParts, ContentsStay DEF DecodeTypeOK, DecoderInv, decodeVars
<1>5. CASE serial = pkt_serial
  <2>1. /\ InHand' = InHand /\ Flushing' = Flushing /\ NullInHand' = NullInHand /\ EofTaken' = EofTaken
        /\ ~Stale /\ ~HasFrame'
    BY <1>1, <1>3, <1>5 DEF InHand, Flushing, NullInHand, EofTaken, Stale, HasFrame
  <2>2. ContentsInv'
    BY <1>1, <1>4, <2>1, StreamParts DEF ContentsInv, ReaderStays
  <2>3. ApiInv'
    BY <1>1, <1>3, <1>5, <2>1, StreamParts DEF ApiInv, Received, Answered
  <2>4. FinishedInv' /\ OpenInv' /\ EndedInv'
    BY <1>1, <1>2, <2>1, StreamParts DEF FinishedInv, OpenInv, EndedInv, ReaderStays
  <2>5. NothingLost'
    BY <1>1, <1>2, <1>3, <2>1, StreamParts DEF NothingLost, Underway, ReaderStays
  <2>6. ShownInv'
    BY <1>1, <1>4, <1>5, <2>1, StreamParts DEF ShownInv, ReaderStays
  <2> QED BY <1>2, <1>4, <2>2, <2>3, <2>4, <2>5, <2>6 DEF StreamInv
<1>6. CASE serial # pkt_serial
  <2>1. ~InHand' /\ ~Flushing' /\ Stale' /\ ~HasFrame' /\ dpc' = "get"
    BY <1>1, <1>6 DEF InHand, Flushing, Stale, HasFrame, ReaderStays
  <2>2. ContentsInv'
    BY <1>1, <1>4, <2>1, StreamParts DEF ContentsInv, ReaderStays
  <2>3. ApiInv'
    BY <1>1, <1>3, <2>1, StreamParts DEF ApiInv, Answered
  <2>4. FinishedInv'
    BY <1>1, <2>1, StreamParts DEF FinishedInv
  <2>5. OpenInv' /\ EndedInv'
    BY <1>1, <1>2, <1>6, StreamParts DEF OpenInv, EndedInv, ReaderStays
  <2>6. NothingLost'
    <3> SUFFICES ASSUME ended # "grown", rpc \notin {"seek", "gone"}, NEW p \in 1 .. readPkts,
                        put_serial[p] = serial
                 PROVE  Underway(p)'
      BY <1>1 DEF NothingLost, ReaderStays
    <3>1. Underway(p) /\ p > 0
      BY StreamParts DEF NothingLost
    <3>2. pkt # p
      BY <1>6, <3>1, StreamParts DEF QueueInv
    <3> QED BY <1>2, <1>3, <3>1, <3>2 DEF Underway
  <2>7. ShownInv'
    BY <1>1, <1>6, StreamParts DEF ShownInv, ReaderStays
  <2> QED BY <1>2, <1>4, <2>2, <2>3, <2>4, <2>5, <2>6, <2>7 DEF StreamInv
<1> QED BY <1>5, <1>6

LEMMA SendStepKeeps ==
  ASSUME StreamInv, DecodeSend PROVE StreamInv'
<1>1. dpc = "send" /\ ReaderStays /\ UNCHANGED <<packets, pkt, pkt_serial, pending>>
      /\ InHand /\ busy = "none" /\ pending = FALSE
  BY StreamParts DEF DecodeSend, ReaderStays, others, readVars, history, queue, InHand, ApiInv,
                     DecodeTypeOK
<1>2. CASE pkt = FLUSH /\ FlushBuffers /\ finished' = 0 /\ dpc' = "top"
  <2>1. DecodeTypeOK' /\ DecoderInv' /\ Contents' = {0} /\ busy' = busy /\ decoded' = decoded
        /\ bsf_eof' = FALSE
    BY <1>2, StreamParts, FlushKeeps
  <2>2. QueueTypeOK' /\ QueueInv' /\ Kinds' = Kinds /\ Serials' = Serials /\ Len(packets') = Len(packets)
    BY <1>1, <1>2, StreamNumbers, QueuePartStays
  <2>3. Flushing /\ ~InHand' /\ ~Flushing' /\ ~NullInHand' /\ ~HasFrame' /\ pkt < 0
    BY <1>1, <1>2 DEF InHand, Flushing, NullInHand, HasFrame, FLUSH
  <2>4. pkt_serial' = serial' => ~EofTaken'
    BY <1>1, <1>2, <2>1, StreamNumbers DEF EofTaken, ReaderStays
  <2>5. ContentsInv'
    BY <2>1, <2>3 DEF ContentsInv
  <2>6. ApiInv'
    BY <1>1, <1>2, <2>1 DEF ApiInv, Answered
  <2>7. FinishedInv'
    BY <1>2, <2>3 DEF FinishedInv
  <2>8. OpenInv' /\ EndedInv'
    BY <1>1, <2>2, <2>3, <2>4, StreamParts DEF OpenInv, EndedInv, ReaderStays
  <2>9. NothingLost'
    <3> SUFFICES ASSUME ended # "grown", rpc \notin {"seek", "gone"}, NEW p \in 1 .. readPkts,
                        put_serial[p] = serial
                 PROVE  Underway(p)'
      BY <1>1 DEF NothingLost, ReaderStays
    <3>1. Underway(p) /\ p > 0
      BY StreamParts DEF NothingLost
    <3>2. p \notin Contents
      BY <2>3, <3>1, StreamParts DEF ContentsInv
    <3>3. pkt # p /\ bsf_pkt # p /\ in_pkt # p
      BY <2>3, <3>1, <3>2 DEF Contents
    <3> QED BY <2>1, <2>2, <3>1, <3>3 DEF Underway
  <2>10. ShownInv'
    BY <1>2, <2>1, <2>3 DEF ShownInv
  <2> QED BY <2>1, <2>2, <2>5, <2>6, <2>7, <2>8, <2>9, <2>10 DEF StreamInv
<1>3. CASE pkt # FLUSH /\ SendPacket(pkt) /\ dpc' = "sent" /\ UNCHANGED finished
  <2>1. pkt \in Nat /\ ~Flushing /\ Received
    BY <1>1, <1>3, StreamParts DEF QueueTypeOK, Flushing, Stale, ApiInv
  <2>2. /\ DecodeTypeOK' /\ DecoderInv' /\ Contents' \subseteq Contents \cup {pkt}
        /\ busy' \in {"none", "send"} /\ (busy' = "none" => ret'.code # "EAGAIN")
        /\ pkt = 0 \/ bsf_eof => Contents' = Contents
        /\ pkt > 0 => bsf_eof' = bsf_eof /\ (bsf_eof \/ bsf_pkt' = pkt)
        /\ decoded' = decoded
    BY <1>3, <2>1, StreamParts, SendKeeps
  <2>3. QueueTypeOK' /\ QueueInv' /\ Kinds' = Kinds /\ Serials' = Serials /\ Len(packets') = Len(packets)
    BY <1>1, <1>3, StreamParts, QueuePartStays
  <2>4. ~InHand' /\ ~Flushing' /\ ~NullInHand' /\ ~HasFrame'
    BY <1>3 DEF InHand, Flushing, NullInHand, HasFrame
  <2>5. EofTaken' => EofTaken \/ NullInHand
    BY <1>1, <1>3, <2>1, <2>2 DEF EofTaken, NullInHand
  <2>6. ContentsInv'
    <3>1. \A p \in Contents : p > 0 => p <= readPkts /\ put_serial[p] = pkt_serial
      BY <1>1, <2>1, StreamParts DEF ContentsInv, Stale
    <3>2. pkt > 0 => pkt <= readPkts /\ put_serial[pkt] = pkt_serial
      BY StreamParts DEF QueueInv
    <3>3. \A p \in Contents' : p > 0 => p <= readPkts /\ put_serial[p] = pkt_serial
      BY <2>2, <3>1, <3>2
    <3>4. UNCHANGED <<readPkts, put_serial, pkt_serial>>
      BY <1>1 DEF ReaderStays
    <3> QED BY <2>4, <3>3, <3>4, StreamNumbers, ContentsHold
  <2>7. ApiInv'
    BY <1>1, <1>3, <2>2 DEF ApiInv, Answered
  <2>8. FinishedInv'
    BY <1>1, <1>3, <2>4, StreamParts DEF FinishedInv
  <2>9. OpenInv' /\ EndedInv'
    BY <1>1, <2>3, <2>4, <2>5, StreamParts DEF OpenInv, EndedInv, ReaderStays
  <2>10. ASSUME ended # "grown", pkt > 0, pkt_serial = serial PROVE ~EofTaken
    <3>1. ended \in {"open", "ended"}
      BY <2>10, StreamParts DEF QueueTypeOK
    <3> QED BY <1>1, <2>10, <3>1, StreamParts DEF OpenInv, EndedInv
  <2>11. NothingLost'
    <3> SUFFICES ASSUME ended # "grown", rpc \notin {"seek", "gone"}, NEW p \in 1 .. readPkts,
                        put_serial[p] = serial
                 PROVE  Underway(p)'
      BY <1>1 DEF NothingLost, ReaderStays
    <3>1. Underway(p) /\ p > 0
      BY StreamParts DEF NothingLost
    <3>2. CASE pkt = p
      <4>1. pkt_serial = serial
        BY <3>1, <3>2, StreamParts DEF QueueInv
      <4>2. ~bsf_eof
        BY <2>1, <2>10, <3>1, <3>2, <4>1 DEF EofTaken
      <4> QED BY <2>2, <3>1, <3>2, <4>2 DEF Underway
    <3>3. CASE pkt # p
      BY <2>1, <2>2, <2>3, <3>1, <3>3 DEF Underway, Received
    <3> QED BY <3>2, <3>3
  <2>12. ShownInv'
    <3>1. ASSUME ended = "ended", finished = serial PROVE Contents' = {0}
      <4>1. pkt_serial = serial /\ EofTaken
        BY <3>1, StreamParts DEF EofTaken
      <4>2. pkt = 0
        BY <2>1, <2>10, <3>1, <4>1
      <4> QED BY <2>2, <3>1, <4>2, StreamParts DEF ShownInv
    <3> QED BY <1>1, <1>3, <2>4, <3>1 DEF ShownInv, ReaderStays
  <2> QED BY <2>2, <2>3, <2>6, <2>7, <2>8, <2>9, <2>11, <2>12 DEF StreamInv
<1> QED BY <1>2, <1>3 DEF DecodeSend, DGoto

(* A packet that is taken off the queue. *)
LEMMA PacketTaken ==
  ASSUME StreamInv, ReaderStays, UNCHANGED <<pending, finished, decodeVars>>,
         dpc = "get", dpc' = "compare", packets # <<>>, packets' = Tail(packets),
         pkt' = Kinds[1], pkt_serial' = Serials[1]
  PROVE  StreamInv'
<1>1. /\ packets' \in Seq(Int \X (Nat \ {0})) /\ Len(packets') = Len(packets) - 1
      /\ Len(packets) >= 1 /\ Len(packets) \in Nat
      /\ \A i \in 1 .. Len(packets') : i + 1 \in 1 .. Len(packets)
      /\ \A i \in 1 .. Len(packets') : Kinds'[i] = Kinds[i + 1] /\ Serials'[i] = Serials[i + 1]
  BY StreamParts, QueueShrinks
<1>2. /\ 1 \in 1 .. Len(packets) /\ Before[1] = pkt_serial
  BY <1>1 DEF Before
<1>3. /\ Kinds[1] \in Int /\ Serials[1] \in Nat \ {0} /\ FLUSH = -1
      /\ Kinds[1] = FLUSH => Serials[1] > pkt_serial
      /\ Kinds[1] # FLUSH => Kinds[1] >= 0 /\ Serials[1] = pkt_serial
      /\ Kinds[1] > 0 => Kinds[1] <= readPkts /\ put_serial[Kinds[1]] = Serials[1]
      /\ Serials[1] <= serial
  BY <1>2, StreamParts DEF QueueInv, FLUSH
<1>4. /\ pkt' \in Nat \cup {FLUSH} /\ pkt_serial' \in Nat \ {0} /\ pkt_serial' >= pkt_serial
      /\ pkt_serial' <= serial
      /\ pkt' = FLUSH => pkt_serial' > pkt_serial
      /\ pkt' # FLUSH => pkt_serial' = pkt_serial
      /\ pkt' > 0 => pkt' <= readPkts /\ put_serial[pkt'] = pkt_serial'
  BY <1>3, StreamNumbers
<1>5. /\ ~InHand /\ InHand' /\ ~Flushing /\ ~NullInHand /\ ~HasFrame'
      /\ (Flushing' <=> pkt' = FLUSH) /\ (NullInHand' <=> pkt' = 0)
  BY DEF InHand, Flushing, NullInHand, HasFrame
<1>6. /\ UNCHANGED <<bsf_eof, bsf_pkt, in_pkt, buffer_frame, busy, ret, decoded, draining>>
      /\ busy = "none" /\ pending = FALSE
  BY StreamParts DEF decodeVars, ApiInv, DecodeTypeOK
<1>7. DecodeTypeOK' /\ DecoderInv' /\ Contents' = Contents
  BY StreamParts, ContentsStay DEF DecodeTypeOK, DecoderInv, decodeVars
<1>8. QueueTypeOK'
  BY <1>1, <1>4, StreamParts DEF QueueTypeOK, ReaderStays
<1>9. QueueInv'
  <2>1. \A i \in 1 .. Len(packets) : Before'[i] = Before[i + 1]
    <3>1. ASSUME NEW i \in 1 .. Len(packets) PROVE Before'[i] = Before[i + 1]
      <4>1. CASE i = 1
        BY <1>1, <4>1 DEF Before
      <4>2. CASE i # 1
        <5>1. i - 1 \in 1 .. Len(packets') /\ i \in 1 .. Len(packets') + 1 /\ i + 1 \in 1 .. Len(packets) + 1
              /\ i + 1 # 1 /\ (i + 1) - 1 = i /\ (i - 1) + 1 = i
          BY <1>1, <4>2
        <5>2. Before'[i] = Serials'[i - 1] /\ Before[i + 1] = Serials[i]
          BY <4>2, <5>1 DEF Before
        <5>3. Serials'[i - 1] = Serials[i]
          BY <1>1, <5>1
        <5> QED BY <5>2, <5>3
      <4> QED BY <4>1, <4>2
    <3> QED BY <3>1
  <2>2. rpc # "seek" /\ (rpc # "gone" => Before[Len(packets) + 1] = serial)
    BY <1>1, StreamParts DEF QueueInv
  <2>3. rpc # "gone" => Before'[Len(packets') + 1] = serial
    <3>1. Len(packets') + 1 = Len(packets) /\ Len(packets) \in 1 .. Len(packets)
      BY <1>1
    <3> QED BY <2>1, <2>2, <3>1
  <2>4. ASSUME NEW i \in 1 .. Len(packets')
        PROVE  /\ Kinds'[i] = FLUSH => Serials'[i] > Before'[i]
               /\ Kinds'[i] # FLUSH => Kinds'[i] >= 0 /\ Serials'[i] = Before'[i]
               /\ Kinds'[i] > 0 => Kinds'[i] <= readPkts /\ put_serial[Kinds'[i]] = Serials'[i]
               /\ Serials'[i] <= serial
    <3>1. i + 1 \in 1 .. Len(packets) /\ Kinds'[i] = Kinds[i + 1] /\ Serials'[i] = Serials[i + 1]
      BY <1>1
    <3>2. i \in 1 .. Len(packets)
      BY <1>1
    <3>3. Before'[i] = Before[i + 1]
      BY <2>1, <3>2
    <3>4. PICK j \in 1 .. Len(packets) : /\ Kinds'[i] = Kinds[j] /\ Serials'[i] = Serials[j]
                                         /\ Before'[i] = Before[j]
      BY <3>1, <3>3
    <3>5. /\ Kinds[j] = FLUSH => Serials[j] > Before[j]
          /\ Kinds[j] # FLUSH => Kinds[j] >= 0 /\ Serials[j] = Before[j]
          /\ Kinds[j] > 0 => Kinds[j] <= readPkts /\ put_serial[Kinds[j]] = Serials[j]
          /\ Serials[j] <= serial
      BY StreamParts DEF QueueInv
    <3> QED BY <3>4, <3>5
  <2>5. \A p \in 1 .. readPkts : put_serial[p] <= serial
    BY StreamParts
  <2> QED BY <1>4, <2>2, <2>3, <2>4, <2>5 DEF QueueInv, ReaderStays
<1>10. ~Stale => \A p \in Contents : p > 0 => put_serial[p] = pkt_serial
  BY <1>5, StreamParts DEF ContentsInv
<1>11. pkt' # FLUSH /\ Stale => Stale'
  BY <1>4 DEF Stale, ReaderStays
<1>12. ContentsInv'
  <2>1. ASSUME NEW p \in Contents, p > 0
        PROVE  /\ p <= readPkts /\ put_serial[p] <= pkt_serial'
               /\ pkt' = FLUSH => put_serial[p] < pkt_serial'
               /\ pkt' = FLUSH \/ Stale' \/ put_serial[p] = pkt_serial'
    <3>1. p <= readPkts /\ put_serial[p] <= pkt_serial
      BY <2>1, StreamParts DEF ContentsInv
    <3>2. p \in Nat
      BY StreamParts, ContentsAre
    <3>3. put_serial[p] \in Nat
      <4>1. p \in 1 .. readPkts
        BY <2>1, <3>1, <3>2, StreamNumbers
      <4> QED BY <4>1, StreamParts
    <3> QED BY <1>4, <1>10, <1>11, <2>1, <3>1, <3>3, StreamNumbers
  <2> QED BY <1>5, <1>7, <2>1 DEF ContentsInv, ReaderStays
<1>13. ApiInv'
  <2>1. Stale \/ Received
    BY <1>5, StreamParts DEF ApiInv
  <2> QED BY <1>5, <1>6, <1>11, <2>1 DEF ApiInv, Received, Answered
<1>14. Flushing' => finished < pkt_serial'
  BY <1>4, <1>5, StreamParts DEF FinishedInv
<1>15. FinishedInv'
  BY <1>4, <1>14, StreamParts DEF FinishedInv
<1>16. EofTaken' => EofTaken /\ pkt' # FLUSH /\ pkt_serial' = pkt_serial
  BY <1>4, <1>5, <1>6, <1>14, StreamParts DEF EofTaken
<1>17. OpenInv'
  <2> SUFFICES ASSUME ended = "open"
               PROVE  /\ \A i \in 1 .. Len(packets') : Kinds'[i] = 0 => Serials'[i] # serial
                      /\ pkt_serial' = serial => ~EofTaken' /\ ~NullInHand'
    BY DEF OpenInv, ReaderStays
  <2>1. /\ \A i \in 1 .. Len(packets) : Kinds[i] = 0 => Serials[i] # serial
        /\ pkt_serial = serial => ~EofTaken
    BY StreamParts DEF OpenInv
  <2>2. \A i \in 1 .. Len(packets') : Kinds'[i] = 0 => Serials'[i] # serial
    BY <1>1, <2>1
  <2>3. NullInHand' => pkt_serial' # serial
    BY <1>2, <1>5, <2>1
  <2> QED BY <1>16, <2>1, <2>2, <2>3
<1>18. EndedInv'
  <2> SUFFICES ASSUME ended = "ended"
               PROVE  /\ \A i \in 1 .. Len(packets') : Kinds'[i] = 0 /\ Serials'[i] = serial =>
                           \A j \in i .. Len(packets') : Kinds'[j] <= 0
                      /\ pkt_serial' = serial /\ (EofTaken' \/ NullInHand') =>
                           \A j \in 1 .. Len(packets') : Kinds'[j] <= 0
                      /\ pkt_serial' = serial /\ EofTaken' => ~(pkt' > 0)
    BY DEF EndedInv, ReaderStays
  <2>1. /\ \A i \in 1 .. Len(packets) : Kinds[i] = 0 /\ Serials[i] = serial =>
             \A j \in i .. Len(packets) : Kinds[j] <= 0
        /\ pkt_serial = serial /\ EofTaken => \A j \in 1 .. Len(packets) : Kinds[j] <= 0
    BY StreamParts DEF EndedInv
  <2>2. ASSUME NEW i \in 1 .. Len(packets'), Kinds'[i] = 0, Serials'[i] = serial,
               NEW j \in i .. Len(packets')
        PROVE  Kinds'[j] <= 0
    <3>1. i + 1 \in 1 .. Len(packets) /\ Kinds'[i] = Kinds[i + 1] /\ Serials'[i] = Serials[i + 1]
      BY <1>1
    <3>2. j \in 1 .. Len(packets') /\ j + 1 \in (i + 1) .. Len(packets)
      <4>1. Len(packets') = Len(packets) - 1 /\ Len(packets) \in Nat
        BY <1>1
      <4> QED BY <4>1
    <3>3. Kinds'[j] = Kinds[j + 1]
      BY <1>1, <3>2
    <3> QED BY <2>1, <2>2, <3>1, <3>2, <3>3
  <2>3. ASSUME pkt_serial' = serial, EofTaken' \/ NullInHand'
        PROVE  \A j \in 1 .. Len(packets) : Kinds[j] <= 0
    <3>1. CASE EofTaken'
      BY <1>16, <2>1, <2>3, <3>1
    <3>2. CASE NullInHand'
      BY <1>2, <1>5, <2>1, <2>3, <3>2
    <3> QED BY <2>3, <3>1, <3>2
  <2>4. ASSUME pkt_serial' = serial, EofTaken' \/ NullInHand', NEW j \in 1 .. Len(packets')
        PROVE  Kinds'[j] <= 0
    BY <1>1, <2>3, <2>4
  <2>5. ASSUME pkt_serial' = serial, EofTaken' PROVE ~(pkt' > 0)
    BY <1>2, <1>3, <2>3, <2>5
  <2> QED BY <2>2, <2>4, <2>5
<1>19. NothingLost'
  <2> SUFFICES ASSUME ended # "grown", rpc \notin {"seek", "gone"}, NEW p \in 1 .. readPkts,
                      put_serial[p] = serial
               PROVE  Underway(p)'
    BY DEF NothingLost, ReaderStays
  <2>1. Underway(p)
    BY StreamParts DEF NothingLost
  <2>2. ASSUME NEW i \in 1 .. Len(packets), Kinds[i] = p PROVE Underway(p)'
    <3>1. CASE i = 1
      BY <1>5, <2>2, <3>1 DEF Underway
    <3>2. CASE i # 1
      <4>1. i - 1 \in 1 .. Len(packets') /\ (i - 1) + 1 = i
        BY <1>1, <3>2
      <4>2. Kinds'[i - 1] = p
        BY <1>1, <2>2, <4>1
      <4> QED BY <4>1, <4>2 DEF Underway
    <3> QED BY <3>1, <3>2
  <2>3. p \in decoded \/ bsf_pkt = p \/ in_pkt = p => Underway(p)'
    BY <1>6 DEF Underway
  <2> QED BY <1>5, <2>1, <2>2, <2>3 DEF Underway
<1>20. ShownInv'
  <2>1. ended = "ended" /\ finished = serial => Contents = {0}
    BY StreamParts DEF ShownInv
  <2> QED BY <1>5, <1>7, <2>1 DEF ShownInv, ReaderStays
<1> QED BY <1>7, <1>8, <1>9, <1>12, <1>13, <1>15, <1>17, <1>18, <1>19, <1>20 DEF StreamInv

LEMMA GetKeeps ==
  ASSUME StreamInv, DecodeGet PROVE StreamInv'
<1>1. dpc = "get" /\ ReaderStays /\ UNCHANGED <<finished, decodeVars>>
  BY DEF DecodeGet, ReaderStays, others, readVars, history
<1>2. pending = FALSE /\ busy = "none" /\ ~InHand /\ (Stale \/ Received)
  BY <1>1, StreamParts DEF ApiInv, DecodeTypeOK, InHand, Flushing
<1>3. CASE /\ dpc' \in {"get", "gone"} /\ UNCHANGED <<packets, pkt, pkt_serial, pending>>
  <2>1. Stale => Stale'
    BY <1>1, <1>3 DEF Stale, ReaderStays
  <2> QED BY <1>1, <1>2, <1>3, <2>1, DecoderMoves
<1>4. CASE /\ packets # <<>> /\ packets' = Tail(packets) /\ dpc' = "compare" /\ UNCHANGED pending
           /\ pkt' = Head(packets)[1] /\ pkt_serial' = Head(packets)[2]
  <2>1. Head(packets)[1] = Kinds[1] /\ Head(packets)[2] = Serials[1]
    BY <1>4, StreamParts, QueueShrinks
  <2> QED BY <1>1, <1>4, <2>1, PacketTaken
<1> QED BY <1>1, <1>2, <1>3, <1>4 DEF DecodeGet, DGoto

LEMMA DecoderKeepsStream ==
  ASSUME StreamInv, DecodeStep PROVE StreamInv'
  BY TopKeeps, ReceiveStepKeeps, WorkKeeps, ReceivedKeeps, GetKeeps, CompareKeeps, SendStepKeeps,
     SentKeeps, PictureKeeps DEF DecodeStep

-----------------------------------------------------------------------------
(* The ring of pictures.                                                   *)
LEMMA Wrapped ==
  ASSUME NEW n \in Nat \ {0}, NEW a \in 0 .. 2 * n - 1
  PROVE  a % n = IF a < n THEN a ELSE a - n
  BY SMT

LEMMA TurnIs ==
  ASSUME NEW r \in Slots, NEW k \in 0 .. max_size
  PROVE  /\ (r + k) % max_size = IF r + k < max_size THEN r + k ELSE r + k - max_size
         /\ (r + k) % max_size \in Slots
<1>1. max_size \in Nat \ {0} /\ r \in 0 .. max_size - 1
  BY FfplayAssumption DEF Slots
<1>2. PICK n \in Nat \ {0} : n = max_size
  BY <1>1
<1>3. PICK a \in 0 .. 2 * n - 1 : a = r + k
  BY <1>1, <1>2
<1>4. a % n = IF a < n THEN a ELSE a - n
  BY Wrapped
<1>5. (IF a < n THEN a ELSE a - n) \in 0 .. n - 1
  OBVIOUS
<1> QED BY <1>2, <1>3, <1>4, <1>5 DEF Slots

LEMMA TurnsApart ==
  ASSUME NEW r \in Slots, NEW j \in 0 .. max_size - 1, NEW k \in 0 .. max_size - 1,
         (r + j) % max_size = (r + k) % max_size
  PROVE  j = k
<1>1. max_size \in Nat /\ r \in 0 .. max_size - 1 /\ j \in 0 .. max_size /\ k \in 0 .. max_size
  BY FfplayAssumption DEF Slots
<1>2. (IF r + j < max_size THEN r + j ELSE r + j - max_size)
        = (IF r + k < max_size THEN r + k ELSE r + k - max_size)
  BY <1>1, TurnIs
<1> QED BY <1>1, <1>2

LEMMA TurnNext ==
  ASSUME NEW r \in Slots, NEW k \in 0 .. max_size - 1
  PROVE  /\ (((r + 1) % max_size) + k) % max_size = (r + (k + 1)) % max_size
         /\ (((r + k) % max_size) + 1) % max_size = (r + (k + 1)) % max_size
         /\ (r + 1) % max_size \in Slots
         /\ k = max_size - 1 => (r + (k + 1)) % max_size = r
<1>1. max_size \in Nat /\ max_size > 1 /\ r \in 0 .. max_size - 1
      /\ k \in 0 .. max_size /\ k + 1 \in 0 .. max_size /\ 1 \in 0 .. max_size
  BY FfplayAssumption DEF Slots
<1>2. PICK one \in Slots : one = (r + 1) % max_size /\ one = (IF r + 1 < max_size THEN r + 1 ELSE r + 1 - max_size)
  BY <1>1, TurnIs
<1>3. PICK s \in Slots : s = (r + k) % max_size /\ s = (IF r + k < max_size THEN r + k ELSE r + k - max_size)
  BY <1>1, TurnIs
<1>4. PICK t \in Slots : /\ t = (r + (k + 1)) % max_size
                         /\ t = (IF r + (k + 1) < max_size THEN r + (k + 1) ELSE r + (k + 1) - max_size)
  BY <1>1, TurnIs
<1>5. (one + k) % max_size = (IF one + k < max_size THEN one + k ELSE one + k - max_size)
  BY <1>1, TurnIs
<1>6. (s + 1) % max_size = (IF s + 1 < max_size THEN s + 1 ELSE s + 1 - max_size)
  BY <1>1, TurnIs
<1>7. one \in Nat /\ s \in Nat /\ t \in Nat
  BY <1>1 DEF Slots
<1>8. (IF one + k < max_size THEN one + k ELSE one + k - max_size) = t
  BY <1>1, <1>2, <1>4, <1>7
<1>9. (IF s + 1 < max_size THEN s + 1 ELSE s + 1 - max_size) = t
  BY <1>1, <1>3, <1>4, <1>7
<1>10. k = max_size - 1 => t = r
  BY <1>1, <1>4
<1> QED BY <1>2, <1>3, <1>4, <1>5, <1>6, <1>8, <1>9, <1>10

RingStays == UNCHANGED <<slots, windex, rindex, size, rindex_shown>>

LEMMA FilledIs ==
  ASSUME RingInv
  PROVE  /\ Leaving \in {0, 1} /\ Coming \in {0, 1} /\ Filled \in 0 .. max_size
         /\ max_size \in Nat /\ max_size > 1 /\ size \in Nat
         /\ dpc = "fill" => Filled < max_size
<1>1. Leaving \in {0, 1} /\ Coming \in {0, 1} /\ (Coming = 1 => dpc = "push")
      /\ (dpc = "fill" => Coming = 0)
  BY DEF Leaving, Coming
<1> QED BY <1>1, FfplayAssumption DEF RingInv, Filled

LEMMA RingKept ==
  ASSUME RingInv, RingStays, Leaving' = Leaving, Coming' = Coming,
         mpc' \in {"refresh", "next", "join_read", "abort", "signal", "join", "closed"},
         dpc' \in {"fill", "push"} => size < max_size
  PROVE  RingInv'
<1>1. Filled' = Filled
  BY DEF Filled, RingStays
<1> QED BY <1>1 DEF RingInv, RingStays, Turn

LEMMA FillKeepsRing ==
  ASSUME RingInv, FillPicture, ret.frame > 0, ret.frame \in Nat, pkt_serial \in Int,
         slots \in [Slots -> [frame : Nat, serial : Int]]
  PROVE  RingInv'
<1>1. /\ dpc = "fill" /\ dpc' = "push" /\ windex' = (windex + 1) % max_size
      /\ slots' = [slots EXCEPT ![windex] = [frame |-> ret.frame, serial |-> pkt_serial]]
      /\ UNCHANGED <<rindex, rindex_shown, size, mpc>>
  BY DEF FillPicture, DGoto, others
<1>2. Leaving' = Leaving /\ Coming = 0 /\ Coming' = 1 /\ Filled' = Filled + 1
      /\ Filled \in 0 .. max_size - 1 /\ Filled \in Nat /\ max_size \in Nat
  <2>1. Leaving' = Leaving /\ Coming = 0 /\ Coming' = 1
    BY <1>1 DEF Leaving, Coming
  <2>2. Leaving \in Int /\ size \in Int
    BY FilledIs
  <2> QED BY <1>1, <2>1, <2>2, FilledIs DEF Filled
<1>3. /\ windex \in Slots /\ rindex \in Slots /\ size \in Nat /\ rindex_shown \in {0, 1}
      /\ size < max_size /\ rindex_shown <= size - Leaving
      /\ mpc \in {"refresh", "next", "join_read", "abort", "signal", "join", "closed"}
      /\ windex = (rindex + Filled) % max_size
      /\ \A k \in 0 .. max_size - 1 :
           /\ k < Filled => slots[(rindex + k) % max_size].frame > 0
           /\ k >= Filled => slots[(rindex + k) % max_size] = NoPicture
  BY <1>1 DEF RingInv, Turn
<1>4. windex' \in Slots
  BY <1>1, <1>2, <1>3, TurnNext
<1>5. windex' = (rindex + Filled') % max_size
  BY <1>1, <1>2, <1>3, TurnNext
<1>6. slots'[windex] = [frame |-> ret.frame, serial |-> pkt_serial]
  BY <1>1, <1>3
<1>7. \A n \in Slots : n # windex => slots'[n] = slots[n]
  BY <1>1
<1>8. ASSUME NEW k \in 0 .. max_size - 1
      PROVE  /\ k < Filled + 1 => slots'[(rindex + k) % max_size].frame > 0
             /\ k >= Filled + 1 => slots'[(rindex + k) % max_size] = NoPicture
  <2>1. CASE k = Filled
    BY <1>2, <1>3, <1>6, <2>1
  <2>2. CASE k # Filled
    <3>1. (rindex + k) % max_size # windex
      BY <1>2, <1>3, <2>2, TurnsApart
    <3>2. (rindex + k) % max_size \in Slots
      <4>1. k \in 0 .. max_size
        BY <1>2
      <4> QED BY <1>3, <4>1, TurnIs
    <3>3. slots'[(rindex + k) % max_size] = slots[(rindex + k) % max_size]
      BY <1>7, <3>1, <3>2
    <3>4. (k < Filled + 1 => k < Filled) /\ (k >= Filled + 1 => k >= Filled)
      BY <1>2, <2>2
    <3> QED BY <1>3, <3>3, <3>4
  <2> QED BY <2>1, <2>2
<1> QED BY <1>1, <1>2, <1>3, <1>4, <1>5, <1>8 DEF RingInv, Turn

LEMMA PushKeepsRing ==
  ASSUME RingInv, PushPicture PROVE RingInv'
<1>1. dpc = "push" /\ dpc' = "top" /\ size' = size + 1 /\ UNCHANGED <<slots, windex, rindex, rindex_shown, mpc>>
  BY DEF PushPicture, DGoto, others, ring
<1>2. Leaving' = Leaving /\ Coming = 1 /\ Coming' = 0
  BY <1>1 DEF Leaving, Coming
<1>3. Filled' = Filled /\ size \in Nat /\ size < max_size /\ Leaving \in {0, 1}
  BY <1>1, <1>2, FilledIs DEF Filled, RingInv
<1>4. size' \in Nat /\ size' <= max_size /\ (rindex_shown <= size - Leaving => rindex_shown <= size' - Leaving')
      /\ (rindex_shown \in {0, 1} => rindex_shown' \in {0, 1})
  <2>1. rindex_shown \in {0, 1}
    BY DEF RingInv
  <2> QED BY <1>1, <1>2, <1>3, <2>1, FfplayAssumption
<1> QED BY <1>1, <1>3, <1>4 DEF RingInv, Turn

(* The picture that was shown last leaves, and the next one takes its place. *)
LEMMA ShownKeepsRing ==
  ASSUME RingInv, mpc = "refresh", rindex_shown = 1, size - rindex_shown > 0,
         slots' = [slots EXCEPT ![rindex] = NoPicture], rindex' = (rindex + 1) % max_size,
         mpc' = "next", UNCHANGED <<windex, size, rindex_shown, dpc>>,
         slots \in [Slots -> [frame : Nat, serial : Int]]
  PROVE  RingInv'
<1>1. Leaving = 0 /\ Leaving' = 1 /\ Coming' = Coming
  BY DEF Leaving, Coming
<1>2. /\ Filled' = Filled - 1 /\ Filled \in 2 .. max_size /\ max_size \in Nat /\ max_size > 1
      /\ 1 <= size - 1 /\ size \in Nat
  BY <1>1, FilledIs DEF Filled
<1>3. /\ windex \in Slots /\ rindex \in Slots /\ size <= max_size
      /\ dpc \in {"fill", "push"} => size < max_size
      /\ windex = (rindex + Filled) % max_size
      /\ \A k \in 0 .. max_size - 1 :
           /\ k < Filled => slots[(rindex + k) % max_size].frame > 0
           /\ k >= Filled => slots[(rindex + k) % max_size] = NoPicture
  BY DEF RingInv, Turn
<1>4. slots'[rindex] = NoPicture /\ \A n \in Slots : n # rindex => slots'[n] = slots[n]
  BY <1>3
<1>5. \A k \in 0 .. max_size - 1 : /\ (rindex' + k) % max_size = (rindex + (k + 1)) % max_size
                                   /\ k = max_size - 1 => (rindex + (k + 1)) % max_size = rindex
  BY <1>3, TurnNext
<1>6. 0 \in 0 .. max_size /\ 0 \in 0 .. max_size - 1 /\ 0 \in Nat
  BY <1>2
<1>7. rindex' \in Slots /\ (rindex + 0) % max_size = rindex
  <2>1. (rindex + 0) % max_size = IF rindex + 0 < max_size THEN rindex + 0 ELSE rindex + 0 - max_size
    BY <1>3, <1>6, TurnIs
  <2>2. rindex \in 0 .. max_size - 1
    BY <1>3 DEF Slots
  <2> QED BY <1>2, <1>3, <1>6, <2>1, <2>2, TurnNext
<1>8. windex = (rindex' + Filled') % max_size
  <2>1. PICK k \in 0 .. max_size - 1 : k = Filled'
    BY <1>2
  <2>2. k + 1 = Filled
    BY <1>2, <2>1
  <2> QED BY <1>3, <1>5, <2>1, <2>2
<1>9. ASSUME NEW k \in 0 .. max_size - 1
      PROVE  /\ k < Filled - 1 => slots'[(rindex' + k) % max_size].frame > 0
             /\ k >= Filled - 1 => slots'[(rindex' + k) % max_size] = NoPicture
  <2>1. (rindex' + k) % max_size = (rindex + (k + 1)) % max_size
    BY <1>5
  <2>2. CASE k = max_size - 1
    <3>1. (rindex' + k) % max_size = rindex /\ ~(k < Filled - 1)
      BY <1>2, <1>5, <2>2
    <3> QED BY <1>4, <3>1
  <2>3. CASE k # max_size - 1
    <3>1. PICK j \in 0 .. max_size - 1 : j = k + 1 /\ j # 0
      BY <1>2, <2>3
    <3>2. (rindex + j) % max_size \in Slots
      <4>1. j \in 0 .. max_size
        BY <1>2
      <4> QED BY <1>3, <4>1, TurnIs
    <3>3. (rindex + j) % max_size # rindex
      BY <1>3, <1>6, <1>7, <3>1, TurnsApart
    <3>4. slots'[(rindex' + k) % max_size] = slots[(rindex + j) % max_size]
      BY <1>4, <2>1, <3>1, <3>2, <3>3
    <3>5. (k < Filled - 1 => j < Filled) /\ (k >= Filled - 1 => j >= Filled)
      BY <1>2, <3>1
    <3> QED BY <1>3, <3>4, <3>5
  <2> QED BY <2>2, <2>3
<1>10. rindex_shown' <= size' - Leaving'
  BY <1>1, <1>2
<1> QED BY <1>2, <1>3, <1>7, <1>8, <1>9, <1>10 DEF RingInv, Turn

LEMMA RefreshKeepsRing ==
  ASSUME RingInv, Refresh, slots \in [Slots -> [frame : Nat, serial : Int]] PROVE RingInv'
<1>1. mpc = "refresh" /\ size - rindex_shown > 0 /\ UNCHANGED <<windex, size, dpc>>
  BY DEF Refresh, nb_remaining, mainOthers, decoder
<1>2. CASE rindex_shown = 0 /\ rindex_shown' = 1 /\ UNCHANGED <<slots, rindex, mpc>>
  <2>1. Leaving' = Leaving /\ Coming' = Coming /\ Leaving = 0
    BY <1>1, <1>2 DEF Leaving, Coming
  <2>2. Filled' = Filled
    BY <1>1, <2>1 DEF Filled
  <2>3. 1 <= size - 0
    BY <1>1, <1>2, FilledIs
  <2> QED BY <1>1, <1>2, <2>1, <2>2, <2>3 DEF RingInv, Turn
<1>3. CASE /\ rindex_shown = 1 /\ slots' = [slots EXCEPT ![rindex] = NoPicture]
           /\ rindex' = (rindex + 1) % max_size /\ mpc' = "next" /\ UNCHANGED rindex_shown
  BY <1>1, <1>3, ShownKeepsRing
<1> QED BY <1>2, <1>3 DEF Refresh, MGoto

LEMMA NextSizeKeepsRing ==
  ASSUME RingInv, NextSize PROVE RingInv'
<1>1. /\ mpc = "next" /\ mpc' = "refresh" /\ size' = size - 1
      /\ UNCHANGED <<slots, windex, rindex, rindex_shown, dpc>>
  BY DEF NextSize, MGoto, ring, mainOthers, decoder
<1>2. Leaving = 1 /\ Leaving' = 0 /\ Coming' = Coming
  BY <1>1 DEF Leaving, Coming
<1>3. Filled' = Filled /\ size \in Nat
  BY <1>1, <1>2, FilledIs DEF Filled
<1>4. size' \in Nat /\ size' <= max_size /\ (dpc' \in {"fill", "push"} => size' < max_size)
      /\ rindex_shown' <= size' - Leaving'
  <2>1. /\ rindex_shown \in {0, 1} /\ rindex_shown <= size - Leaving /\ size <= max_size
        /\ dpc \in {"fill", "push"} => size < max_size
    BY DEF RingInv
  <2>2. size >= 1
    BY <1>2, <1>3, <2>1
  <2> QED BY <1>1, <1>2, <1>3, <2>1, <2>2, FfplayAssumption
<1> QED BY <1>1, <1>3, <1>4 DEF RingInv, Turn

-----------------------------------------------------------------------------
(* Every step keeps the invariant.                                         *)
LEMMA PlayParts ==
  ASSUME PlayInv PROVE StreamInv /\ CloseInv /\ PicturesInv /\ RingInv
  BY DEF PlayInv, StreamInv

LEMMA PartsMakePlay ==
  ASSUME StreamInv', CloseInv', PicturesInv', RingInv' PROVE PlayInv'
  BY DEF PlayInv, StreamInv

LEMMA SamePictures ==
  ASSUME PicturesInv, UNCHANGED <<slots, readPkts, put_serial>> PROVE PicturesInv'
  BY DEF PicturesInv

LEMMA ReaderKeepsPlay ==
  ASSUME PlayInv, ReadStep PROVE PlayInv'
<1>1. StreamInv /\ CloseInv /\ PicturesInv /\ RingInv
  BY PlayParts
<1>2. UNCHANGED <<dpc, slots, windex, rindex, size, rindex_shown, mpc>> /\ q_abort' = q_abort /\ rpc # "gone"
  BY DEF ReadStep, ReadTop, ReadSeek, ReadCheck, ReadPacket, decoder, pictq, ring, queue, Put
<1>3. CloseInv'
  BY <1>1, <1>2 DEF CloseInv
<1>4. RingInv'
  <2>1. Leaving' = Leaving /\ Coming' = Coming
    BY <1>2 DEF Leaving, Coming
  <2>2. mpc \in {"refresh", "next", "join_read", "abort", "signal", "join", "closed"}
        /\ (dpc \in {"fill", "push"} => size < max_size)
    BY <1>1 DEF RingInv
  <2> QED BY <1>1, <1>2, <2>1, <2>2, RingKept DEF RingStays
<1>5. StreamInv'
  BY <1>1, ReaderKeepsStream
<1>6. CASE UNCHANGED <<readPkts, put_serial>>
  <2>1. PicturesInv'
    BY <1>1, <1>2, <1>6, SamePictures
  <2> QED BY <1>3, <1>4, <1>5, <2>1, PartsMakePlay
<1>7. CASE readPkts' = readPkts + 1 /\ put_serial' = Append(put_serial, serial)
  <2>1. put_serial \in Seq(Nat) /\ Len(put_serial) = readPkts /\ serial \in Nat /\ readPkts \in Nat
    BY <1>1, StreamParts DEF QueueTypeOK
  <2>2. \A p \in 1 .. readPkts : put_serial'[p] = put_serial[p]
    BY <1>7, <2>1
  <2>3. ASSUME NEW k \in Slots, slots[k].frame > 0
        PROVE  slots[k].frame <= readPkts' /\ put_serial'[slots[k].frame] = slots[k].serial
    <3>1. slots[k].frame \in Nat
      BY <1>1 DEF PicturesInv
    <3>2. slots[k].frame <= readPkts /\ put_serial[slots[k].frame] = slots[k].serial
      BY <1>1, <2>3 DEF PicturesInv
    <3>3. PICK p \in 1 .. readPkts : p = slots[k].frame
      BY <2>1, <2>3, <3>1, <3>2
    <3> QED BY <1>7, <2>1, <2>2, <3>2, <3>3
  <2>4. PicturesInv'
    BY <1>1, <1>2, <2>3 DEF PicturesInv
  <2> QED BY <1>3, <1>4, <1>5, <2>4, PartsMakePlay
<1> QED BY <1>6, <1>7 DEF ReadStep, ReadTop, ReadSeek, ReadCheck, ReadPacket, history

LEMMA DecoderKeepsPlay ==
  ASSUME PlayInv, DecodeStep PROVE PlayInv'
<1>1. StreamInv /\ CloseInv /\ PicturesInv /\ RingInv
  BY PlayParts
<1>2. UNCHANGED <<rpc, readPkts, put_serial, mpc, q_abort>>
  BY DEF DecodeStep, DecodeTop, DecodeReceive, DecodeWork, DecodeReceived, DecodeGet, DecodeCompare,
         DecodeSend, DecodeSent, PeekWritable, FillPicture, PushPicture, others, readVars, history,
         queue
<1>3. CloseInv'
  BY <1>1, <1>2 DEF CloseInv
<1>4. StreamInv'
  BY <1>1, DecoderKeepsStream
<1>5. Leaving' = Leaving
        /\ mpc' \in {"refresh", "next", "join_read", "abort", "signal", "join", "closed"}
  BY <1>1, <1>2 DEF Leaving, RingInv
<1>6. CASE FillPicture
  <2>1. /\ ret.frame > 0 /\ ret.frame <= readPkts /\ put_serial[ret.frame] = pkt_serial
        /\ ret.frame \in Nat /\ pkt_serial \in Int
    <3>1. HasFrame
      BY <1>6 DEF FillPicture, HasFrame
    <3>2. ret \in [code : {"ok", "frame", "EAGAIN", "EOF", "EINVAL", "error"}, frame : Nat]
      BY <1>1, StreamParts DEF DecodeTypeOK
    <3> QED BY <1>1, <3>1, <3>2, StreamParts DEF ContentsInv
  <2>2. slots \in [Slots -> [frame : Nat, serial : Int]] /\ windex \in Slots
    BY <1>1 DEF PicturesInv, RingInv
  <2>3. RingInv'
    BY <1>1, <1>6, <2>1, <2>2, FillKeepsRing
  <2>4. PICK new \in [frame : Nat, serial : Int] :
          new.frame = ret.frame /\ new.serial = pkt_serial /\ slots' = [slots EXCEPT ![windex] = new]
    BY <1>6, <2>1 DEF FillPicture
  <2>5. PicturesInv'
    <3>1. slots' \in [Slots -> [frame : Nat, serial : Int]]
      BY <2>2, <2>4
    <3>2. slots'[windex] = new /\ \A k \in Slots : k # windex => slots'[k] = slots[k]
      BY <2>2, <2>4
    <3>3. \A k \in Slots : slots'[k] = new \/ slots'[k] = slots[k]
      BY <3>2
    <3> QED BY <1>1, <1>2, <2>1, <2>4, <3>1, <3>3 DEF PicturesInv
  <2> QED BY <1>3, <1>4, <2>3, <2>5, PartsMakePlay
<1>7. CASE PushPicture
  <2>1. slots' = slots
    BY <1>7 DEF PushPicture
  <2>2. PicturesInv'
    BY <1>1, <1>2, <2>1, SamePictures
  <2> QED BY <1>1, <1>3, <1>4, <1>7, <2>2, PushKeepsRing, PartsMakePlay
<1>8. CASE /\ UNCHANGED <<slots, windex, rindex, size, rindex_shown>>
           /\ dpc # "push" /\ dpc' # "push" /\ (dpc' = "fill" => size < max_size)
  <2>1. Coming' = Coming
    BY <1>8 DEF Coming
  <2>2. RingInv'
    BY <1>1, <1>5, <1>8, <2>1, RingKept DEF RingStays
  <2>3. PicturesInv'
    BY <1>1, <1>2, <1>8, SamePictures
  <2> QED BY <1>3, <1>4, <2>2, <2>3, PartsMakePlay
<1>9. \/ FillPicture \/ PushPicture
      \/ /\ UNCHANGED <<slots, windex, rindex, size, rindex_shown>>
         /\ dpc # "push" /\ dpc' # "push" /\ (dpc' = "fill" => size < max_size)
  BY DEF DecodeStep, DecodeTop, DecodeReceive, DecodeWork, DecodeReceived, DecodeGet, DecodeCompare,
         DecodeSend, DecodeSent, PeekWritable, DGoto, pictq, ring
<1> QED BY <1>6, <1>7, <1>8, <1>9

MainStep == \/ Refresh \/ StreamSeek \/ StreamClose \/ MainGoesOn \/ SpuriousWake \/ Closed
            \/ UNCHANGED vars

LEMMA MainKeepsPlay ==
  ASSUME PlayInv, MainStep PROVE PlayInv'
<1>1. StreamInv /\ CloseInv /\ PicturesInv /\ RingInv
  BY PlayParts
<1>2. DecoderStays /\ UNCHANGED <<rpc, readPkts, put_serial, ended, serial>>
  BY DEF MainStep, MainGoesOn, Refresh, StreamSeek, StreamClose, NextSize, JoinRead, QueueAbort,
         SignalPictures, JoinDecoder, SpuriousWake, Closed, vars, mainOthers, others, readVars, queue,
         decoder, history, DecoderStays
<1>3. packets' = packets \/ (packets' = <<>> /\ mpc = "join")
  BY DEF MainStep, MainGoesOn, Refresh, StreamSeek, StreamClose, NextSize, JoinRead, QueueAbort,
         SignalPictures, JoinDecoder, SpuriousWake, Closed, vars, queue
<1>4. StreamInv'
  <2>1. mpc = "join" => rpc = "gone"
    BY <1>1 DEF CloseInv
  <2> QED BY <1>1, <1>2, <1>3, <2>1, MainKeepsStream
<1>5. CloseInv'
  <2>1. \/ q_abort' = q_abort /\ mpc' \in {mpc, "refresh", "next", "join_read"}
        \/ rpc = "gone" \/ mpc \in {"abort", "signal", "join"}
    BY DEF MainStep, MainGoesOn, Refresh, StreamSeek, StreamClose, NextSize, JoinRead, QueueAbort,
           SignalPictures, JoinDecoder, SpuriousWake, Closed, vars, queue, MGoto, others
  <2> QED BY <1>1, <1>2, <2>1 DEF CloseInv
<1>6. CASE Refresh
  <2>1. slots \in [Slots -> [frame : Nat, serial : Int]]
    BY <1>1 DEF PicturesInv
  <2>2. RingInv'
    BY <1>1, <1>6, <2>1, RefreshKeepsRing
  <2>3. slots' = slots \/ slots' = [slots EXCEPT ![rindex] = NoPicture]
    BY <1>6 DEF Refresh
  <2>4. NoPicture \in [frame : Nat, serial : Int] /\ ~(NoPicture.frame > 0)
    BY DEF NoPicture
  <2>5. PICK nothing \in [frame : Nat, serial : Int] : nothing = NoPicture /\ ~(nothing.frame > 0)
    BY <2>4
  <2>6. slots' \in [Slots -> [frame : Nat, serial : Int]]
        /\ \A k \in Slots : slots'[k] = slots[k] \/ slots'[k] = nothing
    BY <2>1, <2>3, <2>5
  <2>7. PicturesInv'
    BY <1>1, <1>2, <2>5, <2>6 DEF PicturesInv
  <2> QED BY <1>4, <1>5, <2>2, <2>7, PartsMakePlay
<1>7. CASE NextSize
  <2>1. slots' = slots
    BY <1>7 DEF NextSize
  <2>2. PicturesInv'
    BY <1>1, <1>2, <2>1, SamePictures
  <2> QED BY <1>1, <1>4, <1>5, <1>7, <2>2, NextSizeKeepsRing, PartsMakePlay
<1>8. CASE ~Refresh /\ ~NextSize
  <2>1. /\ UNCHANGED <<slots, windex, rindex, size, rindex_shown, dpc>>
        /\ mpc' = mpc \/ (mpc # "next" /\ mpc' \in {"join_read", "abort", "signal", "join", "closed"})
    BY <1>8 DEF MainStep, MainGoesOn, StreamSeek, StreamClose, JoinRead, QueueAbort, SignalPictures,
                JoinDecoder, SpuriousWake, Closed, vars, pictq, ring, MGoto, mainOthers, others, decoder
  <2>2. Leaving' = Leaving /\ Coming' = Coming
    BY <2>1 DEF Leaving, Coming
  <2>3. mpc \in {"refresh", "next", "join_read", "abort", "signal", "join", "closed"}
        /\ (dpc \in {"fill", "push"} => size < max_size)
    BY <1>1 DEF RingInv
  <2>4. RingInv'
    BY <1>1, <2>1, <2>2, <2>3, RingKept DEF RingStays
  <2>5. PicturesInv'
    BY <1>1, <1>2, <2>1, SamePictures
  <2> QED BY <1>4, <1>5, <2>4, <2>5, PartsMakePlay
<1> QED BY <1>6, <1>7, <1>8

-----------------------------------------------------------------------------
LEMMA InitPlay == ASSUME Init PROVE PlayInv
<1>1. /\ rpc = "top" /\ readPkts = 0 /\ packets = <<<<FLUSH, 1>>>> /\ serial = 1 /\ q_abort = FALSE
      /\ dpc = "top" /\ pkt = 0 /\ pkt_serial = -1 /\ pending = FALSE /\ finished = 0
      /\ slots = [k \in Slots |-> NoPicture] /\ windex = 0 /\ rindex = 0 /\ size = 0
      /\ rindex_shown = 0 /\ mpc = "refresh" /\ put_serial = <<>> /\ ended = "open"
      /\ bsf_eof = FALSE /\ bsf_pkt = 0 /\ in_pkt = 0 /\ parts = 0 /\ held = <<>>
      /\ buffer_frame = 0 /\ draining = FALSE /\ draining_done = FALSE /\ nb_draining_errors = 0
      /\ busy = "none" /\ ret = [code |-> "ok", frame |-> 0] /\ accepted = {}
  BY DEF Init, DecodeInit, NoFrame
<1>2. Len(packets) = 1 /\ packets \in Seq(Int \X (Nat \ {0})) /\ Kinds[1] = -1 /\ Serials[1] = 1
  <2>1. PICK e \in Int \X (Nat \ {0}) : e = <<FLUSH, 1>> /\ e[1] = -1 /\ e[2] = 1
    <3>1. PICK f \in Int, n \in Nat \ {0} : f = -1 /\ n = 1 /\ f = FLUSH
      BY DEF FLUSH
    <3>2. <<f, n>> \in Int \X (Nat \ {0}) /\ <<f, n>>[1] = f /\ <<f, n>>[2] = n
      OBVIOUS
    <3> QED BY <3>1, <3>2
  <2>2. packets = <<e>>
    BY <1>1, <2>1
  <2>3. Len(packets) = 1 /\ packets \in Seq(Int \X (Nat \ {0})) /\ packets[1] = e
    BY <2>2
  <2> QED BY <2>1, <2>3 DEF Kinds, Serials
<1>3. ~InHand /\ ~Flushing /\ ~NullInHand /\ ~HasFrame /\ FLUSH = -1
  BY <1>1 DEF InHand, Flushing, NullInHand, HasFrame, FLUSH
<1>4. QueueTypeOK
  <2>1. put_serial \in Seq(Nat) /\ Len(put_serial) = 0
    BY <1>1
  <2> QED BY <1>1, <1>2, <2>1 DEF QueueTypeOK
<1>5. DecodeTypeOK
  <2>1. held \in Seq(Nat \ {0})
    BY <1>1
  <2>2. bsf_eof \in BOOLEAN /\ draining \in BOOLEAN /\ draining_done \in BOOLEAN
    BY Zenon, <1>1
  <2> QED BY <1>1, <2>1, <2>2 DEF DecodeTypeOK
<1>6. QueueInv
  <2>1. Before[1] = -1 /\ Before[2] = 1
    BY <1>1, <1>2 DEF Before
  <2>2. \A i \in 1 .. 1 : i = 1
    OBVIOUS
  <2> QED BY <1>1, <1>2, <1>3, <2>1, <2>2 DEF QueueInv
<1>7. Contents = {0}
  <2>1. {held[i] : i \in 1 .. Len(held)} = {}
    <3>1. Len(held) = 0 /\ 1 .. 0 = {}
      BY <1>1
    <3> QED BY <3>1
  <2> QED BY <1>1, <2>1 DEF Contents
<1>8. ContentsInv
  BY <1>3, <1>7 DEF ContentsInv
<1>9. ApiInv /\ DecoderInv /\ FinishedInv
  BY <1>1, <1>3 DEF ApiInv, DecoderInv, FinishedInv, Answered
<1>10. OpenInv
  <2>1. \A i \in 1 .. Len(packets) : Kinds[i] # 0
    BY <1>2
  <2> QED BY <1>1, <2>1 DEF OpenInv
<1>11. EndedInv /\ ShownInv
  BY <1>1 DEF EndedInv, ShownInv
<1>12. NothingLost
  BY <1>1 DEF NothingLost
<1>13. \A k \in Slots : slots[k] = NoPicture
  BY <1>1
<1>14. PicturesInv
  <2>1. PICK nothing \in [frame : Nat, serial : Int] : nothing = NoPicture /\ ~(nothing.frame > 0)
    <3>1. NoPicture \in [frame : Nat, serial : Int] /\ ~(NoPicture.frame > 0)
      BY DEF NoPicture
    <3> QED BY <3>1
  <2>2. slots \in [Slots -> [frame : Nat, serial : Int]] /\ \A k \in Slots : slots[k] = nothing
    BY <1>1, <2>1
  <2> QED BY <2>1, <2>2 DEF PicturesInv
<1>15. RingInv
  <2>1. max_size \in Nat /\ max_size > 1 /\ 0 \in Slots /\ 0 \in 0 .. max_size
    BY FfplayAssumption DEF Slots
  <2>2. Filled = 0 /\ Leaving = 0
    BY <1>1 DEF Filled, Leaving, Coming
  <2>3. (0 + 0) % max_size = 0
    BY <2>1, TurnIs
  <2>4. ASSUME NEW k \in 0 .. max_size - 1
        PROVE  /\ k < Filled => slots[Turn(k)].frame > 0
               /\ k >= Filled => slots[Turn(k)] = NoPicture
    <3>1. k \in 0 .. max_size
      BY <2>1
    <3>2. Turn(k) \in Slots
      BY <1>1, <2>1, <3>1, TurnIs DEF Turn
    <3> QED BY <1>13, <2>2, <3>2
  <2>5. windex = Turn(Filled)
    BY <1>1, <2>2, <2>3 DEF Turn
  <2> QED BY <1>1, <2>1, <2>2, <2>4, <2>5 DEF RingInv
<1>16. CloseInv
  BY <1>1 DEF CloseInv
<1> QED BY <1>4, <1>5, <1>6, <1>8, <1>9, <1>10, <1>11, <1>12, <1>14, <1>15, <1>16 DEF PlayInv

-----------------------------------------------------------------------------
(* The player as a whole: what its three threads keep true together,       *)
(* whatever the read thread reads, however often the user seeks, and       *)
(* whenever the player is closed.                                          *)
THEOREM PlayCorrect == Spec => []PlayInv
<1>1. Init => PlayInv
  BY InitPlay
<1>2. PlayInv /\ [Next]_vars => PlayInv'
  BY ReaderKeepsPlay, DecoderKeepsPlay, MainKeepsPlay DEF Next, MainStep
<1> QED BY <1>1, <1>2, PTL DEF Spec

(* A picture in the queue bears the serial that its packet was put with    *)
(* (queue_picture, decoder_decode_frame): no picture of before a seek      *)
(* passes for one of after it.                                             *)
THEOREM SerialsMatch == Spec => []SerialMatches
<1>1. PlayInv => SerialMatches
  <2> SUFFICES ASSUME PlayInv, NEW k \in Slots, slots[k].frame # 0
               PROVE  put_serial[slots[k].frame] = slots[k].serial
    BY DEF SerialMatches
  <2>1. PicturesInv
    BY PlayParts
  <2>2. slots[k].frame \in Nat
    BY <2>1 DEF PicturesInv
  <2> QED BY <2>1, <2>2 DEF PicturesInv
<1> QED BY <1>1, PlayCorrect, PTL

(* The slot that the decoder thread fills is empty, and none that the main *)
(* thread shows or has still to show (frame_queue_peek_writable against    *)
(* frame_queue_peek and frame_queue_next).                                 *)
THEOREM SlotsAreExclusive == Spec => []SlotsExclusive
<1>1. PlayInv => SlotsExclusive
  <2> SUFFICES ASSUME PlayInv PROVE SlotsExclusive
    OBVIOUS
  <2>1. RingInv
    BY PlayParts
  <2>2. Leaving \in {0, 1} /\ Coming \in {0, 1} /\ Filled \in 0 .. max_size /\ max_size \in Nat
        /\ size \in Nat /\ (dpc = "fill" => Filled < max_size) /\ size - Leaving <= Filled
    BY <2>1, FilledIs DEF Filled
  <2>3. /\ rindex \in Slots /\ windex = (rindex + Filled) % max_size
        /\ \A k \in 0 .. max_size - 1 :
             /\ k < Filled => slots[(rindex + k) % max_size].frame > 0
             /\ k >= Filled => slots[(rindex + k) % max_size] = NoPicture
    BY <2>1 DEF RingInv, Turn
  <2>4. size - (IF mpc = "next" THEN 2 ELSE 1) = size - Leaving - 1
    BY <2>2 DEF Leaving
  <2>5. ASSUME NEW w \in Waiting
        PROVE  \E k \in 0 .. max_size - 1 : k < Filled /\ w = (rindex + k) % max_size
    <3>1. PICK k \in 0 .. size - Leaving - 1 : w = (rindex + k) % max_size
      BY <2>4 DEF Waiting
    <3>2. k \in 0 .. max_size - 1 /\ k < Filled
      BY <2>2
    <3> QED BY <3>1, <3>2
  <2>6. ASSUME dpc = "fill" PROVE slots[windex] = NoPicture /\ windex \notin Waiting
    <3>1. Filled \in 0 .. max_size - 1 /\ Filled >= Filled
      BY <2>2, <2>6
    <3>2. slots[windex] = NoPicture
      BY <2>3, <3>1
    <3>3. ASSUME windex \in Waiting PROVE FALSE
      <4>1. PICK k \in 0 .. max_size - 1 : k < Filled /\ windex = (rindex + k) % max_size
        BY <2>5, <3>3
      <4>2. k = Filled
        BY <2>3, <3>1, <4>1, TurnsApart
      <4> QED BY <2>2, <4>1, <4>2
    <3> QED BY <3>2, <3>3
  <2>7. ASSUME NEW w \in Waiting PROVE slots[w] # NoPicture
    <3>1. PICK k \in 0 .. max_size - 1 : k < Filled /\ w = (rindex + k) % max_size
      BY <2>5
    <3>2. slots[w].frame > 0
      BY <2>3, <3>1
    <3>3. ~(NoPicture.frame > 0)
      BY DEF NoPicture
    <3> QED BY <3>2, <3>3
  <2> QED BY <2>6, <2>7 DEF SlotsExclusive
<1> QED BY <1>1, PlayCorrect, PTL

(* The way the player calls the decoding functions, it cannot happen that  *)
(* the decoder is drained while the bitstream filter still has a packet:   *)
(* a decoder that has no more frames has been given all that was accepted. *)
THEOREM DecoderDrains == Spec => []DrainedCompletely
<1>1. PlayInv => DrainedCompletely
  <2> SUFFICES ASSUME PlayInv, draining_done PROVE accepted \subseteq decoded
    BY DEF DrainedCompletely
  <2>1. /\ bsf_pkt = 0 /\ in_pkt = 0 /\ 0 \notin accepted
        /\ accepted \subseteq decoded \cup {bsf_pkt, in_pkt}
    BY PlayParts, StreamParts DEF DecoderInv
  <2> QED BY <2>1
<1> QED BY <1>1, PlayCorrect, PTL

(* When the read thread finds playback at its end (is->viddec.finished ==  *)
(* is->videoq.serial and nothing left to show), every packet since the     *)
(* seek has been decoded and no picture is still on its way.               *)
THEOREM EndIsShown == Spec => []EndMeansAllShown
<1> DEFINE Shown == /\ \A p \in DOMAIN put_serial : put_serial[p] = serial => p \in decoded
                    /\ dpc \notin {"fill", "push", "writable"}
<1>1. ASSUME PlayInv, rpc = "check", PlaybackEnded, ended = "ended" PROVE Shown
  <2> USE <1>1 DEF PlaybackEnded
  <2>1. StreamInv
    BY PlayParts
  <2>2. pkt_serial = serial /\ EofTaken
    BY <2>1, StreamParts DEF EofTaken
  <2>3. /\ \A j \in 1 .. Len(packets) : Kinds[j] <= 0
        /\ ~(InHand /\ pkt > 0)
    BY <2>1, <2>2, StreamParts DEF EndedInv
  <2>4. Contents = {0} /\ dpc # "push" /\ ~HasFrame
    BY <2>1, StreamParts DEF ShownInv
  <2>5. ASSUME NEW p \in DOMAIN put_serial, put_serial[p] = serial PROVE p \in decoded
    <3>1. p \in 1 .. readPkts /\ p > 0
      BY <2>1, StreamParts DEF QueueTypeOK
    <3>2. Underway(p)
      BY <2>1, <2>5, <3>1, StreamParts DEF NothingLost
    <3>3. bsf_pkt = 0 /\ in_pkt = 0
      BY <2>4 DEF Contents
    <3> QED BY <2>3, <3>1, <3>2, <3>3 DEF Underway
  <2> QED BY <2>4, <2>5 DEF HasFrame
<1>2. PlayInv /\ DrainedCompletely => EndMeansAllShown
  BY <1>1 DEF EndMeansAllShown
<1> QED BY <1>2, PlayCorrect, DecoderDrains, PTL

(* The decoder of the player never refuses a packet: decoder_decode_frame  *)
(* never comes to "Receive_frame and send_packet both returned EAGAIN,     *)
(* which is an API violation", and keeps no packet for another attempt.    *)
THEOREM NeverRefused == Spec => [](pending = FALSE)
<1>1. PlayInv => pending = FALSE
  BY PlayParts, StreamParts DEF ApiInv
<1> QED BY <1>1, PlayCorrect, PTL
=============================================================================
