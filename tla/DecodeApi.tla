----------------------------- MODULE DecodeApi -----------------------------
(***************************************************************************)
(* libavcodec/decode.c: avcodec_send_packet, avcodec_receive_frame and     *)
(* avcodec_flush_buffers, with the bitstream filter in front of the        *)
(* decoder (libavcodec/bsf.c).  The filter is the one that decoders        *)
(* without a list of their own get: it passes packets on and holds one.    *)
(*                                                                         *)
(* A packet is a positive number, the packet without data is 0, and a      *)
(* frame is the number of its packet.  A call is one step up to its return *)
(* or to the loop of decode_simple_receive_frame, and each turn of that    *)
(* loop is a step.  Whoever composes with this module makes the calls.     *)
(***************************************************************************)
EXTENDS Integers, Sequences

CONSTANTS Delay,          \* frames a decoder with CAP_DELAY holds; 0: no CAP_DELAY
          MaxParts,       \* most frames of a packet (1 for video)
          nb_errors_max   \* errors while draining that are put up with

ASSUME DecodeAssumption ==
  Delay \in Nat /\ MaxParts \in Nat \ {0} /\ nb_errors_max \in Nat

VARIABLES
  bsf_eof, bsf_pkt,        \* eof and buffer_pkt of the bitstream filter
  in_pkt, parts,           \* avci->ds.in_pkt and the frames left in it
  held,                    \* packets whose frames the decoder holds back
  buffer_frame, draining, draining_done, nb_draining_errors,
  busy,                    \* the call whose loop runs, or "none"
  ret,                     \* what the last call returned
  accepted, decoded        \* history: packets accepted since the last flush, and
                           \* all that have reached the decoder

decodeVars == <<bsf_eof, bsf_pkt, in_pkt, parts, held, buffer_frame, draining,
                draining_done, nb_draining_errors, busy, ret, accepted, decoded>>
bsf == <<bsf_eof, bsf_pkt>>

NoFrame == 0
Returns(r) == busy' = "none" /\ ret' = [code |-> r, frame |-> NoFrame]
ReturnsFrame(f) == busy' = "none" /\ ret' = [code |-> "frame", frame |-> f]

DecodeInit ==
  /\ bsf_eof = FALSE /\ bsf_pkt = 0 /\ in_pkt = 0 /\ parts = 0 /\ held = <<>>
  /\ buffer_frame = NoFrame /\ draining = FALSE /\ draining_done = FALSE
  /\ nb_draining_errors = 0 /\ busy = "none"
  /\ ret = [code |-> "ok", frame |-> NoFrame] /\ accepted = {} /\ decoded = {}
-----------------------------------------------------------------------------
(* av_bsf_send_packet, after avcodec_send_packet has let the call pass,    *)
(* and the decoding of one frame ahead when there is room for it.          *)
SendPacket(p) ==
  /\ busy = "none"
  /\ \/ draining /\ Returns("EOF") /\ UNCHANGED <<bsf, accepted>>
     \/ ~draining /\ p # 0 /\ bsf_eof /\ Returns("EINVAL") /\ UNCHANGED <<bsf, accepted>>
     \/ /\ ~draining /\ p # 0 /\ ~bsf_eof /\ bsf_pkt # 0
        /\ Returns("EAGAIN") /\ UNCHANGED <<bsf, accepted>>
     \/ /\ ~draining /\ (p = 0 \/ ~(bsf_eof \/ bsf_pkt # 0))
        /\ IF p = 0 THEN bsf_eof' = TRUE /\ UNCHANGED <<bsf_pkt, accepted>>
                    ELSE bsf_pkt' = p /\ accepted' = accepted \cup {p} /\ UNCHANGED bsf_eof
        /\ IF buffer_frame = NoFrame THEN busy' = "send" /\ UNCHANGED ret ELSE Returns("ok")
  /\ UNCHANGED <<in_pkt, parts, held, buffer_frame, draining, draining_done,
                 nb_draining_errors, decoded>>

ReceiveFrame ==
  /\ busy = "none"
  /\ IF buffer_frame # NoFrame
     THEN ReturnsFrame(buffer_frame) /\ buffer_frame' = NoFrame
     ELSE busy' = "receive" /\ UNCHANGED <<buffer_frame, ret>>
  /\ UNCHANGED <<bsf, in_pkt, parts, held, draining, draining_done, nb_draining_errors,
                 accepted, decoded>>

(* What a call makes of the end of the loop: sending puts a frame aside    *)
(* and hides that there is none.                                           *)
LoopEnds(code) ==
  /\ Returns(IF busy = "send" /\ code \in {"EAGAIN", "EOF"} THEN "ok" ELSE code)
  /\ UNCHANGED buffer_frame

LoopGives(f) ==
  IF busy = "send" THEN buffer_frame' = f /\ Returns("ok")
                   ELSE ReturnsFrame(f) /\ UNCHANGED buffer_frame

LoopGoesOn == UNCHANGED <<busy, ret, buffer_frame>>

(* ff_bsf_get_packet_ref: the end of the stream comes before a packet. *)
BsfPacket == IF bsf_eof THEN "EOF" ELSE IF bsf_pkt # 0 THEN "packet" ELSE "EAGAIN"

(* decode_simple_internal: fetch a packet, ... *)
FetchPacket ==
  /\ busy # "none" /\ in_pkt = 0 /\ ~draining
  /\ \/ BsfPacket = "EAGAIN" /\ LoopEnds("EAGAIN")
        /\ UNCHANGED <<bsf, in_pkt, parts, draining>>
     \/ BsfPacket = "EOF" /\ draining' = TRUE /\ LoopGoesOn
        /\ UNCHANGED <<bsf, in_pkt, parts>>
     \/ BsfPacket = "packet" /\ in_pkt' = bsf_pkt /\ bsf_pkt' = 0 /\ parts' \in 1 .. MaxParts
        /\ LoopGoesOn /\ UNCHANGED <<bsf_eof, draining>>
  /\ UNCHANGED <<held, draining_done, nb_draining_errors, accepted, decoded>>

(* ... refuse when nothing can come any more, ... *)
NoMoreFrames ==
  /\ busy # "none" /\ (in_pkt # 0 \/ draining)
  /\ draining_done \/ (in_pkt = 0 /\ Delay = 0)
  /\ draining_done' = TRUE
  /\ LoopEnds("EOF")
  /\ UNCHANGED <<bsf, in_pkt, parts, held, draining, nb_draining_errors, accepted, decoded>>

(* ... or decode.  A frame may be marked to be discarded. *)
Gives(f) == LoopGives(f) \/ LoopGoesOn

DecodePacket ==
  /\ busy # "none" /\ in_pkt # 0 /\ ~draining_done
  /\ decoded' = decoded \cup {in_pkt}
  /\ \/ LoopEnds("error") /\ in_pkt' = 0 /\ parts' = 0 /\ UNCHANGED held
     \/ /\ parts' = parts - 1 /\ in_pkt' = IF parts = 1 THEN 0 ELSE in_pkt
        /\ LET all == Append(held, in_pkt) IN
           IF Len(all) > Delay THEN held' = Tail(all) /\ Gives(Head(all))
                               ELSE held' = all /\ LoopGoesOn
  /\ UNCHANGED <<bsf, draining, draining_done, nb_draining_errors, accepted>>

(* While draining, the decoder gives the frames it has held back.  Errors  *)
(* are put up with, but not for ever.                                      *)
Drain ==
  /\ busy # "none" /\ in_pkt = 0 /\ draining /\ ~draining_done /\ Delay > 0
  /\ \/ /\ held # <<>> /\ held' = Tail(held) /\ Gives(Head(held))
        /\ UNCHANGED <<draining_done, nb_draining_errors>>
     \/ /\ held = <<>> /\ draining_done' = TRUE /\ LoopGoesOn
        /\ UNCHANGED <<held, nb_draining_errors>>
     \/ /\ nb_draining_errors' = nb_draining_errors + 1
        /\ draining_done' = (nb_draining_errors >= nb_errors_max)
        /\ LoopEnds("error") /\ UNCHANGED held
  /\ UNCHANGED <<bsf, in_pkt, parts, draining, accepted, decoded>>

DecodeLoop == FetchPacket \/ NoMoreFrames \/ DecodePacket \/ Drain

(* Mutant of FlushBuffers: the decoder keeps the frames it holds back. *)
FlushBuffersKept ==
  /\ bsf_eof' = FALSE /\ bsf_pkt' = 0 /\ in_pkt' = 0 /\ parts' = 0
  /\ buffer_frame' = NoFrame /\ draining' = FALSE /\ draining_done' = FALSE
  /\ nb_draining_errors' = 0 /\ accepted' = {}
  /\ UNCHANGED <<held, decoded, busy, ret>>

(* avcodec_flush_buffers. *)
FlushBuffers ==
  /\ bsf_eof' = FALSE /\ bsf_pkt' = 0 /\ in_pkt' = 0 /\ parts' = 0 /\ held' = <<>>
  /\ buffer_frame' = NoFrame /\ draining' = FALSE /\ draining_done' = FALSE
  /\ nb_draining_errors' = 0 /\ accepted' = {}
  /\ UNCHANGED <<decoded, busy, ret>>

-----------------------------------------------------------------------------
(* A decoder that says it has no more frames has been given every packet   *)
(* that was accepted: "If the decoder still has frames buffered, it will   *)
(* return them after sending a flush packet" (avcodec.h).                  *)
DrainedCompletely == draining_done => accepted \subseteq decoded
=============================================================================
