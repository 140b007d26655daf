------------------------------- MODULE Ffplay -------------------------------
(***************************************************************************)
(* fftools/ffplay.c: the video of a player.  The read thread puts packets  *)
(* into the packet queue, the decoder thread turns them into pictures with *)
(* the decoding functions (DecodeApi) and puts these into the picture      *)
(* queue, and the main thread shows them, asks for seeks and closes.       *)
(*                                                                         *)
(* A seek starts a new serial.  The serial, the counts and the finished    *)
(* mark are read by other threads without the mutex: such a read is a step *)
(* of its own, as is each critical section.                                *)
(***************************************************************************)
EXTENDS DecodeApi, FiniteSets

CONSTANTS max_size,    \* of the picture queue, VIDEO_PICTURE_QUEUE_SIZE
          MaxPackets,  \* bound: packets read
          MaxSeeks     \* bound: seeks

ASSUME FfplayAssumption ==
  max_size \in Nat \ {0, 1} /\ MaxPackets \in Nat /\ MaxSeeks \in Nat

FLUSH == -1            \* flush_pkt; the null packet is 0
Slots == 0 .. max_size - 1

VARIABLES
  rpc, eof, readPkts,       \* read thread: where it is, is->eof, packets read
  seek_req, seeks, abort_request,
  packets,                  \* videoq: <<packet, serial>>
  serial, q_abort, getWait, \* videoq.serial, .abort_request, and whether the
                            \* decoder is in SDL_CondWait on videoq.cond
  dpc, pkt, pkt_serial, pending, finished,   \* decoder thread
  slots, windex, rindex, size, rindex_shown, \* pictq
  pictWait,                 \* the decoder is in SDL_CondWait on pictq.cond
  mpc,                      \* where the main thread is
  put_serial,               \* history: put_serial[p], the serial p was put with
  ended                     \* history: "open", "ended" by a null packet, or "grown"
                            \* by packets after it, since the serial began

readVars == <<rpc, eof, readPkts, abort_request>>
seekVars == <<seek_req, seeks>>
queue == <<packets, serial, q_abort, getWait>>
decoder == <<dpc, pkt, pkt_serial, pending, finished, decodeVars>>
ring == <<windex, rindex, rindex_shown>>
pictq == <<slots, ring, size, pictWait>>
history == <<put_serial, ended>>
vars == <<readVars, seekVars, queue, decoder, pictq, mpc, history>>

NoPicture == [frame |-> 0, serial |-> 0]

Init ==
  /\ rpc = "top" /\ eof = FALSE /\ readPkts = 0 /\ abort_request = FALSE
  /\ seek_req = FALSE /\ seeks = 0
  /\ packets = <<<<FLUSH, 1>>>> /\ serial = 1 /\ q_abort = FALSE /\ getWait = FALSE
  /\ dpc = "top" /\ pkt = 0 /\ pkt_serial = -1 /\ pending = FALSE /\ finished = 0
  /\ DecodeInit
  /\ slots = [k \in Slots |-> NoPicture]
  /\ windex = 0 /\ rindex = 0 /\ size = 0 /\ rindex_shown = 0 /\ pictWait = FALSE
  /\ mpc = "refresh"
  /\ put_serial = <<>> /\ ended = "open"

nb_remaining == size - rindex_shown
-----------------------------------------------------------------------------
(* packet_queue_put: an aborted queue takes nothing; flush_pkt starts a    *)
(* new serial.                                                             *)
Put(p) ==
  IF q_abort THEN UNCHANGED queue
  ELSE /\ serial' = IF p = FLUSH THEN serial + 1 ELSE serial
       /\ packets' = Append(packets, <<p, serial'>>)
       /\ getWait' = FALSE /\ UNCHANGED q_abort

(* read_thread.  Every way through its loop starts with abort_request and  *)
(* a seek, ...                                                             *)
ReadTop ==
  /\ rpc = "top"
  /\ \/ abort_request /\ rpc' = "gone" /\ UNCHANGED <<eof, seek_req, packets>>
     \/ ~abort_request /\ ~seek_req /\ rpc' = "check" /\ UNCHANGED <<eof, seek_req, packets>>
     \/ /\ ~abort_request /\ seek_req      \* avformat_seek_file succeeds, ...
        /\ packets' = <<>> /\ rpc' = "seek" /\ UNCHANGED <<eof, seek_req>>
     \/ /\ ~abort_request /\ seek_req      \* ... or fails
        /\ seek_req' = FALSE /\ eof' = FALSE /\ rpc' = "check" /\ UNCHANGED packets
  /\ UNCHANGED <<readPkts, abort_request, seeks, serial, q_abort, getWait, decoder, pictq,
                 mpc, history>>

ReadSeek ==
  /\ rpc = "seek"
  /\ Put(FLUSH)
  /\ seek_req' = FALSE /\ eof' = FALSE /\ rpc' = "check"
  /\ ended' = "open"
  /\ UNCHANGED <<readPkts, abort_request, seeks, decoder, pictq, mpc, put_serial>>

(* ... goes on with the end of playback, which ends the thread (autoexit), *)
(* starts a seek (loop), or means nothing, or starts again because the     *)
(* queues are full, ...                                                    *)
PlaybackEnded == finished = serial /\ nb_remaining = 0

ReadCheck ==
  /\ rpc = "check"
  /\ \/ PlaybackEnded /\ rpc' = "gone" /\ UNCHANGED seekVars
     \/ /\ PlaybackEnded /\ rpc' = "read" /\ ~seek_req /\ seeks < MaxSeeks
        /\ seek_req' = TRUE /\ seeks' = seeks + 1
     \/ rpc' \in {"read", "top"} /\ UNCHANGED seekVars
  /\ UNCHANGED <<eof, readPkts, abort_request, queue, decoder, pictq, mpc, history>>

(* ... and ends with a packet, the end of the file, or an error, which is  *)
(* tried again or ends the thread.  After the end of the file there may be *)
(* more, when the file grows.                                              *)
ReadPacket ==
  /\ rpc = "read"
  /\ \/ /\ readPkts < MaxPackets /\ readPkts' = readPkts + 1
        /\ Put(readPkts + 1) /\ eof' = FALSE
        /\ put_serial' = Append(put_serial, serial)
        /\ ended' = IF ended = "open" THEN "open" ELSE "grown"
        /\ rpc' = "top"
     \/ /\ ~eof /\ eof' = TRUE /\ Put(0) /\ rpc' = "top"
        /\ ended' = IF ended = "open" THEN "ended" ELSE ended
        /\ UNCHANGED <<readPkts, put_serial>>
     \/ /\ rpc' \in {"top", "gone"} /\ UNCHANGED <<eof, queue, readPkts, history>>
  /\ UNCHANGED <<abort_request, seekVars, decoder, pictq, mpc>>

ReadStep == ReadTop \/ ReadSeek \/ ReadCheck \/ ReadPacket

-----------------------------------------------------------------------------
(* decoder_decode_frame in the decoder thread. *)
DGoto(label) == dpc' = label
decoderLocals == <<pkt, pkt_serial, pending, finished>>
others == <<readVars, seekVars, mpc, history>>

DecodeTop ==
  /\ dpc = "top"
  /\ DGoto(IF serial = pkt_serial THEN "receive" ELSE "get")
  /\ UNCHANGED <<others, queue, decoderLocals, decodeVars, pictq>>

DecodeReceive ==
  /\ dpc = "receive"
  /\ \/ q_abort /\ DGoto("gone") /\ UNCHANGED decodeVars
     \/ ~q_abort /\ ReceiveFrame /\ DGoto("received")
  /\ UNCHANGED <<others, queue, decoderLocals, pictq>>

DecodeWork ==
  /\ dpc \in {"received", "sent"} /\ DecodeLoop
  /\ UNCHANGED <<dpc, others, queue, decoderLocals, pictq>>

(* Mutant of DecodeReceived: the serial that is marked finished is that of *)
(* the queue.                                                              *)
DecodeReceivedOther ==
  /\ dpc = "received" /\ busy = "none"
  /\ \/ /\ ret.code = "frame" /\ (DGoto("writable") \/ DGoto("top"))
        /\ UNCHANGED <<finished, decodeVars>>
     \/ /\ ret.code = "EOF" /\ finished' = serial /\ FlushBuffers /\ DGoto("top")
     \/ /\ ret.code = "EAGAIN" /\ DGoto("get") /\ UNCHANGED <<finished, decodeVars>>
     \/ /\ ret.code = "error" /\ DGoto("receive") /\ UNCHANGED <<finished, decodeVars>>
  /\ UNCHANGED <<others, queue, pkt, pkt_serial, pending, pictq>>

(* A picture; the end of the stream; nothing yet; or an error, after which *)
(* the decoder is asked again.  A picture may be dropped early.            *)
DecodeReceived ==
  /\ dpc = "received" /\ busy = "none"
  /\ \/ /\ ret.code = "frame" /\ (DGoto("writable") \/ DGoto("top"))
        /\ UNCHANGED <<finished, decodeVars>>
     \/ /\ ret.code = "EOF" /\ finished' = pkt_serial /\ FlushBuffers /\ DGoto("top")
     \/ /\ ret.code = "EAGAIN" /\ DGoto("get") /\ UNCHANGED <<finished, decodeVars>>
     \/ /\ ret.code = "error" /\ DGoto("receive") /\ UNCHANGED <<finished, decodeVars>>
  /\ UNCHANGED <<others, queue, pkt, pkt_serial, pending, pictq>>

(* packet_queue_get, or the packet that the decoder refused. *)
DecodeGet ==
  /\ dpc = "get" /\ ~getWait
  /\ \/ /\ pending /\ pending' = FALSE /\ DGoto("compare")
        /\ UNCHANGED <<packets, getWait, pkt, pkt_serial>>
     \/ /\ ~pending /\ q_abort /\ DGoto("gone")
        /\ UNCHANGED <<packets, getWait, pkt, pkt_serial, pending>>
     \/ /\ ~pending /\ ~q_abort /\ packets = <<>> /\ getWait' = TRUE
        /\ UNCHANGED <<dpc, packets, pkt, pkt_serial, pending>>
     \/ /\ ~pending /\ ~q_abort /\ packets # <<>>
        /\ packets' = Tail(packets)
        /\ pkt' = Head(packets)[1] /\ pkt_serial' = Head(packets)[2]
        /\ DGoto("compare") /\ UNCHANGED <<getWait, pending>>
  /\ UNCHANGED <<others, serial, q_abort, finished, decodeVars, pictq>>

(* A packet of an older serial is dropped. *)
DecodeCompare ==
  /\ dpc = "compare"
  /\ DGoto(IF serial = pkt_serial THEN "send" ELSE "get")
  /\ UNCHANGED <<others, queue, decoderLocals, decodeVars, pictq>>

DecodeSend ==
  /\ dpc = "send"
  /\ \/ pkt = FLUSH /\ FlushBuffers /\ finished' = 0 /\ DGoto("top")
     \/ pkt # FLUSH /\ SendPacket(pkt) /\ DGoto("sent") /\ UNCHANGED finished
  /\ UNCHANGED <<others, queue, pkt, pkt_serial, pending, pictq>>

DecodeSent ==
  /\ dpc = "sent" /\ busy = "none"
  /\ pending' = (ret.code = "EAGAIN")
  /\ DGoto("top")
  /\ UNCHANGED <<others, queue, pkt, pkt_serial, finished, decodeVars, pictq>>

(* Mutant of PeekWritable: one picture too many. *)
PeekWritableOver ==
  /\ dpc = "writable" /\ ~pictWait
  /\ \/ size > max_size /\ ~q_abort /\ pictWait' = TRUE /\ UNCHANGED dpc
     \/ q_abort /\ DGoto("gone") /\ UNCHANGED pictWait
     \/ size <= max_size /\ ~q_abort /\ DGoto("fill") /\ UNCHANGED pictWait
  /\ UNCHANGED <<others, queue, decoderLocals, decodeVars, slots, ring, size>>

(* queue_picture: frame_queue_peek_writable, ... *)
PeekWritable ==
  /\ dpc = "writable" /\ ~pictWait
  /\ \/ size >= max_size /\ ~q_abort /\ pictWait' = TRUE /\ UNCHANGED dpc
     \/ q_abort /\ DGoto("gone") /\ UNCHANGED pictWait
     \/ size < max_size /\ ~q_abort /\ DGoto("fill") /\ UNCHANGED pictWait
  /\ UNCHANGED <<others, queue, decoderLocals, decodeVars, slots, ring, size>>

(* ... fill in the picture, ... *)
FillPicture ==
  /\ dpc = "fill"
  /\ slots' = [slots EXCEPT ![windex] = [frame |-> ret.frame, serial |-> pkt_serial]]
  /\ windex' = (windex + 1) % max_size
  /\ DGoto("push")
  /\ UNCHANGED <<others, queue, decoderLocals, decodeVars, rindex, rindex_shown, size, pictWait>>

(* ... and frame_queue_push. *)
PushPicture ==
  /\ dpc = "push" /\ size' = size + 1 /\ DGoto("top")
  /\ UNCHANGED <<others, queue, decoderLocals, decodeVars, slots, ring, pictWait>>

DecodeStep == \/ DecodeTop \/ DecodeReceive \/ DecodeWork \/ DecodeReceived \/ DecodeGet
              \/ DecodeCompare \/ DecodeSend \/ DecodeSent \/ PeekWritable \/ FillPicture
              \/ PushPicture

-----------------------------------------------------------------------------
(* video_refresh in the main thread: a picture is passed over when its     *)
(* serial is old, or shown when its time has come, or it is too early.     *)
(* Showing it and passing it over are both frame_queue_next.               *)
MGoto(label) == mpc' = label
mainOthers == <<eof, readPkts, rpc, decoder, history>>

(* frame_queue_next up to the critical section: the last picture shown is  *)
(* kept until the next one takes its place.                                *)
Refresh ==
  /\ mpc = "refresh" /\ nb_remaining > 0
  /\ \/ /\ rindex_shown = 0 /\ rindex_shown' = 1
        /\ UNCHANGED <<slots, rindex, mpc>>
     \/ /\ rindex_shown = 1
        /\ slots' = [slots EXCEPT ![rindex] = NoPicture]
        /\ rindex' = (rindex + 1) % max_size
        /\ MGoto("next") /\ UNCHANGED rindex_shown
  /\ UNCHANGED <<mainOthers, abort_request, seekVars, queue, windex, size, pictWait>>

NextSize ==
  /\ mpc = "next" /\ size' = size - 1 /\ pictWait' = FALSE /\ MGoto("refresh")
  /\ UNCHANGED <<mainOthers, abort_request, seekVars, queue, slots, ring>>

(* stream_seek. *)
StreamSeek ==
  /\ mpc = "refresh" /\ ~seek_req /\ seeks < MaxSeeks
  /\ seek_req' = TRUE /\ seeks' = seeks + 1
  /\ UNCHANGED <<mainOthers, abort_request, queue, pictq, mpc>>

(* stream_close: end the read thread, abort the queue, and wake the        *)
(* decoder thread where it may wait, before joining it.                    *)
StreamClose ==
  /\ mpc = "refresh" /\ abort_request' = TRUE /\ MGoto("join_read")
  /\ UNCHANGED <<mainOthers, seekVars, queue, pictq>>

JoinRead ==
  /\ mpc = "join_read" /\ rpc = "gone" /\ MGoto("abort")
  /\ UNCHANGED <<mainOthers, abort_request, seekVars, queue, pictq>>

(* Mutant of QueueAbort: the decoder thread is not signalled. *)
QueueAbortQuietly ==
  /\ mpc = "abort" /\ q_abort' = TRUE /\ MGoto("signal")
  /\ UNCHANGED <<mainOthers, abort_request, seekVars, packets, serial, getWait, pictq>>

QueueAbort ==
  /\ mpc = "abort" /\ q_abort' = TRUE /\ getWait' = FALSE /\ MGoto("signal")
  /\ UNCHANGED <<mainOthers, abort_request, seekVars, packets, serial, pictq>>

SignalPictures ==
  /\ mpc = "signal" /\ pictWait' = FALSE /\ MGoto("join")
  /\ UNCHANGED <<mainOthers, abort_request, seekVars, queue, slots, ring, size>>

JoinDecoder ==
  /\ mpc = "join" /\ dpc = "gone" /\ packets' = <<>> /\ MGoto("closed")
  /\ UNCHANGED <<mainOthers, abort_request, seekVars, serial, q_abort, getWait, pictq>>

SpuriousWake ==
  /\ \/ getWait /\ getWait' = FALSE /\ UNCHANGED pictWait
     \/ pictWait /\ pictWait' = FALSE /\ UNCHANGED getWait
  /\ UNCHANGED <<others, packets, serial, q_abort, decoder, slots, ring, size>>

Closed == mpc = "closed" /\ UNCHANGED vars

MainGoesOn == NextSize \/ JoinRead \/ QueueAbort \/ SignalPictures \/ JoinDecoder

Next == \/ ReadStep \/ DecodeStep \/ Refresh \/ StreamSeek \/ StreamClose
        \/ MainGoesOn \/ SpuriousWake \/ Closed

(* The read and the decoder thread run, and the main thread finishes what  *)
(* it has begun, and shows pictures in time.                               *)
Fairness == WF_vars(ReadStep) /\ WF_vars(DecodeStep) /\ WF_vars(MainGoesOn)
            /\ WF_vars(Refresh)

Spec == Init /\ [][Next]_vars /\ Fairness
-----------------------------------------------------------------------------
(* A picture bears the serial of the packet it was decoded from: no        *)
(* picture from before a seek passes for one from after it, although the   *)
(* decoder holds frames back and nobody takes a mutex to read the serial.  *)
SerialMatches ==
  \A k \in Slots : slots[k].frame # 0 => put_serial[slots[k].frame] = slots[k].serial

(* The decoder thread fills a slot that the main thread has emptied and    *)
(* does not look at: not the picture shown last, nor one that waits.       *)
Waiting == {(rindex + k) % max_size : k \in 0 .. size - (IF mpc = "next" THEN 2 ELSE 1)}
SlotsExclusive ==
  /\ dpc = "fill" => slots[windex] = NoPicture /\ windex \notin Waiting
  /\ \A k \in Waiting : slots[k] # NoPicture

(* When the read thread finds playback at its end, every packet since the  *)
(* seek has been decoded and every picture has been shown or dropped,      *)
(* unless the file has grown since its end was reached.  And the way the   *)
(* player calls it, the decoder never ends with a packet left behind.      *)
EndMeansAllShown ==
  /\ DrainedCompletely
  /\ rpc = "check" /\ PlaybackEnded /\ ended = "ended" =>
       /\ \A p \in DOMAIN put_serial : put_serial[p] = serial => p \in decoded
       /\ dpc \notin {"fill", "push", "writable"}

(* stream_close returns: whatever the other threads wait for, they notice. *)
CloseReturns == mpc = "join_read" ~> mpc = "closed"
=============================================================================
