---------------------------- MODULE InputThread ----------------------------
(***************************************************************************)
(* fftools/ffmpeg.c with several inputs: each input file is read by a      *)
(* thread of its own (input_thread), which passes its packets to the main  *)
(* thread through a thread message queue.  The main thread stops the       *)
(* thread when it is done, or when it loops over the file (-stream_loop):  *)
(* then it seeks the demuxer itself and starts another thread.             *)
(*                                                                         *)
(* The module composes with ThreadMessageQueue, whose two users are Input  *)
(* and Main; nothing else calls the queue of this file.  QueueUsers gives  *)
(* the constants their values.                                             *)
(***************************************************************************)
EXTENDS ThreadMessageQueue

CONSTANTS Input, Main,   \* the two threads
          EOF,           \* AVERROR_EOF
          MaxLoops       \* bound: restarts of the input

VARIABLES
  ipc, mpc,  \* where Input and Main are
  pkt,       \* Input's packet, as a sequence of at most one
  flags,     \* Input's flags: AV_THREAD_MESSAGE_NONBLOCK or not
  ending,    \* what the demuxer ended with, 0 while it has not
  loops,     \* restarts so far
  read,      \* history: packets read by this Input thread, in order
  got,       \* history: packets of it that Main has processed, in order
  drained,   \* history: packets of it that Main has thrown away, in order
  non_blocking  \* f->non_blocking: the input is not seekable, or lavfi

queue == vars
app == <<ipc, mpc, pkt, flags, ending, loops, read, got, drained, non_blocking>>
allVars == <<queue, app>>

InputInit ==
  /\ Init
  /\ non_blocking \in BOOLEAN
  /\ ipc = "read" /\ mpc = "run"
  /\ pkt = <<>> /\ flags = non_blocking /\ ending = 0 /\ loops = 0
  /\ read = <<>> /\ got = <<>> /\ drained = <<>>

Idle(t) == status[t] = "idle"
ReadSoFar == {read[k] : k \in DOMAIN read}

-----------------------------------------------------------------------------
(* input_thread.  av_read_frame returns a packet ... *)
ReadFrame ==
  /\ ipc = "read"
  /\ \E m \in Msg \ ReadSoFar : pkt' = <<m>> /\ read' = Append(read, m)
  /\ ipc' = "send"
  /\ UNCHANGED <<queue, mpc, flags, ending, loops, got, drained, non_blocking>>

(* ... or an error; EAGAIN is just tried again. *)
ReadFails ==
  /\ ipc = "read"
  /\ \E err \in Errors : SetErrRecv(err) /\ ending' = err
  /\ ipc' = "exit"
  /\ UNCHANGED <<mpc, pkt, flags, loops, read, got, drained, non_blocking>>

SendPacket ==
  /\ ipc = "send" /\ Send(Input, Head(pkt), flags)
  /\ ipc' = "sending"
  /\ UNCHANGED <<mpc, pkt, flags, ending, loops, read, got, drained, non_blocking>>

(* The send has returned: the packet belongs to the queue ... *)
Sent ==
  /\ ipc = "sending" /\ Idle(Input) /\ ret[Input] = "ok"
  /\ pkt' = <<>> /\ ipc' = "read"
  /\ UNCHANGED <<queue, mpc, flags, ending, loops, read, got, drained, non_blocking>>

(* ... or the queue is full, and sends block from now on ... *)
SendFull ==
  /\ ipc = "sending" /\ Idle(Input) /\ flags /\ ret[Input] = "EAGAIN"
  /\ flags' = FALSE /\ ipc' = "send"
  /\ UNCHANGED <<queue, mpc, pkt, ending, loops, read, got, drained, non_blocking>>

(* Mutant of SendFails: the thread ends without setting the error. *)
SendFailsSilently ==
  /\ ipc = "sending" /\ Idle(Input) /\ ret[Input] \in Errors
  /\ pkt' = <<>> /\ ipc' = "done"
  /\ UNCHANGED <<queue, mpc, flags, ending, loops, read, got, drained, non_blocking>>

(* ... or Main does not want any more; the packet is unreferenced. *)
SendFails ==
  /\ ipc = "sending" /\ Idle(Input) /\ ret[Input] \in Errors
  /\ SetErrRecv(ret[Input])
  /\ pkt' = <<>> /\ ipc' = "exit"
  /\ UNCHANGED <<mpc, flags, ending, loops, read, got, drained, non_blocking>>

(* The thread leaves the queue and ends. *)
Exit ==
  /\ ipc = "exit" /\ ipc' = "done"
  /\ UNCHANGED <<queue, mpc, pkt, flags, ending, loops, read, got, drained, non_blocking>>

-----------------------------------------------------------------------------
(* Main: get_input_packet_mt and process_input. *)
GetPacket ==
  /\ mpc = "run" /\ Recv(Main, non_blocking)
  /\ mpc' = "getting"
  /\ UNCHANGED <<ipc, pkt, flags, ending, loops, read, got, drained, non_blocking>>

GotPacket ==
  /\ mpc = "getting" /\ Idle(Main) /\ ret[Main] \in Msg
  /\ got' = Append(got, ret[Main]) /\ mpc' = "run"
  /\ UNCHANGED <<queue, ipc, pkt, flags, ending, loops, read, drained, non_blocking>>

GotNothing ==
  /\ mpc = "getting" /\ Idle(Main) /\ ret[Main] = "EAGAIN"
  /\ mpc' = "run"
  /\ UNCHANGED <<queue, ipc, pkt, flags, ending, loops, read, got, drained, non_blocking>>

(* The end of the input, or its failure: loop or finish. *)
GotError ==
  /\ mpc = "getting" /\ Idle(Main) /\ ret[Main] \in Errors
  /\ \/ loops < MaxLoops /\ mpc' = "loop"
     \/ mpc' = "ended"
  /\ UNCHANGED <<queue, ipc, pkt, flags, ending, loops, read, got, drained, non_blocking>>

(* free_input_thread, also called at any time to end the program.  A loop  *)
(* comes back from it to start again.                                      *)
FreeBegin ==
  /\ mpc \in {"run", "loop", "ended"}
  /\ SetErrSend(EOF)
  /\ mpc' = IF mpc = "loop" THEN "loop_drain" ELSE "drain"
  /\ UNCHANGED <<ipc, pkt, flags, ending, loops, read, got, drained, non_blocking>>

Draining == mpc \in {"drain", "loop_drain"}
Drain ==
  /\ Draining /\ Recv(Main, FALSE)
  /\ mpc' = IF mpc = "drain" THEN "draining" ELSE "loop_draining"
  /\ UNCHANGED <<ipc, pkt, flags, ending, loops, read, got, drained, non_blocking>>

Drained ==
  /\ mpc \in {"draining", "loop_draining"} /\ Idle(Main)
  /\ \/ /\ ret[Main] \in Msg
        /\ drained' = Append(drained, ret[Main])
        /\ mpc' = IF mpc = "draining" THEN "drain" ELSE "loop_drain"
     \/ /\ ret[Main] \in Errors
        /\ mpc' = IF mpc = "draining" THEN "join" ELSE "loop_join"
        /\ UNCHANGED drained
  /\ UNCHANGED <<queue, ipc, pkt, flags, ending, loops, read, got, non_blocking>>

Join ==
  /\ mpc \in {"join", "loop_join"} /\ ipc = "done"
  /\ QueueFree
  /\ mpc' = IF mpc = "join" THEN "freed" ELSE "seek"
  /\ UNCHANGED <<ipc, pkt, flags, ending, loops, read, got, drained, non_blocking>>

(* seek_to_start, which may fail, and init_input_thread: a new queue and a *)
(* new thread.  After a failed seek Main takes the input for ended.        *)
Restart ==
  /\ mpc = "seek" /\ loops' = loops + 1
  /\ mpc' \in {"run", "ended"}
  /\ fifo' = <<>> /\ err_send' = 0 /\ err_recv' = 0 /\ live' = TRUE
  /\ status' = [t \in Threads |-> "idle"] /\ arg' = [t \in Threads |-> {}]
  /\ ret' = [t \in Threads |-> "none"] /\ sent' = <<>> /\ gone' = <<>>
  /\ ipc' = "read" /\ pkt' = <<>> /\ flags' = non_blocking /\ ending' = 0
  /\ read' = <<>> /\ got' = <<>> /\ drained' = <<>> /\ UNCHANGED non_blocking

(* No queue or no thread: the program ends without either. *)
RestartFails ==
  /\ mpc = "seek" /\ mpc' = "freed"
  /\ UNCHANGED <<queue, ipc, pkt, flags, ending, loops, read, got, drained, non_blocking>>

-----------------------------------------------------------------------------
InQueue(t) == (ResumeSend(t) \/ ResumeRecv(t)) /\ UNCHANGED app
InputStep == \/ ReadFrame \/ ReadFails \/ SendPacket \/ Sent \/ SendFull \/ SendFails
             \/ Exit \/ InQueue(Input)
MainStep == \/ GetPacket \/ GotPacket \/ GotNothing \/ GotError \/ Drain \/ Drained
            \/ Join \/ Restart \/ RestartFails \/ InQueue(Main)
            \/ mpc # "run" /\ FreeBegin
StopEarly == mpc = "run" /\ FreeBegin
Spurious == (\E t \in Threads : SpuriousWake(t)) /\ UNCHANGED app
Stopped == mpc = "freed" /\ UNCHANGED allVars

InputNext == InputStep \/ MainStep \/ StopEarly \/ Spurious \/ Stopped

-----------------------------------------------------------------------------
(* Every packet that was read is in exactly one place, in reading order:   *)
(* processed, thrown away, in the queue, or with Input, which keeps its    *)
(* packet when the send fails and unreferences it itself.                  *)
Unsent == IF ipc = "sending" /\ Idle(Input) /\ ret[Input] = "ok" THEN <<>> ELSE pkt
Received == IF mpc \in {"getting", "draining", "loop_draining"} /\ Idle(Main)
               /\ ret[Main] \in Msg
            THEN <<ret[Main]>> ELSE <<>>
Refused == IF ipc \in {"exit", "done"} /\ ending = 0 THEN 1 ELSE 0
PacketsOwnedOnce ==
  got \o drained \o Received \o fifo \o Unsent = SubSeq(read, 1, Len(read) - Refused)

(* Main takes the input for ended only when the demuxer has ended, with    *)
(* the demuxer's own error, and after every packet it read.                *)
EndAfterPackets ==
  mpc = "getting" /\ mpc' \in {"loop", "ended"} =>
    ending # 0 /\ ret[Main] = ending /\ got = read

(* free_input_thread returns, whatever Input is doing: reading, blocked on *)
(* the full queue, or gone.                                                *)
FreeReturns ==
  mpc \in {"drain", "draining", "join", "loop", "loop_drain", "loop_draining", "loop_join"}
    ~> mpc \in {"seek", "freed"}
=============================================================================
