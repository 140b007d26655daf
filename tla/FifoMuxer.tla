----------------------------- MODULE FifoMuxer -----------------------------
(***************************************************************************)
(* libavformat/fifo.c: the fifo muxer.  The caller's thread (Main) puts    *)
(* packets into a thread message queue; a thread of its own (Writer, the   *)
(* fifo_consumer_thread) passes them to the underlying muxer, and when     *)
(* that fails closes and reopens the output as the options say.            *)
(*                                                                         *)
(* The module composes with ThreadMessageQueue.  The underlying muxer      *)
(* (avf2) may return any error from any of its functions.  Real time is    *)
(* one fact: whether recovery_wait_time has passed since the last failure. *)
(***************************************************************************)
EXTENDS ThreadMessageQueue

CONSTANTS Main, Writer,        \* the two threads
          EOF, EIO, EINVAL, EXIT,
          OptionSets,          \* the values of the options fifo_init accepts
          Order                \* the messages, as Main numbers them

(* AVERROR_EOF ends the stream; the underlying muxer fails with EIO, which *)
(* is recoverable, with EINVAL, which is only with recover_any_error, or   *)
(* with AVERROR_EXIT, which never is.                                      *)
MuxErrors == {EIO, EINVAL, EXIT}

Options == [drop : BOOLEAN,        \* drop_pkts_on_overflow
            keyframe : BOOLEAN,    \* restart_with_keyframe
            recover : BOOLEAN,     \* attempt_recovery
            max : Nat,             \* max_recovery_attempts, 0 for no limit
            any : BOOLEAN,         \* recover_any_error
            streamtime : BOOLEAN,  \* recovery_wait_streamtime
            wait : Nat,            \* recovery_wait_time, in units of pts
            pts : BOOLEAN]         \* do the packets have timestamps?

ASSUME FifoAssumption ==
  /\ Threads = {Main, Writer} /\ Main # Writer
  /\ Errors = {EOF} \cup MuxErrors /\ Cardinality(Errors) = 4
  /\ Order \in Seq(Msg) /\ \A j, k \in DOMAIN Order : Order[j] = Order[k] => j = k
  /\ OptionSets \subseteq Options
  /\ \A o \in OptionSets : o.streamtime => o.drop    \* the test in fifo_init

VARIABLES
  mpc,            \* where Main is
  opt,            \* the options
  kind,           \* kind[k]: what the k-th call of fifo_write_packet passed
  overflow_flag,
  waited,         \* has recovery_wait_time passed since the last failure?
  w               \* Writer: FifoThreadContext, msg, ret, and its history

queue == vars
app == <<mpc, opt, kind, overflow_flag, waited, w>>
allVars == <<queue, app>>

MaxMsg == Len(Order)        \* bound: packets and flushes
Number(m) == CHOOSE k \in 1 .. MaxMsg : Order[k] = m
NoPts == -1                 \* AV_NOPTS_VALUE
Header == 0                 \* the FIFO_WRITE_HEADER message Writer starts with
Pts(k) == IF k = Header THEN 0
          ELSE IF kind[k] = "flush" THEN 0 ELSE IF opt.pts THEN k ELSE NoPts
IsPacket(k) == k # Header /\ kind[k] # "flush"

FifoInit ==
  /\ Init
  /\ mpc = "new" /\ opt \in OptionSets /\ kind = <<>>
  /\ overflow_flag = FALSE /\ waited = FALSE
  /\ w = [pc |-> "none", msg |-> Header, ret |-> 0, recovery_nr |-> 0,
          last_recovery_ts |-> 0, drop_until_keyframe |-> FALSE, header_written |-> FALSE,
          rescaled |-> 0,        \* how often the timestamps of msg were rescaled, up to 2
          log |-> <<>>,          \* history: what became of the packets received
          output |-> "closed"]   \* avf2->pb: NULL, open, or open with a header

-----------------------------------------------------------------------------
(* Operators on Writer's record x: what a function of the thread may make  *)
(* of it, its return value in x.ret.                                       *)
Fails(x) == {[x EXCEPT !.ret = e] : e \in MuxErrors}
Fate(x, how) == Append(x.log, [m |-> x.msg, how |-> how, rescaled |-> x.rescaled])

(* Packets and trailer belong into an output with a header, a header into *)
(* one without; what is written elsewhere breaks it for good.              *)
Into(x, from, to) == IF x.output = from THEN to ELSE "broken"

(* ff_format_output_open replaces avf2->pb, whatever it is, and leaves it  *)
(* NULL when it fails.                                                     *)
Opens(x, to) == [x EXCEPT !.output = IF @ \in {"closed", "open"} THEN to ELSE "broken"]

(* fifo_thread_write_header: copying the options may fail, opening the     *)
(* output may, and writing the header, which leaves the output open        *)
(* without one.  An option the muxer did not recognize makes the function  *)
(* return EINVAL although the header is written.                           *)
WriteHeader(x) ==
  UNION {Fails(x), Fails(Opens(x, "closed")), Fails(Opens(x, "open")),
         {[Opens(x, "started") EXCEPT !.header_written = TRUE, !.ret = r] : r \in {0, EINVAL}}}

(* fifo_thread_write_packet rescales the timestamps in place, and leaves a *)
(* packet that could not be written as it is then.                         *)
WritePacket(x) ==
  IF x.drop_until_keyframe /\ kind[x.msg] # "key"
  THEN {[x EXCEPT !.ret = 0, !.log = Fate(x, "dropped")]}
  ELSE LET y == [x EXCEPT !.drop_until_keyframe = FALSE, !.output = Into(x, "started", "started"),
                          !.rescaled = IF @ = 2 THEN 2 ELSE @ + 1]
       IN Fails(y) \cup {[y EXCEPT !.ret = 0, !.log = Fate(y, "written")]}

(* fifo_thread_flush_output: av_write_frame(avf2, NULL). *)
FlushOutput(x) == LET y == [x EXCEPT !.output = Into(x, "started", "started")]
                  IN Fails(y) \cup {[y EXCEPT !.ret = 0]}

(* fifo_thread_dispatch_message. *)
DispatchMessage(x) ==
  LET opened == IF x.header_written THEN {[x EXCEPT !.ret = 0]} ELSE WriteHeader(x)
      handled(y) == IF x.msg = Header THEN {y}
                    ELSE IF IsPacket(x.msg) THEN WritePacket(y) ELSE FlushOutput(y)
  IN UNION {IF y.ret = 0 THEN handled(y) ELSE {y} : y \in opened}

(* fifo_thread_write_trailer; its own result goes to write_trailer_ret.    *)
WriteTrailer(x) ==
  IF x.header_written THEN [x EXCEPT !.output = Into(x, "started", "closed")] ELSE x

IsRecoverable(err) == /\ opt.recover
                      /\ err # EXIT /\ (opt.any \/ err \notin {EINVAL, EOF})

(* free_message *)
FreeMessage(x) == IF IsPacket(x.msg) THEN [x EXCEPT !.log = Fate(x, "dropped")] ELSE x

-----------------------------------------------------------------------------
(* Main.  fifo_write_header starts the thread, or fails to. *)
StartWriter ==
  /\ mpc = "new"
  /\ \/ mpc' = "run" /\ w' = [w EXCEPT !.pc = "dispatch"]
     \/ mpc' = "deinit" /\ UNCHANGED w
  /\ UNCHANGED <<queue, opt, kind, overflow_flag, waited>>

(* fifo_write_packet: with drop_pkts_on_overflow it does not block. *)
WriteCall ==
  /\ mpc = "run" /\ Len(kind) < MaxMsg
  /\ \E c \in {"key", "delta", "flush"} : kind' = Append(kind, c)
  /\ Send(Main, Order[Len(kind')], opt.drop)
  /\ mpc' = "writing"
  /\ UNCHANGED <<opt, overflow_flag, waited, w>>

(* The queue was full: the packet is dropped and the consumer told.  Main  *)
(* may be preempted between the send and this critical section.            *)
WriteFull ==
  /\ mpc = "writing" /\ status[Main] = "idle" /\ ret[Main] = "EAGAIN"
  /\ mpc' = "run" /\ overflow_flag' = TRUE
  /\ UNCHANGED <<queue, opt, kind, waited, w>>

WriteDone ==
  /\ mpc = "writing" /\ status[Main] = "idle" /\ ret[Main] # "EAGAIN"
  /\ mpc' = "run"
  /\ UNCHANGED <<queue, opt, kind, overflow_flag, waited, w>>

(* fifo_write_trailer, and fifo_deinit. *)
TrailerCall ==
  /\ mpc = "run" /\ mpc' = "join"
  /\ SetErrRecv(EOF)
  /\ UNCHANGED <<opt, kind, overflow_flag, waited, w>>

Join ==
  /\ mpc = "join" /\ w.pc = "done" /\ mpc' = "deinit"
  /\ UNCHANGED <<queue, opt, kind, overflow_flag, waited, w>>

Deinit ==
  /\ mpc = "deinit" /\ QueueFree /\ mpc' = "freed"
  /\ UNCHANGED <<opt, kind, overflow_flag, waited, w>>

-----------------------------------------------------------------------------
(* Writer: one round of fifo_consumer_thread. *)
Dispatch ==
  /\ w.pc = "dispatch" /\ w.recovery_nr = 0
  /\ \E x \in DispatchMessage(w) :
       w' = [x EXCEPT !.pc = IF x.ret = 0 THEN "overflow" ELSE "recover"]
  /\ UNCHANGED <<queue, mpc, opt, kind, overflow_flag, waited>>

(* In the middle of a recovery the message goes there directly, with the   *)
(* 0 that av_thread_message_queue_recv returned for an error code.         *)
Skip ==
  /\ w.pc = "dispatch" /\ w.recovery_nr > 0
  /\ w' = [w EXCEPT !.pc = "recover"]
  /\ UNCHANGED <<queue, mpc, opt, kind, overflow_flag, waited>>

(* fifo_thread_attempt_recovery, up to its three ways out.  What happens   *)
(* to the message is up to "fail:", and to fifo_thread_recover's loop:     *)
(* with drop_pkts_on_overflow EAGAIN drops the packet, else it is tried    *)
(* again.                                                                  *)
Closed(x) == [WriteTrailer(x) EXCEPT !.header_written = FALSE]
GiveUp(x) == [FreeMessage(x) EXCEPT !.pc = "fail"]

(* Mutant of Again: the packet is dropped in either mode. *)
AgainDrops(x) == [FreeMessage(x) EXCEPT !.pc = "overflow", !.ret = 0]

Again(x) == IF ~opt.drop THEN [x EXCEPT !.pc = "recover"]
            ELSE [FreeMessage(x) EXCEPT !.pc = "overflow", !.ret = 0]

RecoverNot ==
  /\ w.pc = "recover" /\ ~IsRecoverable(w.ret)
  /\ w' = GiveUp(w)
  /\ UNCHANGED <<queue, mpc, opt, kind, overflow_flag, waited>>

(* The test of the waiting time; the difference to AV_NOPTS_VALUE, the     *)
(* smallest integer, wraps to a negative one for the pts there are.        *)
TooEarly(x) == /\ opt.wait > 0
               /\ IF opt.streamtime THEN x.last_recovery_ts = NoPts ELSE ~waited

RecoverWait ==
  /\ w.pc = "recover" /\ IsRecoverable(w.ret)
  /\ w.recovery_nr > 0 /\ TooEarly(w)
  /\ w' = Again(Closed(w))
  /\ UNCHANGED <<queue, mpc, opt, kind, overflow_flag, waited>>

(* fifo_thread_process_recovery_failure: at the limit the error goes up    *)
(* without "fail:", and the packet is never unreferenced.                  *)
RecoveryFailed(x, err) ==
  LET y == [x EXCEPT !.last_recovery_ts = IF opt.streamtime THEN Pts(x.msg) ELSE 0]
      lost == IF IsPacket(y.msg) THEN Fate(y, "leaked") ELSE y.log
  IN IF opt.max > 0 /\ y.recovery_nr >= opt.max
     THEN [y EXCEPT !.pc = "fail", !.ret = err, !.log = lost]
     ELSE Again([y EXCEPT !.ret = w.ret])

(* Only whether recovery_nr is 0 and has reached the limit matters. *)
Counted(n) == IF opt.max = 0 THEN 1 ELSE n + 1

(* Mutant of Started: the output is not closed first. *)
StartedOpen(x) ==
  [x EXCEPT !.header_written = FALSE,
            !.recovery_nr = Counted(@),
            !.last_recovery_ts = IF x.recovery_nr = 0 /\ opt.streamtime THEN NoPts ELSE @,
            !.drop_until_keyframe = @ \/ (opt.keyframe /\ opt.drop)]

Started(x) ==
  [Closed(x) EXCEPT !.recovery_nr = Counted(@),
                    !.last_recovery_ts = IF x.recovery_nr = 0 /\ opt.streamtime THEN NoPts ELSE @,
                    !.drop_until_keyframe = @ \/ (opt.keyframe /\ opt.drop)]

RecoverAttempt ==
  /\ w.pc = "recover" /\ IsRecoverable(w.ret)
  /\ w.recovery_nr > 0 => ~TooEarly(w)
  /\ \E x \in DispatchMessage(Started(w)) :
       /\ w' = IF x.ret = 0 THEN [x EXCEPT !.pc = "overflow", !.recovery_nr = 0]
               ELSE IF IsRecoverable(x.ret) THEN RecoveryFailed(x, x.ret) ELSE GiveUp(x)
       /\ waited' = (waited /\ (x.ret = 0 \/ ~IsRecoverable(x.ret)))
  /\ UNCHANGED <<queue, mpc, opt, kind, overflow_flag>>

TimePasses ==
  /\ ~waited /\ waited' = TRUE
  /\ w.recovery_nr > 0 /\ ~opt.streamtime
  /\ UNCHANGED <<queue, mpc, opt, kind, overflow_flag, w>>

(* Look at overflow_flag, and flush the queue, under its lock. *)
CheckOverflow ==
  /\ w.pc = "overflow"
  /\ IF overflow_flag THEN Flush ELSE UNCHANGED queue
  /\ overflow_flag' = FALSE
  /\ w' = [w EXCEPT !.pc = "recv",
                    !.drop_until_keyframe = @ \/ (overflow_flag /\ opt.keyframe)]
  /\ UNCHANGED <<mpc, opt, kind, waited>>

Receive ==
  /\ w.pc = "recv" /\ Recv(Writer, FALSE)
  /\ w' = [w EXCEPT !.pc = "receiving"]
  /\ UNCHANGED <<mpc, opt, kind, overflow_flag, waited>>

Received ==
  /\ w.pc = "receiving" /\ status[Writer] = "idle"
  /\ w' = IF ret[Writer] \in Errors
          THEN [w EXCEPT !.pc = "fail", !.ret = ret[Writer]]
          ELSE [w EXCEPT !.pc = "dispatch", !.ret = 0, !.msg = Number(ret[Writer]), !.rescaled = 0]
  /\ UNCHANGED <<queue, mpc, opt, kind, overflow_flag, waited>>

(* The way out: tell Main, finish the output. *)
SetError ==
  /\ w.pc = "fail" /\ SetErrSend(w.ret)
  /\ w' = [w EXCEPT !.pc = "trailer"]
  /\ UNCHANGED <<mpc, opt, kind, overflow_flag, waited>>

FinalTrailer ==
  /\ w.pc = "trailer"
  /\ w' = [WriteTrailer(w) EXCEPT !.pc = "done"]
  /\ UNCHANGED <<queue, mpc, opt, kind, overflow_flag, waited>>

-----------------------------------------------------------------------------
InQueue(t) == (ResumeSend(t) \/ ResumeRecv(t)) /\ UNCHANGED app
MainStep == StartWriter \/ WriteFull \/ WriteDone \/ Join \/ Deinit \/ InQueue(Main)
WriterStep == \/ Dispatch \/ Skip \/ RecoverNot \/ RecoverWait \/ RecoverAttempt
              \/ CheckOverflow \/ Receive \/ Received \/ SetError \/ FinalTrailer
              \/ InQueue(Writer)
Call == WriteCall \/ TrailerCall
Spurious == (\E t \in Threads : SpuriousWake(t)) /\ UNCHANGED app
Stopped == mpc = "freed" /\ UNCHANGED allVars

FifoNext == Call \/ MainStep \/ WriterStep \/ TimePasses \/ Spurious \/ Stopped

(* Both threads run and the underlying muxer returns from its functions;   *)
(* the caller need not call anything; time passes.                         *)
FifoSpec == FifoInit /\ [][FifoNext]_allVars
            /\ WF_allVars(MainStep) /\ WF_allVars(WriterStep) /\ WF_allVars(TimePasses)
-----------------------------------------------------------------------------
(* Whatever fails, is retried, dropped or flushed, Writer deals with every *)
(* packet it received exactly once and in order, and with none after it    *)
(* has let go of it: nothing is written or unreferenced twice.             *)
Taken == {k \in DOMAIN kind : IsPacket(k) /\ \E i \in DOMAIN gone : gone[i] = <<Order[k], Writer>>}
Settled == {w.log[i].m : i \in DOMAIN w.log}
InHand == IF w.pc \in {"dispatch", "recover"} THEN {w.msg} \cap Taken
          ELSE IF w.pc = "receiving" /\ status[Writer] = "idle"
          THEN {k \in Taken : Order[k] = ret[Writer]}
          ELSE {}
PacketsAccounted ==
  /\ Settled \cup InHand = Taken
  /\ \A i \in DOMAIN w.log :
       /\ \A j \in DOMAIN w.log : j < i => w.log[j].m < w.log[i].m
       /\ \A k \in InHand : w.log[i].m < k

(* Packets, flushes and the trailer go only into an output that has its    *)
(* header, and an output that has one gets its trailer and is closed       *)
(* before the recovery opens it again and before the thread ends,          *)
(* whichever function of the underlying muxer failed.                      *)
OutputWellFormed ==
  /\ w.output # "broken"
  /\ w.pc = "done" => w.output # "started"

(* Without drop_pkts_on_overflow no packet is lost (doc/muxers.texi): all  *)
(* are written but the one on which the output failed for good, and        *)
(* without such a failure the queue is empty when fifo_write_trailer is    *)
(* back.                                                                   *)
NoneLostWhenBlocking ==
  ~opt.drop =>
    /\ \A i \in DOMAIN w.log :
         \/ w.log[i].how = "written"
         \/ i = Len(w.log) /\ w.ret \in MuxErrors /\ w.pc \in {"fail", "trailer", "done"}
    /\ w.pc = "done" /\ w.ret = EOF => fifo = <<>>

(* Writing a packet and the trailer end, however the output fails, unless  *)
(* the options say to try again for ever and to block meanwhile.           *)
CallsReturn ==
  (opt.recover => opt.drop \/ opt.max > 0) /\ mpc \in {"writing", "join", "deinit"}
    ~> mpc \in {"run", "freed"}

(* Refuted by the code: avformat.h has the caller of avformat_write_header *)
(* close the I/O context it opened for it, also one without a header.      *)
OutputClosed == w.pc = "done" => w.output = "closed"

(* Refuted by the code: av_write_frame's documentation asks for timestamps *)
(* in the stream's time base, so each packet is rescaled to it once.       *)
RescaledOnce ==
  \A i \in DOMAIN w.log : w.log[i].how = "written" => w.log[i].rescaled = 1
=============================================================================
