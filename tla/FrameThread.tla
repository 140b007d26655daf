---------------------------- MODULE FrameThread ----------------------------
(***************************************************************************)
(* libavcodec/pthread_frame.c: frame-threaded decoding.  The thread that   *)
(* calls the decoder (Main) hands packet after packet to a ring of T       *)
(* worker threads and collects their results in the same order.            *)
(*                                                                         *)
(* One step is what a thread does between two points where another thread  *)
(* can see or disturb it: a critical section, an unlocked read that is     *)
(* used later, a wait.  pthread_cond_wait puts the thread into an explicit *)
(* wait set; only a signal, a broadcast or a spurious wake-up takes it out *)
(* again.  The codec is any codec that keeps the contract of               *)
(* doc/multithreading.txt: what it changes of its context for the next     *)
(* frame it changes before ff_thread_finish_setup, it awaits a row of its  *)
(* reference before using it, and it leaves no row of its frame unreported.*)
(***************************************************************************)
EXTENDS Integers, Sequences, FiniteSets

CONSTANTS
  T,         \* avctx->thread_count
  Codecs,    \* the kinds of codec, hwaccel and caller that are decoded with
  MaxSub,    \* bound: submitted packets
  MaxFlush   \* bound: calls of ff_thread_flush

(* A codec sets update_thread_context or not, has AV_CODEC_CAP_DELAY or    *)
(* not, and is FFV1 (1) or not (0); the caller's get_buffer2 and           *)
(* get_format may have to run on Main (~THREAD_SAFE_CALLBACKS), and        *)
(* get_format selects hardware decoding or not among formats; a hwaccel is *)
(* HWACCEL_CAP_ASYNC_SAFE or not; a frame has rows that are reported one   *)
(* by one; and allocations, packets and callbacks may fail or not.         *)
Codec == [hasUpdate : BOOLEAN, capDelay : BOOLEAN, ffv1 : {0, 1},
          unsafeBuffer : BOOLEAN, unsafeFormat : BOOLEAN,
          formats : (SUBSET BOOLEAN) \ {{}}, asyncSafe : BOOLEAN,
          rows : Nat \ {0}, mayFail : BOOLEAN]

ASSUME FrameThreadAssumption ==
  /\ T \in Nat /\ T >= 2
  /\ MaxSub \in Nat /\ MaxFlush \in Nat
  /\ Codecs \subseteq Codec
  /\ \A c \in Codecs : TRUE \in c.formats => c.hasUpdate   \* the comment at frame_worker_thread

VARIABLES
  m,             \* Main: pc, current call, index and result of its loops
  f,             \* FrameThreadContext, and the codec
  p,             \* p[t]: PerThreadContext of worker t, with its pc
  mutex,         \* mutex[t]: owner of p[t].mutex
  buffer_mutex, hwaccel_mutex,   \* owners of the shared mutexes
  async_lock,    \* who has set fctx->async_lock
  progWait,      \* progWait[t]: threads waiting on p[t].progress_cond
  inputWait,     \* workers waiting on their input_cond
  outputWait,    \* workers on whose output_cond Main waits
  progress,      \* progress[k]: last row reported of the frame of packet k
  h              \* history: what the properties talk about

vars == <<m, f, p, mutex, buffer_mutex, hwaccel_mutex, async_lock,
          progWait, inputWait, outputWait, progress, h>>
locks == <<mutex, buffer_mutex, hwaccel_mutex, async_lock>>
waits == <<progWait, inputWait, outputWait>>

HasUpdate == f.codec.hasUpdate
CapDelay == f.codec.capDelay
FFV1 == f.codec.ffv1
UnsafeBuffer == f.codec.unsafeBuffer
UnsafeFormat == f.codec.unsafeFormat
HwChoices == f.codec.formats
AsyncSafe == f.codec.asyncSafe
Rows == f.codec.rows
MayFail == f.codec.mayFail

Workers == 0 .. T - 1
Main == T          \* the calling thread, as the owner of a lock or a waiter
None == -1         \* no owner, no thread
Packet == 0 .. MaxSub

(* What update_thread_context carries from one packet to the next: whether *)
(* a hwaccel is in use, and the last frame a buffer was allocated for.     *)
Context == [hw : BOOLEAN, last : Packet]

NewPacketState ==
  [pc |-> "input", state |-> "INPUT_READY", after |-> "work",
   ctx |-> [hw |-> FALSE, last |-> 0], ref |-> 0, pkt |-> 0, row |-> 0,
   res |-> "none", serializing |-> FALSE, released |-> 0, die |-> FALSE]

Init ==
  /\ m = [pc |-> "user", call |-> "data", cur |-> 0, out |-> "none"]
  /\ \E c \in Codecs : f = [next_decoding |-> 0, next_finished |-> 0, delaying |-> TRUE,
                           prev_thread |-> None, codec |-> c]
  /\ p = [t \in Workers |-> NewPacketState]
  /\ mutex = [t \in Workers |-> None]
  /\ buffer_mutex = None /\ hwaccel_mutex = None
  /\ async_lock = Main
  /\ progWait = [t \in Workers |-> {}] /\ inputWait = {} /\ outputWait = {}
  /\ progress = [k \in Packet |-> -1]
  /\ h = [sub |-> 0,               \* packets submitted
          nulls |-> {},            \* those that were empty
          pend |-> [t \in Workers |-> 0],  \* packet whose result t holds
          taken |-> <<>>,          \* packets whose result Main has taken
          stream |-> [hw |-> FALSE, last |-> 0],  \* context of a serial decoder
          draining |-> FALSE, eof |-> FALSE, flushes |-> 0]

-----------------------------------------------------------------------------
(* Small steps on the records. *)
MainTo(pc) == m' = [m EXCEPT !.pc = pc]
WorkerTo(t, pc) == p' = [p EXCEPT ![t].pc = pc]
WakeAll(t) == progWait' = [progWait EXCEPT ![t] = {}]
WaitOn(t, who) == progWait' = [progWait EXCEPT ![t] = @ \cup {who}]
SettingUp(t) == p[t].state = "SETTING_UP"
Ready(t) == p[t].state = "INPUT_READY"
Null(t) == p[t].pkt \in h.nulls

-----------------------------------------------------------------------------
(* Main: ff_thread_decode_frame and submit_packet.                         *)

(* Mutant of DecodeCall: the thread after the oldest one is asked first. *)
DecodeCallSkips(call) ==
  /\ m.pc = "user" /\ async_lock = Main
  /\ call \in {"data", "null"} /\ h.sub < MaxSub /\ ~h.eof
  /\ h.draining => call = "null"
  /\ async_lock' = None
  /\ h' = [h EXCEPT !.draining = (call = "null")]
  /\ m' = [m EXCEPT !.pc = IF call = "null" /\ ~CapDelay THEN "submitted" ELSE "lock",
                    !.call = call, !.cur = (f.next_finished + 1) % T, !.out = "none"]
  /\ UNCHANGED <<f, p, mutex, buffer_mutex, hwaccel_mutex, waits, progress>>

(* The caller enters with the async lock held and gives it up.  After an   *)
(* empty packet decode.c sends only empty packets until a flush, and none  *)
(* once the decoder has answered "no frame, no error".                     *)
DecodeCall(call) ==
  /\ m.pc = "user" /\ async_lock = Main
  /\ call \in {"data", "null"} /\ h.sub < MaxSub /\ ~h.eof
  /\ h.draining => call = "null"
  /\ async_lock' = None
  /\ h' = [h EXCEPT !.draining = (call = "null")]
  /\ m' = [m EXCEPT !.pc = IF call = "null" /\ ~CapDelay THEN "submitted" ELSE "lock",
                    !.call = call, !.cur = f.next_finished, !.out = "none"]
  /\ UNCHANGED <<f, p, mutex, buffer_mutex, hwaccel_mutex, waits, progress>>

(* pthread_mutex_lock(&p->mutex) and update_context_from_user. *)
SubmitLock ==
  LET d == f.next_decoding IN
  /\ m.pc = "lock" /\ mutex[d] = None
  /\ \/ mutex' = [mutex EXCEPT ![d] = Main] /\ MainTo("release")
     \/ MayFail /\ m' = [m EXCEPT !.pc = "finish", !.out = "err"] /\ UNCHANGED mutex
  /\ UNCHANGED <<f, p, buffer_mutex, hwaccel_mutex, async_lock, waits, progress, h>>

(* release_delayed_buffers: one buffer per critical section. *)
SubmitRelease ==
  LET d == f.next_decoding IN
  /\ m.pc = "release"
  /\ IF p[d].released > 0
     THEN /\ buffer_mutex = None
          /\ p' = [p EXCEPT ![d].released = @ - 1]
          /\ UNCHANGED m
     ELSE /\ MainTo(IF f.prev_thread = None THEN "packet" ELSE "await_setup")
          /\ UNCHANGED p
  /\ UNCHANGED <<f, locks, waits, progress, h>>

(* Wait until the previous packet's thread has left STATE_SETTING_UP. *)
SubmitAwaitSetup ==
  /\ m.pc = "await_setup" /\ Main \notin progWait[f.prev_thread]
  /\ IF SettingUp(f.prev_thread)
     THEN WaitOn(f.prev_thread, Main) /\ UNCHANGED m
     ELSE MainTo("copy") /\ UNCHANGED progWait
  /\ UNCHANGED <<f, p, locks, inputWait, outputWait, progress, h>>

(* update_context_from_thread(p->avctx, prev_thread->avctx, 0). *)
SubmitCopy ==
  LET d == f.next_decoding IN
  /\ m.pc = "copy"
  /\ p' = [p EXCEPT ![d].ctx = p[f.prev_thread].ctx]
  /\ \/ MainTo("packet") /\ UNCHANGED mutex
     \/ /\ MayFail /\ m' = [m EXCEPT !.pc = "finish", !.out = "err"]
        /\ mutex' = [mutex EXCEPT ![d] = None]
  /\ UNCHANGED <<f, buffer_mutex, hwaccel_mutex, async_lock, waits, progress, h>>

(* av_packet_ref, then hand the packet over under p->mutex. *)
SubmitPacket ==
  LET d == f.next_decoding
      k == h.sub + 1
  IN
  /\ m.pc = "packet"
  /\ mutex' = [mutex EXCEPT ![d] = None]
  /\ \/ /\ p' = [p EXCEPT ![d].state = "SETTING_UP", ![d].pkt = k]
        /\ inputWait' = inputWait \ {d}
        /\ h' = [h EXCEPT !.sub = k, !.pend[d] = k,
                          !.nulls = IF m.call = "null" THEN @ \cup {k} ELSE @]
        /\ MainTo(IF UnsafeFormat \/ UnsafeBuffer THEN "serve" ELSE "handed")
     \/ /\ MayFail /\ m' = [m EXCEPT !.pc = "finish", !.out = "err"]
        /\ UNCHANGED <<p, inputWait, h>>
  /\ UNCHANGED <<f, buffer_mutex, hwaccel_mutex, async_lock, progWait, outputWait, progress>>

(* Mutant of SubmitServe: the worker is not signalled after its callback. *)
SubmitServeSilently ==
  LET d == f.next_decoding IN
  /\ m.pc = "serve" /\ Main \notin progWait[d]
  /\ CASE SettingUp(d) -> WaitOn(d, Main) /\ UNCHANGED <<m, p>>
       [] p[d].state \in {"GET_BUFFER", "GET_FORMAT"} ->
            p' = [p EXCEPT ![d].state = "SETTING_UP"] /\ UNCHANGED <<m, progWait>>
       [] OTHER -> MainTo("handed") /\ UNCHANGED <<p, progWait>>
  /\ UNCHANGED <<f, locks, inputWait, outputWait, progress, h>>

(* The callbacks the codec asks for run here, on the user's thread; the    *)
(* worker is told with a signal, not a broadcast.                          *)
SubmitServe ==
  LET d == f.next_decoding IN
  /\ m.pc = "serve" /\ Main \notin progWait[d]
  /\ \/ /\ SettingUp(d)
        /\ WaitOn(d, Main) /\ UNCHANGED <<m, p>>
     \/ /\ p[d].state \in {"GET_BUFFER", "GET_FORMAT"}
        /\ \/ /\ p[d].state = "GET_BUFFER"
              /\ \E r \in {"none"} \cup (IF MayFail THEN {"err"} ELSE {}) :
                    p' = [p EXCEPT ![d].state = "SETTING_UP", ![d].res = r]
           \/ /\ p[d].state = "GET_FORMAT"
              /\ \E hw \in HwChoices :
                    p' = [p EXCEPT ![d].state = "SETTING_UP", ![d].ctx.hw = hw]
        /\ \E left \in {progWait[d] \ {w} : w \in progWait[d]} \cup {progWait[d]} :
              /\ progWait[d] # {} => left # progWait[d]
              /\ progWait' = [progWait EXCEPT ![d] = left]
        /\ UNCHANGED m
     \/ /\ p[d].state \in {"SETUP_FINISHED", "INPUT_READY"}
        /\ MainTo("handed") /\ UNCHANGED <<p, progWait>>
  /\ UNCHANGED <<f, locks, inputWait, outputWait, progress, h>>

(* The end of submit_packet, and the test of fctx->delaying.  An empty     *)
(* packet for a codec without AV_CODEC_CAP_DELAY comes here unsubmitted.   *)
Submitted ==
  LET handed == m.pc = "handed"
      nd == IF handed THEN f.next_decoding + 1 ELSE f.next_decoding
      delaying == f.delaying /\ ~(nd > T - 1 - FFV1)
  IN
  /\ m.pc \in {"handed", "submitted"}
  /\ f' = [f EXCEPT !.next_decoding = nd, !.delaying = delaying,
                    !.prev_thread = IF handed THEN f.next_decoding ELSE @]
  /\ MainTo(IF delaying /\ m.call = "data" THEN "finish" ELSE "collect")
  /\ UNCHANGED <<p, locks, waits, progress, h>>

(* Mutant of Collect: one thread is asked even when draining. *)
CollectOnce ==
  LET w == m.cur
      next == (m.cur + 1) % T
  IN
  /\ m.pc = "collect" /\ w \notin outputWait
  /\ IF ~Ready(w)
     THEN outputWait' = outputWait \cup {w} /\ UNCHANGED <<m, f, p, h>>
     ELSE /\ h' = [h EXCEPT !.pend[w] = 0,
                            !.taken = IF h.pend[w] = 0 THEN @ ELSE Append(@, h.pend[w])]
          /\ p' = [p EXCEPT ![w].res = "none"]
          /\ m' = [m EXCEPT !.cur = next, !.out = p[w].res, !.pc = "finish"]
          /\ f' = [f EXCEPT !.next_finished = next, !.next_decoding = IF @ >= T THEN 0 ELSE @]
          /\ UNCHANGED outputWait
  /\ UNCHANGED <<locks, progWait, inputWait, progress>>

(* Take the result of the oldest thread; with an empty packet go on to the *)
(* next one while there is neither a frame nor an error, at most once      *)
(* around.                                                                 *)
Collect ==
  LET w == m.cur
      next == (m.cur + 1) % T
      again == m.call = "null" /\ p[w].res = "none" /\ next # f.next_finished
  IN
  /\ m.pc = "collect" /\ w \notin outputWait
  /\ IF ~Ready(w)
     THEN outputWait' = outputWait \cup {w} /\ UNCHANGED <<m, f, p, h>>
     ELSE /\ h' = [h EXCEPT !.pend[w] = 0,
                            !.taken = IF h.pend[w] = 0 THEN @ ELSE Append(@, h.pend[w])]
          /\ p' = [p EXCEPT ![w].res = "none"]
          /\ m' = [m EXCEPT !.cur = next, !.out = p[w].res,
                            !.pc = IF again THEN "collect" ELSE "finish"]
          /\ f' = IF again THEN f
                  ELSE [f EXCEPT !.next_finished = next,
                                 !.next_decoding = IF @ >= T THEN 0 ELSE @]
          /\ UNCHANGED outputWait
  /\ UNCHANGED <<locks, progWait, inputWait, progress>>

(* The call returns once it has the async lock back. *)
Finish ==
  /\ m.pc = "finish" /\ async_lock = None
  /\ async_lock' = Main
  /\ MainTo("user")
  /\ h' = [h EXCEPT !.eof = m.call = "null" /\ m.out = "none"]
  /\ UNCHANGED <<f, p, mutex, buffer_mutex, hwaccel_mutex, waits, progress>>

-----------------------------------------------------------------------------
(* Main: ff_thread_flush and ff_frame_thread_free. *)
ParkCall(call) ==
  /\ m.pc = "user" /\ async_lock = Main
  /\ call \in {"flush", "free"} /\ (call = "flush" => h.flushes < MaxFlush)
  /\ async_lock' = None
  /\ m' = [m EXCEPT !.pc = "park", !.call = call, !.cur = 0, !.out = "none"]
  /\ UNCHANGED <<f, p, mutex, buffer_mutex, hwaccel_mutex, waits, progress, h>>

(* park_frame_worker_threads: wait for the threads one after the other. *)
Park ==
  /\ m.pc = "park" /\ m.cur < T /\ m.cur \notin outputWait
  /\ IF ~Ready(m.cur)
     THEN outputWait' = outputWait \cup {m.cur} /\ UNCHANGED <<m, p>>
     ELSE /\ m' = [m EXCEPT !.cur = @ + 1]
          /\ p' = [p EXCEPT ![m.cur].res = IF @ = "frame" THEN "none" ELSE @]
          /\ UNCHANGED outputWait
  /\ UNCHANGED <<f, locks, progWait, inputWait, progress, h>>

Parked ==
  /\ m.pc = "park" /\ m.cur = T /\ async_lock = None
  /\ async_lock' = Main
  /\ MainTo(m.call)
  /\ UNCHANGED <<f, p, mutex, buffer_mutex, hwaccel_mutex, waits, progress, h>>

(* Mutant of FinalContext: thread 0 keeps its own context. *)
FinalContextKept(q) == q

(* The context of the last packet goes back to thread 0. *)
FinalContext(q) ==
  IF f.prev_thread = None THEN q ELSE [q EXCEPT ![0].ctx = q[f.prev_thread].ctx]

(* Everything is parked: the rest of ff_thread_flush meets nobody.  The    *)
(* codec's flush forgets the reference frames.                             *)
Flush ==
  /\ m.pc = "flush" /\ buffer_mutex = None
  /\ f' = [f EXCEPT !.next_decoding = 0, !.next_finished = 0, !.delaying = TRUE,
                    !.prev_thread = None]
  /\ LET q == FinalContext(p) IN
     p' = [t \in Workers |-> [q[t] EXCEPT !.res = "none", !.released = 0, !.ctx.last = 0]]
  /\ h' = [h EXCEPT !.pend = [t \in Workers |-> 0], !.stream.last = 0,
                    !.draining = FALSE, !.eof = FALSE, !.flushes = @ + 1]
  /\ MainTo("user")
  /\ UNCHANGED <<locks, waits, progress>>

(* Stop and join the threads one after the other. *)
FreeStart ==
  /\ m.pc = "free"
  /\ p' = FinalContext(p)
  /\ m' = [m EXCEPT !.pc = "kill", !.cur = 0]
  /\ UNCHANGED <<f, locks, waits, progress, h>>

Kill ==
  /\ m.pc = "kill" /\ m.cur < T /\ mutex[m.cur] = None
  /\ p' = [p EXCEPT ![m.cur].die = TRUE]
  /\ inputWait' = inputWait \ {m.cur}
  /\ MainTo("join")
  /\ UNCHANGED <<f, locks, progWait, outputWait, progress, h>>

Join ==
  /\ m.pc = "join" /\ p[m.cur].pc = "dead" /\ buffer_mutex = None
  /\ p' = [p EXCEPT ![m.cur].released = 0]
  /\ m' = [m EXCEPT !.cur = @ + 1, !.pc = IF m.cur + 1 = T THEN "freed" ELSE "kill"]
  /\ UNCHANGED <<f, locks, waits, progress, h>>

-----------------------------------------------------------------------------
(* Worker: frame_worker_thread and the codec's decode function.            *)

(* Wait on input_cond, or die, or take the packet.  A codec that has no    *)
(* update_thread_context and safe callbacks has finished its setup at once.*)
WaitInput(t) ==
  /\ p[t].pc = "input" /\ t \notin inputWait /\ mutex[t] \in {None, t}
  /\ \/ /\ Ready(t) /\ ~p[t].die
        /\ inputWait' = inputWait \cup {t} /\ mutex' = [mutex EXCEPT ![t] = None]
        /\ UNCHANGED p
     \/ /\ p[t].die
        /\ WorkerTo(t, "dead") /\ mutex' = [mutex EXCEPT ![t] = None]
        /\ UNCHANGED inputWait
     \/ /\ ~Ready(t) /\ ~p[t].die
        /\ mutex' = [mutex EXCEPT ![t] = t]
        /\ p' = [p EXCEPT ![t].pc = IF ~HasUpdate /\ ~UnsafeBuffer THEN "finish_setup" ELSE "start",
                          ![t].after = "start"]
        /\ UNCHANGED inputWait
  /\ UNCHANGED <<m, f, buffer_mutex, hwaccel_mutex, async_lock, progWait, outputWait, progress, h>>

(* Take hwaccel_mutex if the context already uses a hwaccel, and call      *)
(* codec->decode.                                                          *)
StartDecode(t) ==
  /\ p[t].pc = "start"
  /\ IF p[t].ctx.hw
     THEN hwaccel_mutex = None /\ hwaccel_mutex' = t
     ELSE UNCHANGED hwaccel_mutex
  /\ p' = [p EXCEPT ![t].pc = "decode", ![t].res = "none", ![t].row = 0,
                    ![t].ref = p[t].ctx.last, ![t].after = "work"]
  /\ UNCHANGED <<m, f, mutex, buffer_mutex, async_lock, waits, progress, h>>

(* An empty packet: the codec outputs what it has kept, or nothing. *)
DecodeNull(t) ==
  /\ p[t].pc = "decode" /\ Null(t)
  /\ \E r \in {"frame", "none"} : p' = [p EXCEPT ![t].pc = "decoded", ![t].res = r]
  /\ UNCHANGED <<m, f, locks, waits, progress, h>>

(* The codec may give up before it has asked for a buffer. *)
DecodeFail(t) ==
  /\ MayFail
  /\ p[t].pc \in {"decode", "alloc"} /\ ~Null(t)
  /\ p' = [p EXCEPT ![t].pc = "decoded", ![t].res = "err"]
  /\ UNCHANGED <<m, f, locks, waits, progress, h>>

(* ff_thread_get_format, at most once per packet, only by codecs that hand *)
(* their context on.  The serial decoder h.stream makes the same choice.   *)
GetFormat(t) ==
  /\ p[t].pc = "decode" /\ ~Null(t)
  /\ \/ WorkerTo(t, "alloc") /\ UNCHANGED <<progWait, h>>
     \/ /\ HasUpdate /\ ~UnsafeFormat
        /\ \E hw \in HwChoices : /\ p' = [p EXCEPT ![t].pc = "alloc", ![t].ctx.hw = hw]
                                 /\ h' = [h EXCEPT !.stream.hw = hw]
        /\ UNCHANGED progWait
     \/ /\ HasUpdate /\ UnsafeFormat
        /\ p' = [p EXCEPT ![t].pc = "format", ![t].state = "GET_FORMAT"]
        /\ progWait' = [progWait EXCEPT ![t] = {t}]   \* broadcast, then wait
        /\ UNCHANGED h
  /\ UNCHANGED <<m, f, locks, inputWait, outputWait, progress>>

GotFormat(t) ==
  /\ p[t].pc = "format" /\ t \notin progWait[t]
  /\ IF SettingUp(t)
     THEN /\ WorkerTo(t, "alloc") /\ UNCHANGED progWait
          /\ h' = [h EXCEPT !.stream.hw = p[t].ctx.hw]
     ELSE WaitOn(t, t) /\ UNCHANGED <<p, h>>
  /\ UNCHANGED <<m, f, locks, inputWait, outputWait, progress>>

(* thread_get_buffer_internal up to the callback: with safe callbacks it   *)
(* runs here, else Main is asked to run it and buffer_mutex is held        *)
(* meanwhile.                                                              *)
GetBuffer(t) ==
  /\ p[t].pc = "alloc" /\ ~Null(t) /\ buffer_mutex = None
  /\ buffer_mutex' = t
  /\ IF UnsafeBuffer
     THEN /\ p' = [p EXCEPT ![t].pc = "buffer", ![t].state = "GET_BUFFER"]
          /\ progWait' = [progWait EXCEPT ![t] = {t}]
     ELSE /\ \E r \in {"none"} \cup (IF MayFail THEN {"err"} ELSE {}) :
                p' = [p EXCEPT ![t].pc = "got_buffer", ![t].res = r]
          /\ UNCHANGED progWait
  /\ UNCHANGED <<m, f, mutex, hwaccel_mutex, async_lock, inputWait, outputWait, progress, h>>

(* Without update_thread_context an unsafe get_buffer finishes the setup.  *)
AwaitBuffer(t) ==
  /\ p[t].pc = "buffer" /\ t \notin progWait[t]
  /\ IF SettingUp(t)
     THEN /\ p' = [p EXCEPT ![t].pc = IF HasUpdate THEN "got_buffer" ELSE "finish_setup",
                            ![t].after = IF HasUpdate THEN @ ELSE "got_buffer"]
          /\ UNCHANGED progWait
     ELSE WaitOn(t, t) /\ UNCHANGED p
  /\ UNCHANGED <<m, f, locks, inputWait, outputWait, progress, h>>

(* Back in the codec with the buffer, or with the error of get_buffer. *)
GotBuffer(t) ==
  LET k == p[t].pkt IN
  /\ p[t].pc = "got_buffer"
  /\ buffer_mutex' = None
  /\ IF p[t].res = "err"
     THEN WorkerTo(t, "decoded") /\ UNCHANGED h
     ELSE /\ p' = [p EXCEPT ![t].pc = IF HasUpdate THEN "finish_setup" ELSE "work",
                            ![t].after = "work", ![t].ctx.last = k]
          /\ h' = [h EXCEPT !.stream.last = k]
  /\ UNCHANGED <<m, f, mutex, hwaccel_mutex, async_lock, waits, progress>>

(* ff_thread_finish_setup, in the order of the code: hwaccel_mutex, the    *)
(* async lock, then the state.                                             *)
NeedsAsync(t) == p[t].ctx.hw /\ ~AsyncSafe

FinishSetupHwaccel(t) ==
  /\ p[t].pc = "finish_setup" /\ p[t].ctx.hw /\ hwaccel_mutex = None
  /\ hwaccel_mutex' = t
  /\ UNCHANGED <<m, f, p, mutex, buffer_mutex, async_lock, waits, progress, h>>

(* Mutant of FinishSetupAsync: the flag is set without waiting for it. *)
FinishSetupAsyncGrab(t) ==
  /\ p[t].pc = "finish_setup" /\ NeedsAsync(t) /\ hwaccel_mutex = t
  /\ ~p[t].serializing
  /\ async_lock' = t
  /\ p' = [p EXCEPT ![t].serializing = TRUE]
  /\ UNCHANGED <<m, f, mutex, buffer_mutex, hwaccel_mutex, waits, progress, h>>

FinishSetupAsync(t) ==
  /\ p[t].pc = "finish_setup" /\ NeedsAsync(t) /\ hwaccel_mutex = t
  /\ ~p[t].serializing /\ async_lock = None
  /\ async_lock' = t
  /\ p' = [p EXCEPT ![t].serializing = TRUE]
  /\ UNCHANGED <<m, f, mutex, buffer_mutex, hwaccel_mutex, waits, progress, h>>

FinishSetup(t) ==
  /\ p[t].pc = "finish_setup"
  /\ (p[t].ctx.hw => hwaccel_mutex = t) /\ (NeedsAsync(t) => p[t].serializing)
  /\ p' = [p EXCEPT ![t].pc = p[t].after, ![t].state = "SETUP_FINISHED"]
  /\ WakeAll(t)
  /\ UNCHANGED <<m, f, locks, inputWait, outputWait, progress, h>>

(* ff_thread_await_progress on the reference frame: its owner is the       *)
(* worker that decodes it.                                                 *)
Reference(t) == IF HasUpdate THEN p[t].ref ELSE 0
RefReady(t) == Reference(t) = 0 \/ progress[Reference(t)] >= p[t].row
Owner(k) == CHOOSE o \in Workers : p[o].pkt = k
Waiting(t) == \E o \in Workers : t \in progWait[o]

AwaitProgress(t) ==
  /\ p[t].pc = "work" /\ ~Waiting(t) /\ p[t].row < Rows /\ ~RefReady(t)
  /\ WaitOn(Owner(Reference(t)), t)
  /\ UNCHANGED <<m, f, p, locks, inputWait, outputWait, progress, h>>

(* Decode one row and report it (ff_thread_report_progress). *)
ReportProgress(t) ==
  /\ p[t].pc = "work" /\ ~Waiting(t) /\ p[t].row < Rows /\ RefReady(t)
  /\ progress' = [progress EXCEPT ![p[t].pkt] = p[t].row]
  /\ WakeAll(t)
  /\ p' = [p EXCEPT ![t].row = @ + 1]
  /\ UNCHANGED <<m, f, locks, inputWait, outputWait, h>>

(* The codec meets damaged data: it reports the whole frame and fails. *)
WorkFail(t) ==
  /\ MayFail /\ p[t].pc = "work" /\ ~Waiting(t) /\ p[t].row < Rows
  /\ progress' = [progress EXCEPT ![p[t].pkt] = Rows - 1]
  /\ WakeAll(t)
  /\ p' = [p EXCEPT ![t].pc = "decoded", ![t].res = "err"]
  /\ UNCHANGED <<m, f, locks, inputWait, outputWait, h>>

(* The frame is complete; the reference is released (directly, or with     *)
(* unsafe callbacks queued for Main), and the frame may be output.         *)
WorkDone(t) ==
  /\ p[t].pc = "work" /\ p[t].row = Rows
  /\ \E r \in {"frame", "none"}, n \in 0 .. 1 :
       /\ n = 1 => UnsafeBuffer /\ buffer_mutex = None /\ p[t].ref # 0
       /\ p' = [p EXCEPT ![t].pc = "decoded", ![t].res = r, ![t].released = @ + n]
  /\ UNCHANGED <<m, f, locks, waits, progress, h>>

(* After codec->decode: finish the setup if the codec has not, give up the *)
(* serializing locks in the order they were taken, and publish the result. *)
DecodeDone(t) ==
  /\ p[t].pc = "decoded"
  /\ p' = [p EXCEPT ![t].pc = IF SettingUp(t) THEN "finish_setup" ELSE "unlock",
                    ![t].after = "unlock"]
  /\ UNCHANGED <<m, f, locks, waits, progress, h>>

Unlock(t) ==
  /\ p[t].pc = "unlock"
  /\ hwaccel_mutex' = IF hwaccel_mutex = t THEN None ELSE hwaccel_mutex
  /\ WorkerTo(t, "async_unlock")
  /\ UNCHANGED <<m, f, mutex, buffer_mutex, async_lock, waits, progress, h>>

AsyncUnlock(t) ==
  /\ p[t].pc = "async_unlock"
  /\ async_lock' = IF p[t].serializing THEN None ELSE async_lock
  /\ p' = [p EXCEPT ![t].pc = "publish", ![t].serializing = FALSE]
  /\ UNCHANGED <<m, f, mutex, buffer_mutex, hwaccel_mutex, waits, progress, h>>

(* Mutant of Publish: output_cond is not signalled. *)
PublishSilently(t) ==
  /\ p[t].pc = "publish"
  /\ p' = [p EXCEPT ![t].pc = "input", ![t].state = "INPUT_READY"]
  /\ WakeAll(t)
  /\ UNCHANGED <<m, f, locks, inputWait, outputWait, progress, h>>

Publish(t) ==
  /\ p[t].pc = "publish"
  /\ p' = [p EXCEPT ![t].pc = "input", ![t].state = "INPUT_READY"]
  /\ WakeAll(t)
  /\ outputWait' = outputWait \ {t}
  /\ UNCHANGED <<m, f, locks, inputWait, progress, h>>

-----------------------------------------------------------------------------
SpuriousWake ==
  /\ \/ \E t \in Workers : /\ progWait[t] # {}
                           /\ WakeAll(t) /\ UNCHANGED <<inputWait, outputWait>>
     \/ inputWait # {} /\ inputWait' = {} /\ UNCHANGED <<progWait, outputWait>>
     \/ outputWait # {} /\ outputWait' = {} /\ UNCHANGED <<progWait, inputWait>>
  /\ UNCHANGED <<m, f, p, locks, progress, h>>

Freed == m.pc = "freed" /\ UNCHANGED vars

MainStep == \/ SubmitLock \/ SubmitRelease \/ SubmitAwaitSetup \/ SubmitCopy
            \/ SubmitPacket \/ SubmitServe \/ Submitted \/ Collect \/ Finish
            \/ Park \/ Parked \/ Flush \/ FreeStart \/ Kill \/ Join

Call == (\E call \in {"data", "null"} : DecodeCall(call))
        \/ (\E call \in {"flush", "free"} : ParkCall(call))

WorkerStep(t) ==
  \/ WaitInput(t) \/ StartDecode(t)
  \/ DecodeNull(t) \/ DecodeFail(t) \/ GetFormat(t) \/ GotFormat(t)
  \/ GetBuffer(t) \/ AwaitBuffer(t) \/ GotBuffer(t)
  \/ FinishSetupHwaccel(t) \/ FinishSetupAsync(t) \/ FinishSetup(t)
  \/ AwaitProgress(t) \/ ReportProgress(t) \/ WorkFail(t) \/ WorkDone(t)
  \/ DecodeDone(t) \/ Unlock(t) \/ AsyncUnlock(t) \/ Publish(t)

Next == Call \/ MainStep \/ (\E t \in Workers : WorkerStep(t)) \/ SpuriousWake \/ Freed

(* Every thread that can run does; the caller need not call anything, and  *)
(* no thread is woken for no reason.  Weak fairness is enough although     *)
(* Main competes with the workers for the async lock and the workers with  *)
(* one another for hwaccel_mutex: while Main is inside a call, at most T   *)
(* packets are left to contend for them.                                   *)
Fairness == WF_vars(MainStep) /\ \A t \in Workers : WF_vars(WorkerStep(t))

Spec == Init /\ [][Next]_vars /\ Fairness
-----------------------------------------------------------------------------
(* A packet never goes to a thread whose last result has not been taken:   *)
(* submit_packet does not look, the ring indices and fctx->delaying are    *)
(* all that prevents it, after failed submissions, drains and flushes too. *)
NoResultOverwritten ==
  [][\A t \in Workers : p'[t].pkt # p[t].pkt => h.pend[t] = 0 /\ Ready(t)]_vars

(* The context a packet's setup works on is the one a serial decoder would *)
(* have there: nothing that an earlier packet set up is missing, across    *)
(* threads, empty packets, failed submissions and flushes.  And setups run *)
(* one at a time: Main does not hand out a packet while another thread may *)
(* still change what it passes on, whether it runs its setup or waits for  *)
(* a callback in the middle of it.                                         *)
InSetup == {t \in Workers : p[t].state \in {"SETTING_UP", "GET_BUFFER", "GET_FORMAT"}}
SerialContext ==
  /\ Cardinality(InSetup) <= 1
  /\ HasUpdate => \A t \in InSetup : p[t].pc # "format" => p[t].ctx = h.stream

(* Hardware decoding is serialized: one thread at a time, and, unless the  *)
(* hwaccel is async safe, never while the caller runs outside the decoder. *)
(* And av_assert0(fctx->async_lock) in async_unlock: whoever unlocks holds *)
(* it, the caller between two calls and each serializing worker.           *)
HwRunning == {t \in Workers : p[t].pc = "work" /\ p[t].ctx.hw}
HwaccelExclusive ==
  /\ Cardinality(HwRunning) <= 1
  /\ HwRunning # {} /\ ~AsyncSafe => m.pc # "user"
  /\ m.pc = "user" => async_lock = Main
  /\ \A t \in Workers : p[t].serializing => async_lock = t

(* Every call of the decoder returns: no wake-up is lost, nobody waits in  *)
(* a circle, whatever callbacks, serialized hwaccels and failures occur.   *)
CallsReturn == m.pc # "user" ~> m.pc \in {"user", "freed"}

(* A packet that was handed over is finished although the caller never     *)
(* calls again, unless a hwaccel that is not async safe must wait for it.  *)
WaitsForCaller == \E t \in Workers : p[t].pc = "finish_setup" /\ NeedsAsync(t)
PacketsFinish ==
  \A t \in Workers : (~Ready(t)) ~> (Ready(t) \/ (async_lock = Main /\ WaitsForCaller))

(* The decoder is a pipeline: results leave in submission order, and only  *)
(* once it is full or being drained; the answer "no frame, no error" to an *)
(* empty packet, which the callers of ff_thread_decode_frame take for the  *)
(* end of the stream, comes when no thread holds a result any more.        *)
Held(k) == \E t \in Workers : h.pend[t] = k
Pipeline == INSTANCE DelayedDecoder WITH
  MaxSub <- MaxSub, MaxDepth <- T, depth <- T - FFV1,
  queue <- {k \in 1 .. MaxSub : Held(k)},
  delivered <- h.taken, submitted <- h.sub, draining <- h.draining, ended <- h.eof
ImplementsPipeline == Pipeline!Spec
=============================================================================
