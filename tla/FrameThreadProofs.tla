------------------------- MODULE FrameThreadProofs -------------------------
(***************************************************************************)
(* Theorems about FrameThread for any number of threads from two on, any   *)
(* kinds of codec and caller, and any number of packets and flushes.       *)
(*                                                                         *)
(* The packets under way have consecutive numbers and lie in consecutive   *)
(* places of the ring of threads, from next_finished on.  At most the      *)
(* thread of the newest packet is in its setup, and when it has left it    *)
(* its context is that of a serial decoder.                                *)
(***************************************************************************)
EXTENDS FrameThread, FiniteSetTheorems, TLAPS

(* What Main does: outside, submitting a packet, with a packet submitted,  *)
(* and with every thread parked.                                           *)
Submitting == {"lock", "release", "await_setup", "copy", "packet"}
InCall == Submitting \cup {"serve", "handed", "submitted", "collect", "finish"}
AllParked == {"flush", "free", "kill", "join", "freed"}
MainLabels == InCall \cup AllParked \cup {"user", "park"}

WorkerLabels == {"input", "start", "decode", "format", "alloc", "buffer", "got_buffer",
                 "finish_setup", "work", "decoded", "unlock", "async_unlock", "publish", "dead"}
Asking == {"GET_BUFFER", "GET_FORMAT"}
Open == {"SETTING_UP"} \cup Asking
States == Open \cup {"INPUT_READY", "SETUP_FINISHED"}
Results == {"none", "frame", "err"}
Contexts == [hw : BOOLEAN, last : Nat]

PerThread ==
  [pc : WorkerLabels, state : States, after : {"start", "got_buffer", "work", "unlock"},
   ctx : Contexts, ref : Nat, pkt : Nat, row : Nat, res : Results,
   serializing : BOOLEAN, released : Nat, die : BOOLEAN]

MainOK == m \in [pc : MainLabels, call : {"data", "null", "flush", "free"}, cur : Nat, out : Results]
RingOK == f \in [next_decoding : 0 .. T, next_finished : Workers, delaying : BOOLEAN,
                 prev_thread : Workers \cup {None}, codec : Codecs]
ThreadsOK == p \in [Workers -> PerThread]
HistoryOK ==
  h \in [sub : 0 .. MaxSub, nulls : SUBSET Nat, pend : [Workers -> Nat], taken : Seq(Nat),
         stream : Contexts, draining : BOOLEAN, eof : BOOLEAN, flushes : Nat]
TypeOK == MainOK /\ RingOK /\ ThreadsOK /\ HistoryOK

(* Codecs without update_thread_context and with a safe get_buffer have no *)
(* setup that the decoder runs in.                                         *)
SetupInDecode == HasUpdate \/ UnsafeBuffer

(* The state of a thread follows from where it is. *)
StateInv(t) ==
  /\ p[t].pc = "input" => p[t].state \in {"INPUT_READY", "SETTING_UP"}
  /\ p[t].pc = "dead" => Ready(t) /\ p[t].die
  /\ p[t].pc \in {"start", "decode", "alloc"} =>
       p[t].state = IF SetupInDecode THEN "SETTING_UP" ELSE "SETUP_FINISHED"
  /\ p[t].pc = "format" => p[t].state \in {"GET_FORMAT", "SETTING_UP"} /\ HasUpdate /\ UnsafeFormat
  /\ p[t].pc = "buffer" => p[t].state \in {"GET_BUFFER", "SETTING_UP"} /\ UnsafeBuffer
  /\ p[t].pc = "got_buffer" => p[t].state = IF HasUpdate THEN "SETTING_UP" ELSE "SETUP_FINISHED"
  /\ p[t].pc = "finish_setup" => /\ SettingUp(t)
                                 /\ p[t].after = "start" => ~SetupInDecode
                                 /\ p[t].after = "got_buffer" => ~HasUpdate
                                 /\ p[t].after = "work" => HasUpdate
  /\ p[t].pc = "decoded" => p[t].state \in {"SETTING_UP", "SETUP_FINISHED"}
  /\ p[t].pc \in {"work", "unlock", "async_unlock", "publish"} => p[t].state = "SETUP_FINISHED"
  /\ p[t].die => Ready(t) /\ m.pc \in {"kill", "join", "freed"}

(* Who decodes with a hwaccel has what serializes it. *)
HwInv(t) ==
  /\ p[t].ctx.hw => HasUpdate
  /\ p[t].pc = "work" /\ p[t].ctx.hw => hwaccel_mutex = t /\ (~AsyncSafe => p[t].serializing)
  /\ p[t].serializing => async_lock = t
CallerInv == m.pc \in {"user", "flush"} => async_lock = Main

(* A thread without a result waits for a packet; Main has parked those it  *)
(* has been at.                                                            *)
ReadyInv(t) ==
  /\ h.pend[t] = 0 => Ready(t) /\ p[t].res = "none"
  /\ m.pc = "park" /\ t < m.cur => Ready(t)
  /\ m.pc \in AllParked => Ready(t)

(* The thread of the newest packet, whose context is handed on. *)
Latest == IF m.pc \in {"serve", "handed"} THEN f.next_decoding ELSE f.prev_thread

(* Only that thread is in its setup, and not while Main passes its context *)
(* on; with callbacks that Main runs, only while it serves them.           *)
SetupInv(t) ==
  p[t].state \in Open =>
    /\ t = Latest /\ m.pc \notin {"copy", "packet"}
    /\ p[t].state \in Asking \/ UnsafeFormat \/ UnsafeBuffer => m.pc = "serve"

(* Its context is that of the serial decoder, but for a format that Main   *)
(* has selected and the thread has not seen.                               *)
StreamInv ==
  /\ m.pc \in {"await_setup", "copy"} => f.prev_thread # None
  /\ f.prev_thread = None => f.next_decoding = 0
  /\ HasUpdate =>
       /\ Latest # None =>
            IF p[Latest].pc = "format" THEN p[Latest].ctx.last = h.stream.last
            ELSE p[Latest].ctx = h.stream
       /\ Latest = None => p[0].ctx = h.stream
       /\ m.pc = "packet" => p[f.next_decoding].ctx = h.stream

(* The call under way. *)
CallInv ==
  /\ m.pc \in Submitting => h.sub < MaxSub
  /\ m.pc \in InCall => /\ ~h.eof /\ m.call \in {"data", "null"}
                        /\ h.draining <=> m.call = "null"
  /\ m.pc = "park" => m.call \in {"flush", "free"} /\ m.cur <= T
  /\ m.pc \in Submitting \cup {"serve", "handed", "submitted"} => m.cur = f.next_finished
  /\ m.pc = "submitted" => m.call = "null"
  /\ m.pc = "collect" => m.cur < T
  /\ m.pc # "collect" => f.next_decoding < T

(* The ring: thread t is Dist(t) places after the oldest one, of which     *)
(* Main has asked Asked in this call; c packets were under way before.     *)
Depth == T - FFV1
Dist(t) == IF t >= f.next_finished THEN t - f.next_finished ELSE t - f.next_finished + T
Asked == IF m.pc = "collect" THEN Dist(m.cur) ELSE 0
New == IF m.pc \in {"serve", "handed"} THEN 1 ELSE 0
RingAt(c) ==
  /\ c <= h.sub
  /\ f.next_decoding + New \in {f.next_finished + c, f.next_finished + c - T}
  /\ f.delaying => f.next_decoding + New = f.next_finished + c /\ f.next_decoding < Depth
  /\ f.delaying /\ ~h.draining => f.next_finished = 0
  /\ \A t \in Workers :
       h.pend[t] = IF Asked <= Dist(t) /\ Dist(t) < c THEN h.sub - c + Dist(t) + 1 ELSE 0
  /\ IF m.pc = "collect" THEN ~h.draining => c = Depth /\ Asked = 0 /\ ~f.delaying
     ELSE /\ c - New < T
          /\ ~h.draining => IF f.delaying THEN c - New < Depth ELSE c - New = Depth - 1

(* The decoder has answered that there is no more, or will. *)
AtEnd == \/ h.eof \/ (m.pc = "finish" /\ m.call = "null" /\ m.out = "none")
RingInv == /\ AtEnd => \A t \in Workers : h.pend[t] = 0
           /\ ~AtEnd => \E c \in 0 .. T : RingAt(c)

FrameInv ==
  /\ TypeOK /\ CallerInv /\ StreamInv /\ CallInv /\ RingInv
  /\ \A t \in Workers : StateInv(t) /\ HwInv(t) /\ ReadyInv(t) /\ SetupInv(t)
-----------------------------------------------------------------------------
LEMMA Numbers == T \in Nat /\ T >= 2 /\ MaxSub \in Nat /\ None \notin Workers
                 /\ Main \notin Workers /\ Main # None
  BY FrameThreadAssumption DEF FrameThreadAssumption, Workers, Main, None

(* What is known of any codec. *)
LEMMA CodecFacts ==
  ASSUME TypeOK
  PROVE  /\ HasUpdate \in BOOLEAN /\ UnsafeBuffer \in BOOLEAN /\ UnsafeFormat \in BOOLEAN
         /\ AsyncSafe \in BOOLEAN /\ FFV1 \in {0, 1}
         /\ \A hw \in HwChoices : hw \in BOOLEAN /\ (hw => HasUpdate)
<1>1. f.codec \in Codecs
  BY DEF TypeOK, RingOK
<1>2. f.codec \in Codec /\ (TRUE \in f.codec.formats => f.codec.hasUpdate)
  BY <1>1, FrameThreadAssumption DEF FrameThreadAssumption
<1>3. /\ f.codec.hasUpdate \in BOOLEAN /\ f.codec.unsafeBuffer \in BOOLEAN
      /\ f.codec.unsafeFormat \in BOOLEAN /\ f.codec.asyncSafe \in BOOLEAN
      /\ f.codec.ffv1 \in {0, 1} /\ f.codec.formats \in SUBSET BOOLEAN
  BY <1>2 DEF Codec
<1> QED BY <1>2, <1>3 DEF HasUpdate, UnsafeBuffer, UnsafeFormat, AsyncSafe, FFV1, HwChoices

(* A step of a worker and what it has to respect. *)
WorkerChanges(t) ==
  /\ m' = m /\ f' = f
  /\ ThreadsOK' /\ \A u \in Workers \ {t} : p'[u] = p[u]
  /\ h'.stream \in Contexts /\ h' = [h EXCEPT !.stream = h'.stream]

LocksKept(t) ==
  \A u \in (Workers \cup {Main}) \ {t} :
    (hwaccel_mutex = u => hwaccel_mutex' = u) /\ (async_lock = u => async_lock' = u)

SetupStep(t) ==
  /\ Ready(t) => p'[t].state = p[t].state /\ p'[t].res = p[t].res
  /\ p'[t].state \in Open => p[t].state \in Open
  /\ p'[t].state \in Asking => m.pc = "serve"
  /\ HasUpdate =>
       IF p[t].state \in Open
       THEN IF p'[t].pc = "format" THEN p'[t].ctx.last = h'.stream.last
            ELSE p'[t].ctx = h'.stream
       ELSE p'[t].pc # "format" /\ p'[t].ctx = p[t].ctx /\ h'.stream = h.stream

LEMMA WorkerStepKeeps ==
  ASSUME FrameInv, NEW t \in Workers, WorkerChanges(t), LocksKept(t), SetupStep(t),
         StateInv(t)', HwInv(t)'
  PROVE  FrameInv'
<1>1. /\ m' = m /\ f' = f /\ ThreadsOK'
      /\ h'.sub = h.sub /\ h'.pend = h.pend /\ h'.draining = h.draining /\ h'.eof = h.eof
      /\ h'.stream \in Contexts
  BY DEF WorkerChanges, FrameInv, TypeOK, HistoryOK
<1>2. ASSUME NEW u \in Workers, u # t PROVE p'[u] = p[u]
  BY <1>2 DEF WorkerChanges
<1>3. TypeOK'
  BY <1>1 DEF FrameInv, TypeOK, MainOK, RingOK, HistoryOK, WorkerChanges
<1>4. CallerInv'
  BY <1>1, Numbers DEF FrameInv, CallerInv, LocksKept
<1>5. CallInv'
  BY <1>1 DEF FrameInv, CallInv
<1>6. RingInv'
  BY <1>1 DEF FrameInv, RingInv, AtEnd, RingAt, Asked, New, Dist, Depth, FFV1
<1>7. Latest' = Latest
  BY <1>1 DEF Latest
<1>8. p[t].state \notin Open => p[t].pc # "format"
  BY DEF FrameInv, StateInv, Open, Asking
<1>9. ASSUME NEW u \in Workers PROVE SetupInv(u)'
  BY <1>1, <1>2, <1>7 DEF FrameInv, SetupInv, SetupStep, UnsafeFormat, UnsafeBuffer
<1>10. ASSUME NEW u \in Workers PROVE StateInv(u)'
  BY <1>1, <1>2, <1>10 DEF FrameInv, StateInv, Ready, SettingUp, HasUpdate, SetupInDecode,
    UnsafeFormat, UnsafeBuffer
<1>11. ASSUME NEW u \in Workers PROVE HwInv(u)'
  BY <1>1, <1>2, <1>11 DEF FrameInv, HwInv, HasUpdate, AsyncSafe, LocksKept
<1>12. ASSUME NEW u \in Workers PROVE ReadyInv(u)'
  BY <1>1, <1>2, <1>12 DEF FrameInv, ReadyInv, Ready, SetupStep
<1>13. StreamInv'
  <2>1. HasUpdate' = HasUpdate
    BY <1>1 DEF HasUpdate
  <2>2. SetupInv(t)
    BY DEF FrameInv
  <2>3. CASE p[t].state \in Open
    BY <1>1, <1>2, <1>7, <2>1, <2>2, <2>3, Numbers DEF FrameInv, StreamInv, SetupStep, SetupInv
  <2>4. CASE p[t].state \notin Open
    <3>1. CASE HasUpdate
      <4>1. \A u \in Workers : p'[u].ctx = p[u].ctx /\ (p'[u].pc = "format" <=> p[u].pc = "format")
        BY <1>2, <1>8, <2>4, <3>1 DEF SetupStep
      <4>2. h'.stream = h.stream
        BY <2>4, <3>1 DEF SetupStep
      <4>3. Latest = None \/ Latest \in Workers
        BY Numbers DEF FrameInv, TypeOK, RingOK, CallInv, Latest, Workers
      <4>4. 0 \in Workers /\ (m.pc = "packet" => f.next_decoding \in Workers)
        BY Numbers DEF FrameInv, TypeOK, RingOK, CallInv, Workers
      <4>5. StreamInv
        BY DEF FrameInv
      <4> QED BY <1>1, <1>7, <2>1, <4>1, <4>2, <4>3, <4>4, <4>5 DEF StreamInv
    <3>2. CASE ~HasUpdate
      BY <1>1, <2>1, <3>2 DEF FrameInv, StreamInv
    <3> QED BY <3>1, <3>2
  <2> QED BY <2>3, <2>4
<1> QED BY <1>3, <1>4, <1>5, <1>6, <1>9, <1>10, <1>11, <1>12, <1>13 DEF FrameInv
-----------------------------------------------------------------------------
(* The steps of a worker. *)
LEMMA WorkerInvariants ==
  ASSUME FrameInv, NEW t \in Workers
  PROVE  /\ p[t] \in PerThread /\ p \in [Workers -> PerThread] /\ StateInv(t) /\ HwInv(t)
         /\ SetupInv(t) /\ ReadyInv(t)
         /\ h.stream \in Contexts /\ h = [h EXCEPT !.stream = h.stream]
         /\ t # Main /\ t # None
  BY Numbers DEF FrameInv, TypeOK, ThreadsOK, HistoryOK

(* A thread in its setup has the serial context. *)
LEMMA SetupOnStream ==
  ASSUME FrameInv, NEW t \in Workers, p[t].state \in Open, HasUpdate
  PROVE  IF p[t].pc = "format" THEN p[t].ctx.last = h.stream.last ELSE p[t].ctx = h.stream
  BY Numbers DEF FrameInv, SetupInv, StreamInv

LEMMA WaitInputStep ==
  ASSUME FrameInv, NEW t \in Workers, WaitInput(t) PROVE FrameInv'
<1> USE DEF WaitInput
<1>1. /\ p[t] \in PerThread /\ p \in [Workers -> PerThread] /\ StateInv(t) /\ HwInv(t)
      /\ SetupInv(t) /\ h.stream \in Contexts /\ h = [h EXCEPT !.stream = h.stream]
  BY WorkerInvariants
<1>2. PICK l \in {"input", "dead", "finish_setup", "start"}, a \in {p[t].after, "start"} :
        /\ p' = [p EXCEPT ![t].pc = l, ![t].after = a]
        /\ l = "dead" => p[t].die
        /\ l = "finish_setup" => a = "start" /\ ~Ready(t) /\ ~SetupInDecode
        /\ l = "start" => ~Ready(t) /\ SetupInDecode
  BY <1>1 DEF WorkerTo, SetupInDecode, PerThread
<1>3. p'[t] = [p[t] EXCEPT !.pc = l, !.after = a] /\ \A u \in Workers \ {t} : p'[u] = p[u]
  BY <1>1, <1>2
<1>4. p'[t] \in PerThread
  BY <1>1, <1>3 DEF PerThread, WorkerLabels
<1>5. WorkerChanges(t)
  BY <1>1, <1>2, <1>3, <1>4 DEF WorkerChanges, ThreadsOK
<1>6. LocksKept(t)
  BY DEF LocksKept
<1>7. SetupStep(t)
  BY <1>1, <1>2, <1>3, SetupOnStream DEF SetupStep, StateInv, SetupInv, PerThread, Open, Asking, Ready
<1>8. StateInv(t)'
  BY <1>1, <1>2, <1>3 DEF StateInv, PerThread, Ready, SettingUp, SetupInDecode, HasUpdate, UnsafeBuffer
<1>9. HwInv(t)'
  BY <1>1, <1>2, <1>3 DEF HwInv, PerThread, HasUpdate, AsyncSafe
<1> QED BY <1>5, <1>6, <1>7, <1>8, <1>9, WorkerStepKeeps

LEMMA StartDecodeStep ==
  ASSUME FrameInv, NEW t \in Workers, StartDecode(t) PROVE FrameInv'
<1> USE DEF StartDecode
<1>1. /\ p[t] \in PerThread /\ p \in [Workers -> PerThread] /\ StateInv(t) /\ HwInv(t)
      /\ SetupInv(t) /\ h.stream \in Contexts /\ h = [h EXCEPT !.stream = h.stream]
      /\ t # Main /\ t # None
  BY WorkerInvariants
<1>2. /\ p'[t] = [p[t] EXCEPT !.pc = "decode", !.res = "none", !.row = 0, !.ref = p[t].ctx.last,
                              !.after = "work"]
      /\ \A u \in Workers \ {t} : p'[u] = p[u]
  BY <1>1
<1>3. p'[t] \in PerThread
  BY <1>1, <1>2 DEF PerThread, WorkerLabels, Contexts, Results
<1>4. p' \in [Workers -> PerThread]
  BY <1>1, <1>2, <1>3
<1>5. WorkerChanges(t)
  BY <1>1, <1>2, <1>4 DEF WorkerChanges, ThreadsOK
<1>6. LocksKept(t)
  BY <1>1, Numbers DEF LocksKept
<1>7. SetupStep(t)
  BY <1>1, <1>2, SetupOnStream DEF SetupStep, StateInv, SetupInv, PerThread, Open, Asking, Ready,
    SetupInDecode
<1>8. StateInv(t)'
  BY <1>1, <1>2 DEF StateInv, PerThread, Ready, SettingUp, SetupInDecode, HasUpdate, UnsafeBuffer
<1>9. HwInv(t)'
  BY <1>1, <1>2 DEF HwInv, PerThread, HasUpdate, AsyncSafe
<1> QED BY <1>5, <1>6, <1>7, <1>8, <1>9, WorkerStepKeeps

(* The codec gives its result. *)
LEMMA DecodedStep ==
  ASSUME FrameInv, NEW t \in Workers, DecodeNull(t) \/ DecodeFail(t) \/ WorkFail(t) \/ WorkDone(t)
  PROVE  FrameInv'
<1> USE DEF DecodeNull, DecodeFail, WorkFail, WorkDone
<1>1. /\ p[t] \in PerThread /\ p \in [Workers -> PerThread] /\ StateInv(t) /\ HwInv(t)
      /\ SetupInv(t) /\ h.stream \in Contexts /\ h = [h EXCEPT !.stream = h.stream]
  BY WorkerInvariants
<1>10. p[t].pc \in {"decode", "alloc", "work"}
  OBVIOUS
<1>2. \E r \in Results, n \in {0, 1} :
        \/ p' = [p EXCEPT ![t].pc = "decoded", ![t].res = r]
        \/ p' = [p EXCEPT ![t].pc = "decoded", ![t].res = r, ![t].released = @ + n]
  <2>1. CASE DecodeNull(t)
    BY <2>1, Zenon DEF Results
  <2>2. CASE DecodeFail(t) \/ WorkFail(t)
    <3>1. p' = [p EXCEPT ![t].pc = "decoded", ![t].res = "err"]
      BY <2>2
    <3> QED BY <3>1, Zenon DEF Results
  <2>3. CASE WorkDone(t)
    <3>1. PICK r \in {"frame", "none"}, n \in 0 .. 1 :
            p' = [p EXCEPT ![t].pc = "decoded", ![t].res = r, ![t].released = @ + n]
      BY <2>3
    <3>2. r \in Results /\ n \in {0, 1}
      BY DEF Results
    <3> QED BY <3>1, <3>2, Zenon
  <2> QED BY <2>1, <2>2, <2>3
<1>11. PICK r \in Results, n \in {0, 1} :
        \/ p' = [p EXCEPT ![t].pc = "decoded", ![t].res = r]
        \/ p' = [p EXCEPT ![t].pc = "decoded", ![t].res = r, ![t].released = @ + n]
  BY <1>2, Zenon
<1>3. /\ \/ p'[t] = [p[t] EXCEPT !.pc = "decoded", !.res = r]
         \/ p'[t] = [p[t] EXCEPT !.pc = "decoded", !.res = r, !.released = @ + n]
      /\ \A u \in Workers \ {t} : p'[u] = p[u]
  BY <1>1, <1>11
<1>4. p'[t] \in PerThread
  BY <1>1, <1>3 DEF PerThread, WorkerLabels
<1>5. WorkerChanges(t)
  BY <1>1, <1>11, <1>3, <1>4 DEF WorkerChanges, ThreadsOK, locks
<1>6. LocksKept(t)
  BY DEF LocksKept, locks
<1>7. SetupStep(t)
  BY <1>1, <1>3, <1>10, SetupOnStream DEF SetupStep, StateInv, SetupInv, PerThread, Open, Asking, Ready,
    SetupInDecode
<1>8. StateInv(t)'
  BY <1>1, <1>3, <1>10 DEF StateInv, PerThread, Ready, SettingUp, SetupInDecode, HasUpdate, UnsafeBuffer
<1>9. HwInv(t)'
  BY <1>1, <1>3, <1>10 DEF HwInv, PerThread, HasUpdate, AsyncSafe, locks
<1> QED BY <1>5, <1>6, <1>7, <1>8, <1>9, WorkerStepKeeps

(* Asking for a format: of an open setup, as the codec hands its context on. *)
LEMMA GetFormatStep ==
  ASSUME FrameInv, NEW t \in Workers, GetFormat(t) PROVE FrameInv'
<1> USE DEF GetFormat
<1>1. /\ p[t] \in PerThread /\ p \in [Workers -> PerThread] /\ StateInv(t) /\ HwInv(t)
      /\ SetupInv(t) /\ h.stream \in Contexts /\ h = [h EXCEPT !.stream = h.stream]
  BY WorkerInvariants
<1>2. LocksKept(t)
  BY DEF LocksKept, locks
<1>3. m' = m /\ f' = f /\ p[t].pc = "decode" /\ async_lock' = async_lock
  BY DEF locks
<1>4. ~Ready(t) /\ (HasUpdate => p[t].state = "SETTING_UP" /\ p[t].ctx = h.stream)
  BY <1>1, <1>3, SetupOnStream DEF StateInv, SetupInDecode, Ready, Open, Asking
<1>5. CASE WorkerTo(t, "alloc") /\ UNCHANGED <<progWait, h>>
  <2>1. p' = [p EXCEPT ![t].pc = "alloc"] /\ h' = h
    BY <1>5 DEF WorkerTo
  <2>2. p'[t] = [p[t] EXCEPT !.pc = "alloc"] /\ \A u \in Workers \ {t} : p'[u] = p[u]
    BY <1>1, <2>1
  <2>3. p'[t] \in PerThread
    BY <1>1, <2>2 DEF PerThread, WorkerLabels
  <2>4. WorkerChanges(t)
    BY <1>1, <1>3, <2>1, <2>2, <2>3 DEF WorkerChanges, ThreadsOK
  <2>5. SetupStep(t)
    BY <1>1, <1>3, <1>4, <2>1, <2>2 DEF SetupStep, PerThread, StateInv, SetupInDecode, Open, Asking
  <2>6. StateInv(t)' /\ HwInv(t)'
    BY <1>1, <1>3, <2>2 DEF StateInv, PerThread, Ready, SettingUp, SetupInDecode, HasUpdate,
      UnsafeBuffer, HwInv
  <2> QED BY <1>2, <2>4, <2>5, <2>6, WorkerStepKeeps
<1>6. ASSUME HasUpdate, NEW hw \in HwChoices,
             p' = [p EXCEPT ![t].pc = "alloc", ![t].ctx.hw = hw], h' = [h EXCEPT !.stream.hw = hw]
      PROVE  FrameInv'
  <2>1. hw \in BOOLEAN
    BY CodecFacts DEF FrameInv
  <2> DEFINE c == [p[t].ctx EXCEPT !.hw = hw]
  <2>2. c \in Contexts
    BY <1>1, <2>1 DEF PerThread, Contexts
  <2>3. p'[t] = [p[t] EXCEPT !.pc = "alloc", !.ctx = c] /\ \A u \in Workers \ {t} : p'[u] = p[u]
    BY <1>1, <1>6 DEF PerThread, Contexts
  <2>4. h'.stream = c /\ h' = [h EXCEPT !.stream = c]
    BY <1>1, <1>4, <1>6 DEF FrameInv, TypeOK, HistoryOK
  <2> HIDE DEF c
  <2>5. p'[t] \in PerThread
    BY <1>1, <2>2, <2>3 DEF PerThread, WorkerLabels
  <2>6. WorkerChanges(t)
    BY <1>1, <1>3, <1>6, <2>2, <2>3, <2>4, <2>5 DEF WorkerChanges, ThreadsOK
  <2>7. SetupStep(t)
    BY <1>1, <1>3, <1>4, <1>6, <2>3, <2>4 DEF SetupStep, PerThread, StateInv, SetupInDecode, Open, Asking
  <2>8. StateInv(t)' /\ HwInv(t)'
    BY <1>1, <1>3, <1>6, <2>3 DEF StateInv, PerThread, Ready, SettingUp, SetupInDecode, HasUpdate,
      UnsafeBuffer, HwInv
  <2> QED BY <1>2, <2>6, <2>7, <2>8, WorkerStepKeeps
<1>7. ASSUME HasUpdate, UnsafeFormat, h' = h,
             p' = [p EXCEPT ![t].pc = "format", ![t].state = "GET_FORMAT"]
      PROVE  FrameInv'
  <2>1. /\ p'[t] = [p[t] EXCEPT !.pc = "format", !.state = "GET_FORMAT"]
        /\ \A u \in Workers \ {t} : p'[u] = p[u]
    BY <1>1, <1>7
  <2>2. p'[t] \in PerThread
    BY <1>1, <2>1 DEF PerThread, WorkerLabels, States, Open, Asking
  <2>3. WorkerChanges(t)
    BY <1>1, <1>3, <1>7, <2>1, <2>2 DEF WorkerChanges, ThreadsOK
  <2>4. SetupStep(t)
    BY <1>1, <1>3, <1>4, <1>7, <2>1 DEF SetupStep, SetupInv, PerThread, Open, Asking, Ready
  <2>5. StateInv(t)' /\ HwInv(t)'
    BY <1>1, <1>3, <1>4, <1>7, <2>1 DEF StateInv, PerThread, Ready, SettingUp, SetupInDecode, HasUpdate,
      UnsafeBuffer, UnsafeFormat, HwInv
  <2> QED BY <1>2, <2>3, <2>4, <2>5, WorkerStepKeeps
<1> QED BY <1>5, <1>6, <1>7

LEMMA GotFormatStep ==
  ASSUME FrameInv, NEW t \in Workers, GotFormat(t) PROVE FrameInv'
<1> USE DEF GotFormat
<1>1. /\ p[t] \in PerThread /\ p \in [Workers -> PerThread] /\ StateInv(t) /\ HwInv(t)
      /\ SetupInv(t) /\ h.stream \in Contexts /\ h = [h EXCEPT !.stream = h.stream]
  BY WorkerInvariants
<1>2. LocksKept(t)
  BY DEF LocksKept, locks
<1>3. m' = m /\ f' = f /\ p[t].pc = "format" /\ async_lock' = async_lock
  BY DEF locks
<1>4. HasUpdate /\ p[t].state \in {"GET_FORMAT", "SETTING_UP"} /\ p[t].ctx.last = h.stream.last
  BY <1>1, <1>3, SetupOnStream DEF StateInv, Open, Asking
<1>5. CASE SettingUp(t)
  <2>1. /\ p' = [p EXCEPT ![t].pc = "alloc"]
        /\ h' = [h EXCEPT !.stream = [h.stream EXCEPT !.hw = p[t].ctx.hw]]
    BY <1>5 DEF WorkerTo, FrameInv, TypeOK, HistoryOK
  <2>2. p'[t] = [p[t] EXCEPT !.pc = "alloc"] /\ \A u \in Workers \ {t} : p'[u] = p[u]
    BY <1>1, <2>1
  <2>3. p'[t] \in PerThread
    BY <1>1, <2>2 DEF PerThread, WorkerLabels
  <2>4. p[t].ctx = [h.stream EXCEPT !.hw = p[t].ctx.hw] /\ p[t].ctx \in Contexts
    BY <1>1, <1>4 DEF PerThread, Contexts
  <2>5. h' = [h EXCEPT !.stream = p[t].ctx] /\ h'.stream = p[t].ctx
    BY <2>1, <2>4 DEF FrameInv, TypeOK, HistoryOK
  <2>6. WorkerChanges(t)
    BY <1>1, <1>3, <2>2, <2>1, <2>4, <2>5, <2>3 DEF WorkerChanges, ThreadsOK
  <2>7. SetupStep(t)
    BY <1>1, <1>3, <1>4, <1>5, <2>2, <2>5 DEF SetupStep, PerThread, SettingUp, Ready, Open, Asking
  <2>8. StateInv(t)' /\ HwInv(t)'
    BY <1>1, <1>3, <1>4, <1>5, <2>2 DEF StateInv, PerThread, Ready, SettingUp, SetupInDecode, HasUpdate,
      UnsafeBuffer, HwInv
  <2> QED BY <1>2, <2>6, <2>7, <2>8, WorkerStepKeeps
<1>6. CASE ~SettingUp(t)
  <2>1. p' = p /\ h' = h
    BY <1>6
  <2>2. WorkerChanges(t)
    BY <1>1, <1>3, <2>1 DEF WorkerChanges, ThreadsOK
  <2>3. SetupStep(t)
    BY <1>1, <1>3, <1>4, <1>6, <2>1 DEF SetupStep, SetupInv, SettingUp, Open, Asking
  <2>4. StateInv(t)' /\ HwInv(t)'
    BY <1>1, <1>3, <2>1 DEF StateInv, Ready, SettingUp, SetupInDecode, HasUpdate,
      UnsafeBuffer, UnsafeFormat, HwInv, AsyncSafe
  <2> QED BY <1>2, <2>2, <2>3, <2>4, WorkerStepKeeps
<1> QED BY <1>5, <1>6

(* The step of a busy thread to another place that leaves its state and    *)
(* its context as they are.                                                *)
LEMMA MoveStep ==
  ASSUME FrameInv, NEW t \in Workers, m' = m, f' = f, h' = h,
         p' \in [Workers -> PerThread], \A u \in Workers \ {t} : p'[u] = p[u],
         p'[t].state = p[t].state, p'[t].ctx = p[t].ctx,
         ~Ready(t), p'[t].pc # "format", p[t].state \in Open => p[t].pc # "format",
         LocksKept(t), StateInv(t)', HwInv(t)'
  PROVE  FrameInv'
<1>1. SetupInv(t) /\ h.stream \in Contexts /\ h = [h EXCEPT !.stream = h.stream]
  BY WorkerInvariants
<1>2. WorkerChanges(t)
  BY <1>1 DEF WorkerChanges, ThreadsOK
<1>3. SetupStep(t)
  BY <1>1, SetupOnStream DEF SetupStep, SetupInv, Open, Asking
<1> QED BY <1>2, <1>3, WorkerStepKeeps

LEMMA GetBufferStep ==
  ASSUME FrameInv, NEW t \in Workers, GetBuffer(t) PROVE FrameInv'
<1> USE DEF GetBuffer
<1>1. /\ p[t] \in PerThread /\ p \in [Workers -> PerThread] /\ StateInv(t) /\ HwInv(t)
      /\ SetupInv(t) /\ h.stream \in Contexts /\ h = [h EXCEPT !.stream = h.stream]
  BY WorkerInvariants
<1>2. LocksKept(t)
  BY DEF LocksKept
<1>3. /\ m' = m /\ f' = f /\ h' = h /\ p[t].pc = "alloc"
      /\ async_lock' = async_lock /\ hwaccel_mutex' = hwaccel_mutex
  OBVIOUS
<1>4. ~Ready(t)
  BY <1>1, <1>3 DEF StateInv, Ready
<1>5. CASE UnsafeBuffer
  <2>1. /\ p'[t] = [p[t] EXCEPT !.pc = "buffer", !.state = "GET_BUFFER"]
        /\ \A u \in Workers \ {t} : p'[u] = p[u]
    BY <1>1, <1>5
  <2>2. p'[t] \in PerThread
    BY <1>1, <2>1 DEF PerThread, WorkerLabels, States, Open, Asking
  <2>3. p' \in [Workers -> PerThread]
    BY <1>1, <1>5, <2>1, <2>2
  <2>4. WorkerChanges(t)
    BY <1>1, <1>3, <2>1, <2>3 DEF WorkerChanges, ThreadsOK
  <2>5. p[t].state = "SETTING_UP"
    BY <1>1, <1>3, <1>5 DEF StateInv, SetupInDecode
  <2>6. SetupStep(t)
    BY <1>1, <1>3, <1>5, <2>1, <2>5, SetupOnStream DEF SetupStep, SetupInv, PerThread, Open, Asking, Ready
  <2>7. StateInv(t)' /\ HwInv(t)'
    BY <1>1, <1>3, <1>5, <2>1, <2>5 DEF StateInv, PerThread, Ready, SettingUp, SetupInDecode, HasUpdate,
      UnsafeBuffer, HwInv
  <2> QED BY <1>2, <2>4, <2>6, <2>7, WorkerStepKeeps
<1>6. CASE ~UnsafeBuffer
  <2>1. PICK r \in {"none", "err"} : p' = [p EXCEPT ![t].pc = "got_buffer", ![t].res = r]
    BY <1>6
  <2>2. /\ p'[t] = [p[t] EXCEPT !.pc = "got_buffer", !.res = r]
        /\ \A u \in Workers \ {t} : p'[u] = p[u]
    BY <1>1, <2>1
  <2>3. p'[t] \in PerThread
    BY <1>1, <2>2 DEF PerThread, WorkerLabels, Results
  <2>4. StateInv(t)' /\ HwInv(t)'
    BY <1>1, <1>3, <1>6, <2>2 DEF StateInv, PerThread, Ready, SettingUp, SetupInDecode, HasUpdate,
      UnsafeBuffer, HwInv
  <2>5. p'[t].state = p[t].state /\ p'[t].ctx = p[t].ctx /\ p'[t].pc = "got_buffer"
    BY <1>1, <2>2 DEF PerThread
  <2>6. p' \in [Workers -> PerThread]
    BY <1>1, <2>1, <2>2, <2>3
  <2> QED BY <1>2, <1>3, <1>4, <2>2, <2>4, <2>5, <2>6, MoveStep
<1> QED BY <1>5, <1>6

LEMMA AwaitBufferStep ==
  ASSUME FrameInv, NEW t \in Workers, AwaitBuffer(t) PROVE FrameInv'
<1> USE DEF AwaitBuffer
<1>1. /\ p[t] \in PerThread /\ p \in [Workers -> PerThread] /\ StateInv(t) /\ HwInv(t)
      /\ SetupInv(t) /\ h.stream \in Contexts /\ h = [h EXCEPT !.stream = h.stream]
  BY WorkerInvariants
<1>2. LocksKept(t)
  BY DEF LocksKept, locks
<1>3. /\ m' = m /\ f' = f /\ h' = h /\ p[t].pc = "buffer"
      /\ async_lock' = async_lock /\ hwaccel_mutex' = hwaccel_mutex
  BY DEF locks
<1>4. ~Ready(t)
  BY <1>1, <1>3 DEF StateInv, Ready
<1>5. CASE SettingUp(t)
  <2> DEFINE l == IF HasUpdate THEN "got_buffer" ELSE "finish_setup"
             a == IF HasUpdate THEN p[t].after ELSE "got_buffer"
  <2>1. /\ p'[t] = [p[t] EXCEPT !.pc = l, !.after = a]
        /\ \A u \in Workers \ {t} : p'[u] = p[u]
    BY <1>1, <1>5
  <2>2. p'[t] \in PerThread
    BY <1>1, <2>1 DEF PerThread, WorkerLabels
  <2>3. StateInv(t)' /\ HwInv(t)'
    BY <1>1, <1>3, <1>5, <2>1 DEF StateInv, PerThread, Ready, SettingUp, SetupInDecode, HasUpdate,
      UnsafeBuffer, HwInv, AsyncSafe
  <2>4. p'[t].state = p[t].state /\ p'[t].ctx = p[t].ctx /\ p'[t].pc # "format"
    BY <1>1, <2>1 DEF PerThread
  <2>5. p' \in [Workers -> PerThread]
    BY <1>1, <1>5, <2>1, <2>2
  <2> QED BY <1>2, <1>3, <1>4, <2>1, <2>3, <2>4, <2>5, MoveStep
<1>6. CASE ~SettingUp(t)
  <2>1. p' = p
    BY <1>6
  <2>2. WorkerChanges(t)
    BY <1>1, <1>3, <2>1 DEF WorkerChanges, ThreadsOK
  <2>3. SetupStep(t)
    BY <1>1, <1>3, <1>4, <1>6, <2>1, SetupOnStream DEF SetupStep, SetupInv, SettingUp, Open, Asking
  <2>4. StateInv(t)' /\ HwInv(t)'
    BY <1>1, <1>3, <2>1 DEF StateInv, Ready, SettingUp, SetupInDecode, HasUpdate,
      UnsafeBuffer, UnsafeFormat, HwInv, AsyncSafe
  <2> QED BY <1>2, <2>2, <2>3, <2>4, WorkerStepKeeps
<1> QED BY <1>5, <1>6

LEMMA GotBufferStep ==
  ASSUME FrameInv, NEW t \in Workers, GotBuffer(t) PROVE FrameInv'
<1> USE DEF GotBuffer
<1>1. /\ p[t] \in PerThread /\ p \in [Workers -> PerThread] /\ StateInv(t) /\ HwInv(t)
      /\ SetupInv(t) /\ h.stream \in Contexts /\ h = [h EXCEPT !.stream = h.stream]
  BY WorkerInvariants
<1>2. LocksKept(t)
  BY DEF LocksKept
<1>3. /\ m' = m /\ f' = f /\ p[t].pc = "got_buffer"
      /\ async_lock' = async_lock /\ hwaccel_mutex' = hwaccel_mutex
  OBVIOUS
<1>4. ~Ready(t)
  BY <1>1, <1>3 DEF StateInv, Ready
<1>5. CASE p[t].res = "err"
  <2>1. p' = [p EXCEPT ![t].pc = "decoded"] /\ h' = h
    BY <1>5 DEF WorkerTo
  <2>2. p'[t] = [p[t] EXCEPT !.pc = "decoded"] /\ \A u \in Workers \ {t} : p'[u] = p[u]
    BY <1>1, <2>1
  <2>3. p'[t] \in PerThread
    BY <1>1, <2>2 DEF PerThread, WorkerLabels
  <2>4. StateInv(t)' /\ HwInv(t)'
    BY <1>1, <1>3, <2>2 DEF StateInv, PerThread, Ready, SettingUp, SetupInDecode, HasUpdate,
      UnsafeBuffer, HwInv
  <2>5. p'[t].state = p[t].state /\ p'[t].ctx = p[t].ctx /\ p'[t].pc = "decoded"
    BY <1>1, <2>2 DEF PerThread
  <2>6. p' \in [Workers -> PerThread]
    BY <1>1, <2>1, <2>2, <2>3
  <2> QED BY <1>2, <1>3, <1>4, <2>1, <2>2, <2>4, <2>5, <2>6, MoveStep
<1>6. CASE p[t].res # "err"
  <2> DEFINE l == IF HasUpdate THEN "finish_setup" ELSE "work"
             k == p[t].pkt
             c == [p[t].ctx EXCEPT !.last = k]
             s == [h.stream EXCEPT !.last = k]
  <2>1. k \in Nat /\ c \in Contexts /\ s \in Contexts /\ c.hw = p[t].ctx.hw
        /\ (p[t].ctx = h.stream => c = s)
    BY <1>1 DEF PerThread, Contexts
  <2>2. p'[t] = [p[t] EXCEPT !.pc = l, !.after = "work", !.ctx = c] /\ \A u \in Workers \ {t} : p'[u] = p[u]
    BY <1>1, <1>6 DEF PerThread, Contexts
  <2>3. h' = [h EXCEPT !.stream = s] /\ h'.stream = s
    BY <1>6 DEF FrameInv, TypeOK, HistoryOK
  <2>4. l \in WorkerLabels /\ l # "format" /\ l = IF HasUpdate THEN "finish_setup" ELSE "work"
    BY DEF WorkerLabels
  <2>5. p' \in [Workers -> PerThread]
    <3>1. p'[t] \in PerThread
      BY <1>1, <2>1, <2>2, <2>4 DEF PerThread
    <3> QED BY <1>1, <1>6, <2>2, <3>1
  <2> HIDE DEF l, c, s
  <2>6. WorkerChanges(t)
    BY <1>3, <2>1, <2>2, <2>3, <2>5 DEF WorkerChanges, ThreadsOK
  <2>7. HasUpdate => p[t].state = "SETTING_UP" /\ p[t].ctx = h.stream
    BY <1>1, <1>3, SetupOnStream DEF StateInv, Open
  <2>8. SetupStep(t)
    BY <1>1, <1>3, <1>4, <2>1, <2>2, <2>3, <2>4, <2>7 DEF SetupStep, SetupInv, PerThread, Open, Asking,
      StateInv
  <2>9. StateInv(t)'
    BY <1>1, <1>3, <2>2, <2>4 DEF StateInv, PerThread, Ready, SettingUp, SetupInDecode, HasUpdate,
      UnsafeBuffer
  <2>10. HwInv(t)'
    BY <1>1, <1>3, <2>1, <2>2, <2>4 DEF HwInv, PerThread, HasUpdate, AsyncSafe
  <2> QED BY <1>2, <2>6, <2>8, <2>9, <2>10, WorkerStepKeeps
<1> QED BY <1>5, <1>6

(* Taking the locks that serialize a hwaccel. *)
LEMMA FinishSetupLockStep ==
  ASSUME FrameInv, NEW t \in Workers, FinishSetupHwaccel(t) \/ FinishSetupAsync(t)
  PROVE  FrameInv'
<1> USE DEF FinishSetupHwaccel, FinishSetupAsync
<1>1. /\ p[t] \in PerThread /\ p \in [Workers -> PerThread] /\ StateInv(t) /\ HwInv(t)
      /\ SetupInv(t) /\ h.stream \in Contexts /\ h = [h EXCEPT !.stream = h.stream]
      /\ t # None
  BY WorkerInvariants
<1>2. LocksKept(t)
  BY <1>1, Numbers DEF LocksKept
<1>3. m' = m /\ f' = f /\ h' = h /\ p[t].pc = "finish_setup"
  OBVIOUS
<1>4. ~Ready(t)
  BY <1>1, <1>3 DEF StateInv, Ready, SettingUp
<1>5. \/ p' = p /\ async_lock' = async_lock
      \/ p' = [p EXCEPT ![t].serializing = TRUE] /\ async_lock' = t
  OBVIOUS
<1>6. /\ \/ p'[t] = p[t] /\ async_lock' = async_lock
         \/ p'[t] = [p[t] EXCEPT !.serializing = TRUE] /\ async_lock' = t
      /\ \A u \in Workers \ {t} : p'[u] = p[u]
  BY <1>1, <1>5
<1>10. p'[t] \in PerThread
  BY <1>1, <1>6 DEF PerThread
<1>11. p' \in [Workers -> PerThread]
  BY <1>1, <1>5, <1>10
<1>7. WorkerChanges(t)
  BY <1>1, <1>3, <1>6, <1>11 DEF WorkerChanges, ThreadsOK
<1>8. SetupStep(t)
  BY <1>1, <1>3, <1>4, <1>6, SetupOnStream DEF SetupStep, SetupInv, PerThread, Open, Asking, StateInv, SettingUp
<1>9. StateInv(t)' /\ HwInv(t)'
  BY <1>1, <1>3, <1>6 DEF StateInv, PerThread, Ready, SettingUp, SetupInDecode, HasUpdate,
    UnsafeBuffer, HwInv
<1> QED BY <1>2, <1>7, <1>8, <1>9, WorkerStepKeeps

LEMMA FinishSetupStep ==
  ASSUME FrameInv, NEW t \in Workers, FinishSetup(t) PROVE FrameInv'
<1> USE DEF FinishSetup
<1>1. /\ p[t] \in PerThread /\ p \in [Workers -> PerThread] /\ StateInv(t) /\ HwInv(t)
      /\ SetupInv(t) /\ h.stream \in Contexts /\ h = [h EXCEPT !.stream = h.stream]
  BY WorkerInvariants
<1>2. LocksKept(t)
  BY DEF LocksKept, locks
<1>3. /\ m' = m /\ f' = f /\ h' = h /\ p[t].pc = "finish_setup"
      /\ async_lock' = async_lock /\ hwaccel_mutex' = hwaccel_mutex
  BY DEF locks
<1>4. /\ p'[t] = [p[t] EXCEPT !.pc = p[t].after, !.state = "SETUP_FINISHED"]
      /\ \A u \in Workers \ {t} : p'[u] = p[u]
  BY <1>1
<1>5. p'[t] \in PerThread
  BY <1>1, <1>4 DEF PerThread, WorkerLabels, States
<1>6. p' \in [Workers -> PerThread]
  BY <1>1, <1>5
<1>7. WorkerChanges(t)
  BY <1>1, <1>3, <1>4, <1>6 DEF WorkerChanges, ThreadsOK
<1>8. SetupStep(t)
  BY <1>1, <1>3, <1>4, SetupOnStream DEF SetupStep, StateInv, SettingUp, Ready, PerThread, Open, Asking
<1>9. StateInv(t)'
  BY <1>1, <1>3, <1>4 DEF StateInv, PerThread, Ready, SettingUp, SetupInDecode, HasUpdate,
    UnsafeBuffer
<1>10. HwInv(t)'
  BY <1>1, <1>3, <1>4 DEF HwInv, PerThread, HasUpdate, AsyncSafe, NeedsAsync
<1> QED BY <1>2, <1>7, <1>8, <1>9, <1>10, WorkerStepKeeps

(* Rows: the thread waits, or reports one more. *)
LEMMA RowStep ==
  ASSUME FrameInv, NEW t \in Workers, AwaitProgress(t) \/ ReportProgress(t) PROVE FrameInv'
<1> USE DEF AwaitProgress, ReportProgress
<1>1. /\ p[t] \in PerThread /\ p \in [Workers -> PerThread] /\ StateInv(t) /\ HwInv(t)
  BY WorkerInvariants
<1>2. LocksKept(t)
  BY DEF LocksKept, locks
<1>3. /\ m' = m /\ f' = f /\ h' = h /\ p[t].pc = "work"
      /\ async_lock' = async_lock /\ hwaccel_mutex' = hwaccel_mutex
  BY DEF locks
<1>4. /\ p'[t] = p[t] \/ p'[t] = [p[t] EXCEPT !.row = @ + 1]
      /\ \A u \in Workers \ {t} : p'[u] = p[u]
  BY <1>1
<1>5. p'[t] \in PerThread
  BY <1>1, <1>4 DEF PerThread
<1>6. p' \in [Workers -> PerThread]
  BY <1>1, <1>5
<1>7. p'[t].state = p[t].state /\ p'[t].ctx = p[t].ctx /\ p'[t].pc = p[t].pc
  BY <1>1, <1>4 DEF PerThread
<1>8. StateInv(t)' /\ HwInv(t)'
  BY <1>1, <1>3, <1>4 DEF StateInv, PerThread, Ready, SettingUp, SetupInDecode, HasUpdate,
    UnsafeBuffer, HwInv, AsyncSafe
<1>9. ~Ready(t)
  BY <1>1, <1>3 DEF StateInv, Ready
<1> QED BY <1>2, <1>3, <1>4, <1>6, <1>7, <1>8, <1>9, MoveStep

(* From the codec's return to the end of the packet. *)
LEMMA DecodeDoneStep ==
  ASSUME FrameInv, NEW t \in Workers, DecodeDone(t) PROVE FrameInv'
<1> USE DEF DecodeDone
<1>1. /\ p[t] \in PerThread /\ p \in [Workers -> PerThread] /\ StateInv(t) /\ HwInv(t)
  BY WorkerInvariants
<1>2. LocksKept(t)
  BY DEF LocksKept, locks
<1>3. /\ m' = m /\ f' = f /\ h' = h /\ p[t].pc = "decoded"
      /\ async_lock' = async_lock /\ hwaccel_mutex' = hwaccel_mutex
  BY DEF locks
<1> DEFINE l == IF SettingUp(t) THEN "finish_setup" ELSE "unlock"
<1>4. /\ p'[t] = [p[t] EXCEPT !.pc = l, !.after = "unlock"]
      /\ \A u \in Workers \ {t} : p'[u] = p[u]
  BY <1>1
<1>5. p'[t] \in PerThread
  BY <1>1, <1>4 DEF PerThread, WorkerLabels
<1>6. p' \in [Workers -> PerThread]
  BY <1>1, <1>4, <1>5
<1>7. p'[t].state = p[t].state /\ p'[t].ctx = p[t].ctx /\ p'[t].pc # "format"
  BY <1>1, <1>4 DEF PerThread
<1>8. StateInv(t)' /\ HwInv(t)'
  BY <1>1, <1>3, <1>4 DEF StateInv, PerThread, Ready, SettingUp, SetupInDecode, HasUpdate,
    UnsafeBuffer, HwInv, AsyncSafe
<1>9. ~Ready(t)
  BY <1>1, <1>3 DEF StateInv, Ready
<1> QED BY <1>2, <1>3, <1>4, <1>6, <1>7, <1>8, <1>9, MoveStep

LEMMA UnlockStep ==
  ASSUME FrameInv, NEW t \in Workers, Unlock(t) \/ AsyncUnlock(t) PROVE FrameInv'
<1> USE DEF Unlock, AsyncUnlock
<1>1. /\ p[t] \in PerThread /\ p \in [Workers -> PerThread] /\ StateInv(t) /\ HwInv(t)
      /\ t # Main /\ t # None
  BY WorkerInvariants
<1>2. LocksKept(t)
  BY <1>1, Numbers DEF LocksKept, HwInv
<1>3. m' = m /\ f' = f /\ h' = h /\ p[t].pc \in {"unlock", "async_unlock"}
  OBVIOUS
<1>4. \/ /\ p' = [p EXCEPT ![t].pc = "async_unlock"] /\ async_lock' = async_lock
      \/ p' = [p EXCEPT ![t].pc = "publish", ![t].serializing = FALSE]
  BY DEF WorkerTo
<1>5. /\ \/ /\ p'[t] = [p[t] EXCEPT !.pc = "async_unlock"] /\ async_lock' = async_lock
         \/ p'[t] = [p[t] EXCEPT !.pc = "publish", !.serializing = FALSE]
      /\ \A u \in Workers \ {t} : p'[u] = p[u]
  BY <1>1, <1>4
<1>6. p'[t] \in PerThread
  BY <1>1, <1>5 DEF PerThread, WorkerLabels
<1>7. p' \in [Workers -> PerThread]
  BY <1>1, <1>4, <1>6
<1>8. p'[t].state = p[t].state /\ p'[t].ctx = p[t].ctx /\ p'[t].pc # "format"
  BY <1>1, <1>5 DEF PerThread
<1>9. StateInv(t)' /\ HwInv(t)'
  BY <1>1, <1>3, <1>5 DEF StateInv, PerThread, Ready, SettingUp, SetupInDecode, HasUpdate,
    UnsafeBuffer, HwInv, AsyncSafe
<1>10. ~Ready(t)
  BY <1>1, <1>3 DEF StateInv, Ready
<1> QED BY <1>2, <1>3, <1>5, <1>7, <1>8, <1>9, <1>10, MoveStep

LEMMA PublishStep ==
  ASSUME FrameInv, NEW t \in Workers, Publish(t) PROVE FrameInv'
<1> USE DEF Publish
<1>1. /\ p[t] \in PerThread /\ p \in [Workers -> PerThread] /\ StateInv(t) /\ HwInv(t)
      /\ h.stream \in Contexts /\ h = [h EXCEPT !.stream = h.stream]
  BY WorkerInvariants
<1>2. LocksKept(t)
  BY DEF LocksKept, locks
<1>3. /\ m' = m /\ f' = f /\ h' = h /\ p[t].pc = "publish"
      /\ async_lock' = async_lock /\ hwaccel_mutex' = hwaccel_mutex
  BY DEF locks
<1>4. /\ p'[t] = [p[t] EXCEPT !.pc = "input", !.state = "INPUT_READY"]
      /\ \A u \in Workers \ {t} : p'[u] = p[u]
  BY <1>1
<1>5. p'[t] \in PerThread
  BY <1>1, <1>4 DEF PerThread, WorkerLabels, States
<1>6. p' \in [Workers -> PerThread]
  BY <1>1, <1>5
<1>7. WorkerChanges(t)
  BY <1>1, <1>3, <1>4, <1>6 DEF WorkerChanges, ThreadsOK
<1>8. SetupStep(t)
  BY <1>1, <1>3, <1>4 DEF SetupStep, StateInv, Ready, PerThread, Open, Asking
<1>9. StateInv(t)' /\ HwInv(t)'
  BY <1>1, <1>3, <1>4 DEF StateInv, PerThread, Ready, SettingUp, SetupInDecode, HasUpdate,
    UnsafeBuffer, HwInv
<1> QED BY <1>2, <1>7, <1>8, <1>9, WorkerStepKeeps

LEMMA WorkersKeep ==
  ASSUME FrameInv, NEW t \in Workers, WorkerStep(t) PROVE FrameInv'
BY WaitInputStep, StartDecodeStep, DecodedStep, GetFormatStep, GotFormatStep, GetBufferStep,
   AwaitBufferStep, GotBufferStep, FinishSetupLockStep, FinishSetupStep, RowStep, DecodeDoneStep,
   UnlockStep, PublishStep
   DEF WorkerStep
-----------------------------------------------------------------------------
(* The steps of Main.  First, what each part of the invariant needs to be  *)
(* left alone.                                                             *)
LEMMA StateAlone ==
  ASSUME FrameInv, NEW t \in Workers, f'.codec = f.codec,
         p'[t].pc = p[t].pc, p'[t].state = p[t].state, p'[t].after = p[t].after,
         p'[t].die = p[t].die,
         m.pc \in {"kill", "join", "freed"} => m'.pc \in {"kill", "join", "freed"}
  PROVE  StateInv(t)'
BY DEF FrameInv, StateInv, Ready, SettingUp, SetupInDecode, HasUpdate, UnsafeBuffer, UnsafeFormat

LEMMA HwAlone ==
  ASSUME FrameInv, NEW t \in Workers, f'.codec = f.codec, hwaccel_mutex' = hwaccel_mutex,
         async_lock = t => async_lock' = t,
         p'[t].pc = p[t].pc, p'[t].serializing = p[t].serializing,
         p'[t].ctx.hw => HasUpdate, p[t].pc = "work" => p'[t].ctx = p[t].ctx
  PROVE  HwInv(t)'
BY DEF FrameInv, HwInv, HasUpdate, AsyncSafe

LEMMA SetupAlone ==
  ASSUME FrameInv, NEW t \in Workers, f'.codec = f.codec, Latest' = Latest,
         p'[t].state = p[t].state, m.pc = "serve" => m'.pc = "serve",
         m'.pc \in {"copy", "packet"} => m.pc \in {"copy", "packet"} \/ p[t].state \notin Open
  PROVE  SetupInv(t)'
BY DEF FrameInv, SetupInv, UnsafeFormat, UnsafeBuffer

LEMMA ReadyAlone ==
  ASSUME FrameInv, NEW t \in Workers, p'[t].state = p[t].state, p'[t].res = p[t].res,
         h'.pend[t] = h.pend[t],
         m'.pc = "park" => m'.cur = 0 \/ (m.pc = "park" /\ m'.cur = m.cur),
         m'.pc \in AllParked => m.pc \in AllParked \/ (m.pc = "park" /\ m.cur = T)
  PROVE  ReadyInv(t)'
BY Numbers DEF FrameInv, ReadyInv, Ready, Workers

LEMMA StreamAlone ==
  ASSUME FrameInv, f'.codec = f.codec, f'.prev_thread = f.prev_thread,
         f'.next_decoding = f.next_decoding, Latest' = Latest, h'.stream = h.stream,
         \A t \in Workers : p'[t].ctx = p[t].ctx /\ p'[t].pc = p[t].pc,
         m'.pc \in {"await_setup", "copy"} => f.prev_thread # None,
         m'.pc = "packet" => m.pc = "packet" \/ f.prev_thread = None
  PROVE  StreamInv'
<1>1. HasUpdate' = HasUpdate
  BY DEF HasUpdate
<1>2. 0 \in Workers /\ (Latest = None \/ Latest \in Workers \/ m.pc = "collect")
  BY Numbers DEF FrameInv, TypeOK, RingOK, CallInv, Latest, Workers
<1>3. m.pc = "collect" => Latest = None \/ Latest \in Workers
  BY DEF FrameInv, TypeOK, RingOK, Latest
<1>4. m.pc = "packet" => f.next_decoding \in Workers
  BY Numbers DEF FrameInv, TypeOK, RingOK, CallInv, Workers
<1>5. StreamInv
  BY DEF FrameInv
<1>6. f.prev_thread = None /\ m'.pc = "packet" => f.next_decoding = 0
  BY <1>5 DEF StreamInv
<1>7. m'.pc = "packet" => Latest' = f.prev_thread
  BY DEF Latest
<1> QED BY <1>1, <1>2, <1>3, <1>4, <1>5, <1>6, <1>7 DEF StreamInv

LEMMA RingAlone ==
  ASSUME FrameInv, f' = f, h'.pend = h.pend, h'.sub = h.sub, h.draining => h'.draining,
         m.pc \notin {"collect", "serve", "handed"}, m'.pc \notin {"collect", "serve", "handed"},
         AtEnd' <=> AtEnd
  PROVE  RingInv'
<1>1. ASSUME NEW c \in 0 .. T, RingAt(c) PROVE RingAt(c)'
  BY <1>1 DEF RingAt, Asked, New, Dist, Depth, FFV1
<1> QED BY <1>1 DEF FrameInv, RingInv

(* The steps that leave the threads' states and results, and the ring, as  *)
(* they are.                                                               *)
LEMMA MainStepKeeps ==
  ASSUME FrameInv, MainOK', ThreadsOK', HistoryOK', f' = f,
         \A t \in Workers : /\ p'[t].pc = p[t].pc /\ p'[t].state = p[t].state
                            /\ p'[t].after = p[t].after /\ p'[t].die = p[t].die
                            /\ p'[t].ctx = p[t].ctx /\ p'[t].serializing = p[t].serializing
                            /\ p'[t].res = p[t].res,
         hwaccel_mutex' = hwaccel_mutex,
         async_lock' = async_lock \/ async_lock = Main \/ async_lock = None,
         h'.pend = h.pend, h'.sub = h.sub, h'.stream = h.stream, h.draining => h'.draining,
         m.pc \notin {"collect", "serve", "handed"}, m'.pc \notin {"collect", "serve", "handed"},
         AtEnd' <=> AtEnd, CallerInv', CallInv',
         m.pc \in {"kill", "join", "freed"} => m'.pc \in {"kill", "join", "freed"},
         m'.pc = "park" => m'.cur = 0 \/ (m.pc = "park" /\ m'.cur = m.cur),
         m'.pc \in AllParked => m.pc \in AllParked \/ (m.pc = "park" /\ m.cur = T),
         m'.pc \in {"await_setup", "copy"} => f.prev_thread # None,
         m'.pc = "packet" => m.pc = "packet" \/ f.prev_thread = None,
         \A t \in Workers : m'.pc \in {"copy", "packet"} =>
                              m.pc \in {"copy", "packet"} \/ p[t].state \notin Open
  PROVE  FrameInv'
<1>1. TypeOK'
  BY DEF FrameInv, TypeOK, RingOK
<1>2. Latest' = Latest
  BY DEF Latest
<1>3. StreamInv'
  BY <1>2, StreamAlone
<1>4. RingInv'
  BY RingAlone
<1>5. ASSUME NEW t \in Workers PROVE StateInv(t)' /\ ReadyInv(t)'
  BY <1>5, StateAlone, ReadyAlone
<1>6. ASSUME NEW t \in Workers PROVE SetupInv(t)'
  BY <1>2, <1>6, SetupAlone
<1>7. ASSUME NEW t \in Workers PROVE HwInv(t)'
  <2>1. p[t].ctx.hw => HasUpdate
    BY DEF FrameInv, HwInv
  <2>2. t # Main /\ t # None
    BY Numbers
  <2> QED BY <2>1, <2>2, HwAlone
<1> QED BY <1>1, <1>3, <1>4, <1>5, <1>6, <1>7 DEF FrameInv

LEMMA MainInvariants ==
  ASSUME FrameInv
  PROVE  /\ MainOK /\ RingOK /\ ThreadsOK /\ HistoryOK /\ CallerInv /\ CallInv /\ StreamInv
         /\ m = [m EXCEPT !.pc = m.pc]
  BY DEF FrameInv, TypeOK, MainOK

LEMMA DecodeCallStep ==
  ASSUME FrameInv, NEW call \in {"data", "null"}, DecodeCall(call) PROVE FrameInv'
<1> USE DEF DecodeCall
<1>1. MainOK /\ ThreadsOK /\ HistoryOK /\ CallInv /\ RingOK
  BY MainInvariants
<1>2. /\ m.pc = "user" /\ m'.pc \in {"submitted", "lock"} /\ m'.call = call
      /\ m'.pc = "submitted" => call = "null"
      /\ m'.cur = f.next_finished /\ m' = [m EXCEPT !.pc = m'.pc, !.call = call,
                                                    !.cur = f.next_finished, !.out = "none"]
  BY <1>1 DEF MainOK
<1>3. MainOK'
  <2>1. f.next_finished \in Nat
    BY <1>1, Numbers DEF RingOK, Workers
  <2> QED BY <1>1, <1>2, <2>1 DEF MainOK, MainLabels, InCall, Submitting, Results
<1>4. h' = [h EXCEPT !.draining = (call = "null")] /\ (call = "null") \in BOOLEAN
  OBVIOUS
<1>5. /\ HistoryOK' /\ h'.draining = (call = "null") /\ h'.sub = h.sub /\ h'.pend = h.pend
      /\ h'.stream = h.stream /\ h'.eof = h.eof
  BY <1>1, <1>4 DEF HistoryOK
<1>6. CallInv'
  BY <1>1, <1>2, <1>5 DEF CallInv, Submitting, InCall
<1>7. CallerInv'
  BY <1>2 DEF CallerInv
<1>8. AtEnd' <=> AtEnd
  BY <1>2, <1>5 DEF AtEnd
<1>9. h.draining => h'.draining
  BY <1>5
<1> QED BY <1>1, <1>2, <1>3, <1>5, <1>6, <1>7, <1>8, <1>9, MainStepKeeps DEF ThreadsOK, AllParked

LEMMA SubmitLockStep ==
  ASSUME FrameInv, SubmitLock PROVE FrameInv'
<1> USE DEF SubmitLock, MainTo
<1>1. MainOK /\ ThreadsOK /\ HistoryOK /\ CallInv /\ RingOK
  BY MainInvariants
<1>2. /\ m.pc = "lock" /\ m'.cur = m.cur /\ m'.call = m.call
      /\ m'.pc = "release" \/ (m'.pc = "finish" /\ m'.out = "err")
      /\ MainOK'
  BY <1>1 DEF MainOK, MainLabels, InCall, Submitting, Results
<1>3. CallInv' /\ CallerInv'
  BY <1>1, <1>2 DEF CallInv, CallerInv, Submitting, InCall
<1>4. AtEnd' <=> AtEnd
  BY <1>2 DEF AtEnd
<1> QED BY <1>1, <1>2, <1>3, <1>4, MainStepKeeps DEF ThreadsOK, HistoryOK, AllParked

LEMMA SubmitReleaseStep ==
  ASSUME FrameInv, SubmitRelease PROVE FrameInv'
<1> USE DEF SubmitRelease, MainTo, locks
<1>1. MainOK /\ ThreadsOK /\ HistoryOK /\ CallInv /\ RingOK
  BY MainInvariants
<1>2. /\ m.pc = "release" /\ m'.cur = m.cur /\ m'.call = m.call /\ m'.out = m.out
      /\ \/ m'.pc = "release"
         \/ m'.pc = "packet" /\ f.prev_thread = None
         \/ m'.pc = "await_setup" /\ f.prev_thread # None
      /\ MainOK'
  BY <1>1 DEF MainOK, MainLabels, InCall, Submitting
<1>3. CallInv' /\ CallerInv'
  BY <1>1, <1>2 DEF CallInv, CallerInv, Submitting, InCall
<1>4. AtEnd' <=> AtEnd
  BY <1>2 DEF AtEnd
<1> DEFINE d == f.next_decoding
<1>5. d \in Workers
  BY <1>1, <1>2, Numbers DEF RingOK, CallInv, Workers
<1>6. \/ p' = p
      \/ p' = [p EXCEPT ![d].released = @ - 1] /\ p[d].released > 0
  OBVIOUS
<1>7. \A t \in Workers : \/ p'[t] = p[t]
                         \/ p'[t] = [p[t] EXCEPT !.released = @ - 1] /\ p[t].released > 0
  BY <1>1, <1>5, <1>6 DEF ThreadsOK
<1>8. \A t \in Workers : p'[t] \in PerThread
  <2> SUFFICES ASSUME NEW t \in Workers PROVE p'[t] \in PerThread
    OBVIOUS
  <2>1. p[t] \in PerThread
    BY <1>1 DEF ThreadsOK
  <2>2. CASE p'[t] = p[t]
    BY <2>1, <2>2
  <2>3. CASE p'[t] = [p[t] EXCEPT !.released = @ - 1] /\ p[t].released > 0
    <3>1. p[t].released \in Nat /\ p[t].released - 1 \in Nat
      BY <2>1, <2>3 DEF PerThread
    <3> DEFINE n == p[t].released - 1
    <3>2. p'[t] = [p[t] EXCEPT !.released = n] /\ n \in Nat
      BY <2>3, <3>1
    <3> HIDE DEF n
    <3> QED BY <2>1, <3>2 DEF PerThread
  <2> QED BY <1>7, <2>2, <2>3
<1>9. ThreadsOK'
  BY <1>1, <1>6, <1>8 DEF ThreadsOK
<1>10. \A t \in Workers : /\ p'[t].pc = p[t].pc /\ p'[t].state = p[t].state
                          /\ p'[t].after = p[t].after /\ p'[t].die = p[t].die
                          /\ p'[t].ctx = p[t].ctx /\ p'[t].serializing = p[t].serializing
                          /\ p'[t].res = p[t].res
  BY <1>1, <1>7 DEF ThreadsOK, PerThread
<1>11. ASSUME NEW t \in Workers, m'.pc = "packet" PROVE p[t].state \notin Open
  <2>1. SetupInv(t) /\ Latest = f.prev_thread
    BY <1>2 DEF FrameInv, Latest
  <2> QED BY <1>2, <1>11, <2>1, Numbers DEF SetupInv
<1> QED BY <1>1, <1>2, <1>3, <1>4, <1>9, <1>10, <1>11, MainStepKeeps DEF HistoryOK, AllParked

LEMMA SubmitAwaitSetupStep ==
  ASSUME FrameInv, SubmitAwaitSetup PROVE FrameInv'
<1> USE DEF SubmitAwaitSetup, MainTo, locks
<1>1. MainOK /\ ThreadsOK /\ HistoryOK /\ CallInv /\ RingOK /\ StreamInv
  BY MainInvariants
<1>2. /\ m.pc = "await_setup" /\ m'.cur = m.cur /\ m'.call = m.call /\ m'.out = m.out
      /\ \/ m'.pc = "await_setup"
         \/ m'.pc = "copy" /\ ~SettingUp(f.prev_thread)
      /\ MainOK'
  BY <1>1 DEF MainOK, MainLabels, InCall, Submitting
<1>3. CallInv' /\ CallerInv'
  BY <1>1, <1>2 DEF CallInv, CallerInv, Submitting, InCall
<1>4. AtEnd' <=> AtEnd
  BY <1>2 DEF AtEnd
<1>5. f.prev_thread # None
  BY <1>1, <1>2 DEF StreamInv
<1>6. ASSUME NEW t \in Workers, m'.pc = "copy" PROVE p[t].state \notin Open
  <2>1. SetupInv(t) /\ Latest = f.prev_thread
    BY <1>2 DEF FrameInv, Latest
  <2> QED BY <1>2, <1>6, <2>1 DEF SetupInv, SettingUp, Open
<1> QED BY <1>1, <1>2, <1>3, <1>4, <1>5, <1>6, MainStepKeeps DEF HistoryOK, ThreadsOK, AllParked

LEMMA FinishStep ==
  ASSUME FrameInv, Finish PROVE FrameInv'
<1> USE DEF Finish, MainTo
<1>1. MainOK /\ ThreadsOK /\ HistoryOK /\ CallInv /\ RingOK
  BY MainInvariants
<1>2. /\ m.pc = "finish" /\ m'.cur = m.cur /\ m'.call = m.call /\ m'.out = m.out /\ m'.pc = "user"
      /\ MainOK'
  BY <1>1 DEF MainOK, MainLabels
<1>3. (m.call = "null" /\ m.out = "none") \in BOOLEAN
  OBVIOUS
<1>4. /\ HistoryOK' /\ h'.draining = h.draining /\ h'.sub = h.sub /\ h'.pend = h.pend
      /\ h'.stream = h.stream /\ h'.eof = (m.call = "null" /\ m.out = "none")
  BY <1>1, <1>3 DEF HistoryOK
<1>5. CallInv' /\ CallerInv'
  BY <1>1, <1>2, <1>4 DEF CallInv, CallerInv, Submitting, InCall
<1>6. AtEnd' <=> AtEnd
  BY <1>1, <1>2, <1>4 DEF AtEnd, CallInv, InCall
<1> QED BY <1>1, <1>2, <1>4, <1>5, <1>6, MainStepKeeps DEF ThreadsOK, AllParked

LEMMA ParkCallStep ==
  ASSUME FrameInv, NEW call \in {"flush", "free"}, ParkCall(call) PROVE FrameInv'
<1> USE DEF ParkCall
<1>1. MainOK /\ ThreadsOK /\ HistoryOK /\ CallInv /\ RingOK
  BY MainInvariants
<1>2. /\ m.pc = "user" /\ m'.pc = "park" /\ m'.call = call /\ m'.cur = 0 /\ m'.out = "none"
      /\ MainOK'
  BY <1>1 DEF MainOK, MainLabels, Results
<1>3. CallInv' /\ CallerInv'
  BY <1>1, <1>2, Numbers DEF CallInv, CallerInv, Submitting, InCall
<1>4. AtEnd' <=> AtEnd
  BY <1>2 DEF AtEnd
<1> QED BY <1>1, <1>2, <1>3, <1>4, MainStepKeeps DEF ThreadsOK, HistoryOK, AllParked

LEMMA ParkedStep ==
  ASSUME FrameInv, Parked PROVE FrameInv'
<1> USE DEF Parked, MainTo
<1>1. MainOK /\ ThreadsOK /\ HistoryOK /\ CallInv /\ RingOK
  BY MainInvariants
<1>2. /\ m.pc = "park" /\ m'.pc = m.call /\ m'.call = m.call /\ m'.cur = m.cur /\ m'.out = m.out
      /\ m.call \in {"flush", "free"} /\ MainOK' /\ m.cur = T
  BY <1>1 DEF MainOK, MainLabels, AllParked, CallInv
<1>3. CallInv' /\ CallerInv'
  BY <1>1, <1>2 DEF CallInv, CallerInv, Submitting, InCall
<1>4. AtEnd' <=> AtEnd
  BY <1>2 DEF AtEnd
<1> QED BY <1>1, <1>2, <1>3, <1>4, MainStepKeeps DEF ThreadsOK, HistoryOK, AllParked

LEMMA JoinStep ==
  ASSUME FrameInv, Join PROVE FrameInv'
<1> USE DEF Join, locks
<1>1. MainOK /\ ThreadsOK /\ HistoryOK /\ CallInv /\ RingOK
  BY MainInvariants
<1>2. /\ m.pc = "join" /\ m'.pc \in {"freed", "kill"} /\ m'.call = m.call /\ m'.out = m.out
      /\ MainOK'
  <2> DEFINE n == m.cur + 1
             l == IF n = T THEN "freed" ELSE "kill"
  <2>1. n \in Nat
    BY <1>1 DEF MainOK
  <2>2. m' = [m EXCEPT !.cur = n, !.pc = l] /\ l \in {"freed", "kill"}
    OBVIOUS
  <2> HIDE DEF n, l
  <2> QED BY <1>1, <2>1, <2>2 DEF MainOK, MainLabels, AllParked
<1>3. CallInv' /\ CallerInv'
  BY <1>1, <1>2 DEF CallInv, CallerInv, Submitting, InCall
<1>4. AtEnd' <=> AtEnd
  BY <1>2 DEF AtEnd
<1>5. \A t \in Workers : p'[t] = p[t] \/ p'[t] = [p[t] EXCEPT !.released = 0]
  BY <1>1 DEF ThreadsOK
<1>6. \A t \in Workers : p'[t] \in PerThread
  BY <1>1, <1>5 DEF ThreadsOK, PerThread
<1>7. ThreadsOK'
  BY <1>1, <1>6 DEF ThreadsOK
<1>8. \A t \in Workers : /\ p'[t].pc = p[t].pc /\ p'[t].state = p[t].state
                         /\ p'[t].after = p[t].after /\ p'[t].die = p[t].die
                         /\ p'[t].ctx = p[t].ctx /\ p'[t].serializing = p[t].serializing
                         /\ p'[t].res = p[t].res
  BY <1>1, <1>5 DEF ThreadsOK, PerThread
<1> QED BY <1>1, <1>2, <1>3, <1>4, <1>7, <1>8, MainStepKeeps DEF HistoryOK, AllParked

(* Nothing but the threads that wait, or nothing at all. *)
LEMMA QuietStep ==
  ASSUME FrameInv, m' = m, f' = f, p' = p, h' = h, hwaccel_mutex' = hwaccel_mutex,
         async_lock' = async_lock
  PROVE  FrameInv'
<1>1. MainOK' /\ RingOK' /\ ThreadsOK' /\ HistoryOK'
  BY DEF FrameInv, TypeOK, MainOK, RingOK, ThreadsOK, HistoryOK
<1>2. CallerInv' /\ StreamInv' /\ CallInv'
  BY DEF FrameInv, CallerInv, StreamInv, CallInv, HasUpdate, Latest
<1>3. RingInv'
  BY DEF FrameInv, RingInv, AtEnd, RingAt, Asked, New, Dist, Depth, FFV1
<1>4. \A t \in Workers : StateInv(t)' /\ HwInv(t)' /\ ReadyInv(t)' /\ SetupInv(t)'
  BY DEF FrameInv, StateInv, HwInv, ReadyInv, SetupInv, Latest, Ready, SettingUp, SetupInDecode,
    HasUpdate, UnsafeBuffer, UnsafeFormat, AsyncSafe
<1> QED BY <1>1, <1>2, <1>3, <1>4 DEF FrameInv, TypeOK

(* While a packet is being submitted the thread it will go to has nothing  *)
(* to do and holds no result.                                              *)
LEMMA NextIsFree ==
  ASSUME FrameInv, m.pc \in Submitting
  PROVE  /\ f.next_decoding \in Workers
         /\ h.pend[f.next_decoding] = 0 /\ Ready(f.next_decoding)
         /\ p[f.next_decoding].pc = "input"
<1>1. MainOK /\ ThreadsOK /\ HistoryOK /\ CallInv /\ RingOK
  BY MainInvariants
<1>2. ~AtEnd
  BY <1>1 DEF AtEnd, CallInv, InCall, Submitting
<1>3. PICK c \in 0 .. T : RingAt(c)
  BY <1>2 DEF FrameInv, RingInv
<1> DEFINE d == f.next_decoding
<1>4. d \in Workers /\ d \in 0 .. T /\ f.next_finished \in 0 .. T - 1
  BY <1>1, Numbers DEF CallInv, RingOK, Workers, Submitting
<1>5. c < T /\ d \in {f.next_finished + c, f.next_finished + c - T}
  BY <1>3, <1>4, Numbers DEF RingAt, New, Submitting
<1>6. Dist(d) = c
  BY <1>4, <1>5, Numbers DEF Dist
<1>7. h.pend[d] = 0
  BY <1>3, <1>4, <1>6 DEF RingAt
<1>8. Ready(d)
  BY <1>4, <1>7 DEF FrameInv, ReadyInv
<1>9. p[d] \in PerThread /\ StateInv(d)
  BY <1>4, WorkerInvariants
<1>10. p[d].pc = "input"
  BY <1>8, <1>9 DEF Submitting, StateInv, Ready, SettingUp, PerThread, WorkerLabels
<1> QED BY <1>4, <1>7, <1>8, <1>10

(* The context is handed on. *)
LEMMA SubmitCopyStep ==
  ASSUME FrameInv, SubmitCopy PROVE FrameInv'
<1> USE DEF SubmitCopy, MainTo
<1>1. MainOK /\ ThreadsOK /\ HistoryOK /\ CallInv /\ RingOK /\ StreamInv
  BY MainInvariants
<1>2. /\ m.pc = "copy" /\ m'.cur = m.cur /\ m'.call = m.call
      /\ \/ m'.pc = "packet" /\ m'.out = m.out
         \/ m'.pc = "finish" /\ m'.out = "err"
      /\ MainOK' /\ f' = f /\ h' = h
      /\ async_lock' = async_lock /\ hwaccel_mutex' = hwaccel_mutex
  BY <1>1 DEF MainOK, MainLabels, InCall, Submitting, Results
<1>3. CallInv' /\ CallerInv'
  BY <1>1, <1>2 DEF CallInv, CallerInv, Submitting, InCall
<1>4. RingInv'
  <2>1. AtEnd' <=> AtEnd
    BY <1>2 DEF AtEnd
  <2> QED BY <1>2, <2>1, RingAlone
<1> DEFINE d == f.next_decoding
           q == f.prev_thread
           c == p[q].ctx
<1>5. d \in Workers /\ q \in Workers /\ Ready(d) /\ p[d].pc = "input" /\ q # None
  BY <1>1, <1>2, NextIsFree, Numbers DEF RingOK, StreamInv, Submitting
<1>6. c \in Contexts /\ (c.hw => HasUpdate)
  BY <1>1, <1>5 DEF ThreadsOK, PerThread, FrameInv, HwInv
<1>7. p'[d] = [p[d] EXCEPT !.ctx = c] /\ \A t \in Workers \ {d} : p'[t] = p[t]
  BY <1>1, <1>5 DEF ThreadsOK
<1>8. p[d] \in PerThread
  BY <1>1, <1>5 DEF ThreadsOK
<1>9. ThreadsOK'
  <2>1. p'[d] \in PerThread
    BY <1>6, <1>7, <1>8 DEF PerThread
  <2> QED BY <1>1, <1>5, <2>1 DEF ThreadsOK
<1>10. TypeOK'
  BY <1>1, <1>2, <1>9 DEF TypeOK, RingOK, HistoryOK
<1>11. Latest = q /\ Latest' = q
  BY <1>2 DEF Latest
<1>12. ASSUME NEW t \in Workers
       PROVE  /\ p'[t].pc = p[t].pc /\ p'[t].state = p[t].state /\ p'[t].after = p[t].after
              /\ p'[t].die = p[t].die /\ p'[t].serializing = p[t].serializing
              /\ p'[t].res = p[t].res
              /\ p'[t].ctx = IF t = d THEN c ELSE p[t].ctx
  BY <1>7, <1>8, <1>12 DEF PerThread
<1>13. ASSUME NEW t \in Workers PROVE StateInv(t)' /\ ReadyInv(t)'
  BY <1>2, <1>12, <1>13, StateAlone, ReadyAlone DEF AllParked
<1>14. ASSUME NEW t \in Workers PROVE SetupInv(t)'
  BY <1>2, <1>11, <1>12, <1>14, SetupAlone
<1>15. ASSUME NEW t \in Workers PROVE HwInv(t)'
  BY <1>2, <1>5, <1>6, <1>12, <1>15, HwAlone DEF FrameInv, HwInv
<1>16. StreamInv'
  <2>1. HasUpdate' = HasUpdate
    BY <1>2 DEF HasUpdate
  <2>2. p[q].state \notin Open /\ StateInv(q)
    BY <1>2, <1>5 DEF FrameInv, SetupInv
  <2>3. p[q].pc # "format"
    BY <2>2 DEF StateInv, Open, Asking
  <2>4. HasUpdate => c = h.stream
    BY <1>1, <1>5, <1>11, <2>3 DEF StreamInv
  <2>5. p'[q].ctx = c /\ p'[d].ctx = c /\ p'[q].pc # "format"
    BY <1>5, <1>12, <2>3
  <2> HIDE DEF c
  <2> QED BY <1>1, <1>2, <1>5, <1>11, <2>1, <2>4, <2>5 DEF StreamInv
<1> QED BY <1>3, <1>4, <1>10, <1>13, <1>14, <1>15, <1>16 DEF FrameInv

(* The packet is handed over: the thread after the newest one gets the     *)
(* next number.                                                            *)
LEMMA SubmitPacketRing ==
  ASSUME FrameInv, m.pc = "packet", m'.pc \in {"serve", "handed"}, m'.cur = m.cur, f' = f,
         h'.sub = h.sub + 1, h'.pend = [h.pend EXCEPT ![f.next_decoding] = h.sub + 1],
         h'.draining = h.draining, h'.eof = h.eof
  PROVE  RingInv'
<1>1. MainOK /\ ThreadsOK /\ HistoryOK /\ CallInv /\ RingOK
  BY MainInvariants
<1>2. ~AtEnd /\ ~AtEnd'
  BY <1>1 DEF AtEnd, CallInv, InCall, Submitting
<1>3. PICK c \in 0 .. T : RingAt(c)
  BY <1>2 DEF FrameInv, RingInv
<1> DEFINE d == f.next_decoding
<1>4. d \in Workers /\ d \in 0 .. T - 1 /\ f.next_finished \in 0 .. T - 1 /\ h.sub \in Nat
      /\ h.pend \in [Workers -> Nat] /\ FFV1' = FFV1 /\ FFV1 \in {0, 1}
  BY <1>1, Numbers, CodecFacts DEF CallInv, RingOK, Workers, Submitting, HistoryOK, FFV1, FrameInv
<1>5. /\ c < T /\ d \in {f.next_finished + c, f.next_finished + c - T} /\ c <= h.sub
      /\ f.delaying => d = f.next_finished + c /\ d < Depth
      /\ f.delaying /\ ~h.draining => f.next_finished = 0
      /\ ~h.draining => IF f.delaying THEN c < Depth ELSE c = Depth - 1
  BY <1>3, <1>4, Numbers DEF RingAt, New, Submitting
<1>6. \A t \in Workers : Dist(t) \in 0 .. T - 1 /\ Dist(t)' = Dist(t) /\ (Dist(t) = c => t = d)
  <2> SUFFICES ASSUME NEW t \in Workers
               PROVE  Dist(t) \in 0 .. T - 1 /\ Dist(t)' = Dist(t) /\ (Dist(t) = c => t = d)
    OBVIOUS
  <2>1. t \in 0 .. T - 1
    BY DEF Workers
  <2>2. Dist(t)' = Dist(t) /\ Dist(t) \in 0 .. T - 1
    BY <1>4, <2>1, Numbers DEF Dist
  <2>3. ASSUME Dist(t) = c PROVE t = d
    <3>1. CASE t >= f.next_finished
      BY <1>4, <1>5, <2>1, <2>3, <3>1, Numbers DEF Dist
    <3>2. CASE t < f.next_finished
      BY <1>4, <1>5, <2>1, <2>3, <3>2, Numbers DEF Dist
    <3> QED BY <1>4, <2>1, <3>1, <3>2
  <2> QED BY <2>2, <2>3
<1>7. Dist(d) = c /\ Asked = 0 /\ Asked' = 0 /\ New' = 1 /\ Depth' = Depth
  BY <1>4, <1>5, Numbers DEF Dist, Asked, New, Depth
<1>8. \A t \in Workers :
        h.pend[t] = IF Dist(t) < c THEN h.sub - c + Dist(t) + 1 ELSE 0
  BY <1>3, <1>6, <1>7 DEF RingAt
<1>9. ASSUME NEW t \in Workers
      PROVE h'.pend[t] = IF Dist(t)' < c + 1 THEN h'.sub - (c + 1) + Dist(t)' + 1 ELSE 0
  <2>1. CASE t = d
    BY <1>4, <1>6, <1>7, <2>1
  <2>2. CASE t # d
    <3>1. h'.pend[t] = h.pend[t] /\ Dist(t) # c /\ Dist(t)' = Dist(t) /\ Dist(t) \in 0 .. T - 1
      BY <1>4, <1>6, <2>2
    <3>2. h.pend[t] = IF Dist(t) < c THEN h.sub - c + Dist(t) + 1 ELSE 0
      BY <1>8
    <3> QED BY <1>4, <3>1, <3>2
  <2> QED BY <2>1, <2>2
<1>10. RingAt(c + 1)'
  <2>1. \A t \in Workers : Asked' <= Dist(t)'
    BY <1>6, <1>7
  <2>2. c + 1 <= h'.sub /\ d + 1 \in {f.next_finished + (c + 1), f.next_finished + (c + 1) - T}
    BY <1>4, <1>5, Numbers
  <2>3. c + 1 - New' = c
    BY <1>7
  <2>4. f.delaying => d + 1 = f.next_finished + (c + 1)
    BY <1>4, <1>5
  <2> QED BY <1>5, <1>7, <1>9, <2>1, <2>2, <2>3, <2>4 DEF RingAt
<1>11. c + 1 \in 0 .. T
  BY <1>5, Numbers
<1> QED BY <1>2, <1>10, <1>11 DEF RingInv

LEMMA SubmitPacketStep ==
  ASSUME FrameInv, SubmitPacket PROVE FrameInv'
<1> USE DEF SubmitPacket, MainTo
<1>1. MainOK /\ ThreadsOK /\ HistoryOK /\ CallInv /\ RingOK /\ StreamInv
  BY MainInvariants
<1>2. m.pc = "packet" /\ f' = f /\ async_lock' = async_lock /\ hwaccel_mutex' = hwaccel_mutex
  OBVIOUS
<1> DEFINE d == f.next_decoding
           k == h.sub + 1
<1>3. d \in Workers /\ Ready(d) /\ p[d].pc = "input" /\ h.pend[d] = 0
  BY <1>2, NextIsFree DEF Submitting
<1>4. CASE m' = [m EXCEPT !.pc = "finish", !.out = "err"] /\ UNCHANGED <<p, inputWait, h>>
  <2>1. /\ m'.pc = "finish" /\ m'.cur = m.cur /\ m'.call = m.call /\ m'.out = "err"
        /\ MainOK' /\ p' = p /\ h' = h
    BY <1>1, <1>4 DEF MainOK, MainLabels, InCall, Results
  <2>2. CallInv' /\ CallerInv'
    BY <1>1, <1>2, <2>1 DEF CallInv, CallerInv, Submitting, InCall
  <2>3. AtEnd' <=> AtEnd
    BY <1>2, <2>1 DEF AtEnd
  <2> QED BY <1>1, <1>2, <2>1, <2>2, <2>3, MainStepKeeps DEF ThreadsOK, HistoryOK, AllParked
<1>5. CASE /\ p' = [p EXCEPT ![d].state = "SETTING_UP", ![d].pkt = k]
           /\ h' = [h EXCEPT !.sub = k, !.pend[d] = k,
                             !.nulls = IF m.call = "null" THEN @ \cup {k} ELSE @]
           /\ MainTo(IF UnsafeFormat \/ UnsafeBuffer THEN "serve" ELSE "handed")
  <2>1. /\ m'.pc = IF UnsafeFormat \/ UnsafeBuffer THEN "serve" ELSE "handed"
        /\ m'.cur = m.cur /\ m'.call = m.call /\ m'.out = m.out
    BY <1>1, <1>5 DEF MainOK
  <2>2. MainOK'
    BY <1>1, <1>5 DEF MainOK, MainLabels, InCall
  <2>3. h.sub \in 0 .. MaxSub /\ h.sub < MaxSub /\ k \in 0 .. MaxSub /\ k \in Nat
    BY <1>1, <1>2, Numbers DEF HistoryOK, CallInv, Submitting
  <2>4. h'.sub = k /\ h'.draining = h.draining /\ h'.eof = h.eof /\ h'.stream = h.stream
        /\ h'.pend = [h.pend EXCEPT ![d] = k]
    BY <1>1, <1>5 DEF HistoryOK
  <2>5. HistoryOK'
    <3> DEFINE g == [h.pend EXCEPT ![d] = k]
               n == IF m.call = "null" THEN h.nulls \cup {k} ELSE h.nulls
    <3>1. g \in [Workers -> Nat] /\ n \in SUBSET Nat
      BY <1>1, <1>3, <2>3 DEF HistoryOK
    <3>2. h' = [h EXCEPT !.sub = k, !.pend = g, !.nulls = n]
      BY <1>1, <1>5 DEF HistoryOK
    <3> HIDE DEF g, n, k
    <3> QED BY <1>1, <2>3, <3>1, <3>2 DEF HistoryOK
  <2>6. RingInv'
    BY <1>2, <2>1, <2>4, SubmitPacketRing
  <2>7. CallInv' /\ CallerInv'
    BY <1>1, <1>2, <2>1, <2>4, Numbers DEF CallInv, CallerInv, Submitting, InCall
  <2>8. p'[d] = [p[d] EXCEPT !.state = "SETTING_UP", !.pkt = k] /\ \A t \in Workers \ {d} : p'[t] = p[t]
    BY <1>1, <1>3, <1>5 DEF ThreadsOK
  <2>9. p[d] \in PerThread
    BY <1>1, <1>3 DEF ThreadsOK
  <2>10. ThreadsOK'
    <3>1. p'[d] \in PerThread
      BY <2>3, <2>8, <2>9 DEF PerThread, States, Open
    <3> QED BY <1>1, <1>3, <1>5, <3>1 DEF ThreadsOK
  <2>11. TypeOK'
    BY <1>1, <1>2, <2>2, <2>5, <2>10 DEF TypeOK, RingOK
  <2>12. ASSUME NEW t \in Workers
         PROVE  /\ p'[t].pc = p[t].pc /\ p'[t].after = p[t].after /\ p'[t].die = p[t].die
                /\ p'[t].serializing = p[t].serializing /\ p'[t].ctx = p[t].ctx
                /\ p'[t].res = p[t].res
                /\ p'[t].state = IF t = d THEN "SETTING_UP" ELSE p[t].state
                /\ h'.pend[t] = IF t = d THEN k ELSE h.pend[t]
    <3>1. CASE t = d
      BY <1>1, <1>3, <2>4, <2>8, <2>9, <3>1 DEF PerThread, HistoryOK
    <3>2. CASE t # d
      BY <1>1, <1>3, <2>4, <2>8, <2>12, <3>2 DEF HistoryOK
    <3> QED BY <3>1, <3>2
  <2>13. Latest' = d /\ \A t \in Workers : p[t].state \notin Open
    BY <1>2, <2>1 DEF Latest, FrameInv, SetupInv
  <2>14. ASSUME NEW t \in Workers PROVE StateInv(t)'
    <3>1. CASE t # d
      BY <1>2, <2>12, <2>14, <3>1, StateAlone
    <3>2. CASE t = d
      <4>1. StateInv(d)
        BY <1>3 DEF FrameInv
      <4>2. ~p[d].die
        BY <1>2, <4>1 DEF StateInv
      <4> QED BY <1>2, <1>3, <2>12, <3>2, <4>1, <4>2 DEF StateInv
    <3> QED BY <3>1, <3>2
  <2>15. ASSUME NEW t \in Workers PROVE ReadyInv(t)'
    BY <2>1, <2>3, <2>12, <2>15 DEF FrameInv, ReadyInv, Ready, AllParked
  <2>16. ASSUME NEW t \in Workers PROVE SetupInv(t)'
    BY <1>2, <2>1, <2>12, <2>13, <2>16 DEF SetupInv, UnsafeFormat, UnsafeBuffer, Asking, Open
  <2>17. ASSUME NEW t \in Workers PROVE HwInv(t)'
    BY <1>2, <2>12, <2>17, HwAlone DEF FrameInv, HwInv
  <2>18. StreamInv'
    <3>1. HasUpdate' = HasUpdate
      BY <1>2 DEF HasUpdate
    <3>2. HasUpdate => p'[d].ctx = h'.stream
      BY <1>1, <1>2, <1>3, <2>4, <2>12 DEF StreamInv
    <3>3. p'[d].pc # "format" /\ d # None
      BY <1>3, <2>12, Numbers
    <3> QED BY <1>1, <1>2, <2>1, <2>13, <3>1, <3>2, <3>3 DEF StreamInv
  <2> QED BY <2>6, <2>7, <2>11, <2>14, <2>15, <2>16, <2>17, <2>18 DEF FrameInv
<1> QED BY <1>4, <1>5

(* Main runs the callbacks of the newest packet's thread, or goes on when  *)
(* its setup is over.                                                      *)
LEMMA SubmitServeStep ==
  ASSUME FrameInv, SubmitServe PROVE FrameInv'
<1> USE DEF SubmitServe, MainTo, locks
<1>1. MainOK /\ ThreadsOK /\ HistoryOK /\ CallInv /\ RingOK /\ StreamInv
  BY MainInvariants
<1>2. /\ m.pc = "serve" /\ f' = f /\ h' = h
      /\ async_lock' = async_lock /\ hwaccel_mutex' = hwaccel_mutex
  OBVIOUS
<1> DEFINE d == f.next_decoding
<1>3. d \in Workers /\ d # None /\ Latest = d /\ HasUpdate' = HasUpdate
  BY <1>1, <1>2, Numbers DEF RingOK, CallInv, Workers, Latest, HasUpdate
<1>4. p[d] \in PerThread /\ p \in [Workers -> PerThread] /\ StateInv(d) /\ HwInv(d) /\ ReadyInv(d)
  BY <1>3, WorkerInvariants
<1>5. ASSUME m'.pc \in {"serve", "handed"}, m'.cur = m.cur, m'.call = m.call, m'.out = m.out, MainOK'
      PROVE  RingInv' /\ CallInv' /\ CallerInv' /\ Latest' = d
  <2>1. CallInv' /\ CallerInv' /\ Latest' = d
    BY <1>1, <1>2, <1>5 DEF CallInv, CallerInv, InCall, Submitting, Latest
  <2>2. AtEnd' <=> AtEnd
    BY <1>2, <1>5 DEF AtEnd
  <2>3. ASSUME NEW c \in 0 .. T, RingAt(c) PROVE RingAt(c)'
    BY <1>2, <1>5, <2>3 DEF RingAt, Asked, New, Dist, Depth, FFV1
  <2> QED BY <2>1, <2>2, <2>3 DEF FrameInv, RingInv
<1>6. CASE m' = m /\ p' = p
  BY <1>2, <1>6, QuietStep
<1>7. CASE /\ p[d].state \in {"SETUP_FINISHED", "INPUT_READY"} /\ m' = [m EXCEPT !.pc = "handed"]
           /\ p' = p
  <2>1. m'.pc = "handed" /\ m'.cur = m.cur /\ m'.call = m.call /\ m'.out = m.out /\ MainOK'
    BY <1>1, <1>7 DEF MainOK, MainLabels, InCall
  <2>2. RingInv' /\ CallInv' /\ CallerInv' /\ Latest' = d
    BY <1>5, <2>1
  <2>3. TypeOK'
    BY <1>1, <1>2, <1>7, <2>1 DEF TypeOK, RingOK, ThreadsOK, HistoryOK
  <2>4. ASSUME NEW t \in Workers PROVE StateInv(t)' /\ ReadyInv(t)' /\ HwInv(t)'
    <3>1. p[t].ctx.hw => HasUpdate
      BY DEF FrameInv, HwInv
    <3> QED BY <1>2, <1>7, <2>1, <2>4, <3>1, StateAlone, ReadyAlone, HwAlone DEF AllParked
  <2>5. ASSUME NEW t \in Workers PROVE SetupInv(t)'
    BY <1>3, <1>7, <2>5 DEF FrameInv, SetupInv, Open, Asking
  <2>6. StreamInv'
    BY <1>2, <1>3, <1>7, <2>1, <2>2, StreamAlone
  <2> QED BY <2>2, <2>3, <2>4, <2>5, <2>6 DEF FrameInv
<1>8. ASSUME p[d].state = "GET_BUFFER", m' = m, NEW r \in {"none", "err"},
             p' = [p EXCEPT ![d].state = "SETTING_UP", ![d].res = r]
      PROVE  FrameInv'
  <2>1. p'[d] = [p[d] EXCEPT !.state = "SETTING_UP", !.res = r] /\ \A t \in Workers \ {d} : p'[t] = p[t]
    BY <1>3, <1>4, <1>8
  <2>2. p'[d] \in PerThread
    BY <1>4, <2>1 DEF PerThread, States, Open, Results
  <2>3. WorkerChanges(d)
    BY <1>1, <1>2, <1>4, <1>8, <2>1, <2>2 DEF WorkerChanges, ThreadsOK, HistoryOK
  <2>4. LocksKept(d)
    BY <1>2 DEF LocksKept
  <2>5. SetupStep(d)
    BY <1>2, <1>3, <1>4, <1>8, <2>1, SetupOnStream DEF SetupStep, PerThread, Open, Asking, Ready
  <2>6. StateInv(d)'
    <3>1. p[d].pc = "buffer"
      BY <1>4, <1>8 DEF StateInv, PerThread, WorkerLabels, Ready, SettingUp
    <3>2. /\ p'[d].pc = "buffer" /\ p'[d].state = "SETTING_UP" /\ p'[d].die = p[d].die
          /\ UnsafeBuffer' = UnsafeBuffer /\ d' = d
      BY <1>2, <1>4, <2>1, <3>1 DEF PerThread, UnsafeBuffer
    <3> HIDE DEF d
    <3> QED BY <1>2, <1>4, <1>8, <3>1, <3>2 DEF StateInv, Ready
  <2>7. HwInv(d)'
    BY <1>2, <1>4, <2>1 DEF HwInv, PerThread, HasUpdate, AsyncSafe
  <2> QED BY <1>3, <2>3, <2>4, <2>5, <2>6, <2>7, WorkerStepKeeps
<1>9. ASSUME p[d].state = "GET_FORMAT", m' = m, NEW hw \in HwChoices,
             p' = [p EXCEPT ![d].state = "SETTING_UP", ![d].ctx.hw = hw]
      PROVE  FrameInv'
  <2> DEFINE c == [p[d].ctx EXCEPT !.hw = hw]
  <2>1. hw \in BOOLEAN
    BY CodecFacts DEF FrameInv
  <2>2. c \in Contexts /\ c.last = p[d].ctx.last
    BY <1>4, <2>1 DEF PerThread, Contexts
  <2>3. p'[d] = [p[d] EXCEPT !.state = "SETTING_UP", !.ctx = c] /\ \A t \in Workers \ {d} : p'[t] = p[t]
    BY <1>3, <1>4, <1>9 DEF PerThread, Contexts
  <2> HIDE DEF c
  <2>4. p'[d] \in PerThread
    BY <1>4, <2>2, <2>3 DEF PerThread, States, Open
  <2>5. WorkerChanges(d)
    BY <1>1, <1>2, <1>4, <1>9, <2>3, <2>4 DEF WorkerChanges, ThreadsOK, HistoryOK
  <2>6. LocksKept(d)
    BY <1>2 DEF LocksKept
  <2>7. p[d].pc = "format"
    BY <1>4, <1>9 DEF StateInv, PerThread, WorkerLabels, Ready, SettingUp
  <2>8. SetupStep(d)
    BY <1>2, <1>3, <1>4, <1>9, <2>2, <2>3, <2>7, SetupOnStream DEF SetupStep, PerThread, Open, Asking, Ready
  <2>9. StateInv(d)'
    <3>1. /\ p'[d].pc = "format" /\ p'[d].state = "SETTING_UP" /\ p'[d].die = p[d].die
          /\ UnsafeFormat' = UnsafeFormat /\ d' = d
      BY <1>2, <1>4, <2>3, <2>7 DEF PerThread, UnsafeFormat
    <3> HIDE DEF d
    <3> QED BY <1>2, <1>3, <1>4, <1>9, <2>7, <3>1 DEF StateInv, Ready
  <2>10. HwInv(d)'
    BY <1>2, <1>3, <1>4, <2>3, <2>7 DEF HwInv, PerThread, StateInv, AsyncSafe
  <2> QED BY <1>3, <2>5, <2>6, <2>8, <2>9, <2>10, WorkerStepKeeps
<1>10. \/ m' = m /\ p' = p
       \/ /\ p[d].state \in {"SETUP_FINISHED", "INPUT_READY"} /\ m' = [m EXCEPT !.pc = "handed"]
          /\ p' = p
       \/ /\ p[d].state = "GET_BUFFER" /\ m' = m
          /\ \E r \in {"none", "err"} : p' = [p EXCEPT ![d].state = "SETTING_UP", ![d].res = r]
       \/ /\ p[d].state = "GET_FORMAT" /\ m' = m
          /\ \E hw \in HwChoices : p' = [p EXCEPT ![d].state = "SETTING_UP", ![d].ctx.hw = hw]
  OBVIOUS
<1> QED BY <1>6, <1>7, <1>8, <1>9, <1>10

(* The newest packet is counted, and Main collects a result if the ring is *)
(* full or it is draining.                                                 *)
LEMMA SubmittedRing ==
  ASSUME FrameInv, Submitted PROVE RingInv' /\ f'.next_decoding \in 0 .. T
<1> USE DEF Submitted, MainTo
<1>1. MainOK /\ HistoryOK /\ CallInv /\ RingOK
  BY MainInvariants
<1> DEFINE handed == m.pc = "handed"
           nd == IF handed THEN f.next_decoding + 1 ELSE f.next_decoding
           delaying == f.delaying /\ ~(nd > T - 1 - FFV1)
<1>2. /\ m.pc \in {"handed", "submitted"} /\ h' = h
      /\ m'.pc = IF delaying /\ m.call = "data" THEN "finish" ELSE "collect"
      /\ m'.call = m.call /\ m'.cur = m.cur /\ m'.out = m.out
      /\ f'.next_decoding = nd /\ f'.next_finished = f.next_finished /\ f'.delaying = delaying
      /\ f'.codec = f.codec
  BY <1>1 DEF MainOK, RingOK
<1>3. /\ ~AtEnd /\ m.cur = f.next_finished /\ m.call \in {"data", "null"}
      /\ h.draining <=> m.call = "null"
  BY <1>1, <1>2 DEF AtEnd, CallInv, InCall, Submitting
<1>4. ~AtEnd'
  BY <1>2, <1>3 DEF AtEnd
<1>5. PICK c \in 0 .. T : RingAt(c)
  BY <1>3 DEF FrameInv, RingInv
<1>6. /\ f.next_decoding \in 0 .. T - 1 /\ f.next_finished \in 0 .. T - 1 /\ h.sub \in Nat
      /\ FFV1 \in {0, 1} /\ FFV1' = FFV1 /\ Depth' = Depth
  BY <1>1, <1>2, Numbers, CodecFacts DEF CallInv, RingOK, Workers, HistoryOK, FFV1, Depth, FrameInv
<1>7. /\ nd = f.next_decoding + New /\ New \in {0, 1} /\ New' = 0 /\ nd \in 0 .. T
  BY <1>2, <1>6, Numbers DEF New
<1>8. \A t \in Workers : Dist(t)' = Dist(t)
  BY <1>2 DEF Dist
<1>9. Asked = 0 /\ Asked' = 0
  BY <1>2, <1>3, <1>6, Numbers DEF Asked, Dist
<1> HIDE DEF delaying, nd, handed
<1>10. /\ c <= h.sub /\ nd \in {f.next_finished + c, f.next_finished + c - T}
       /\ delaying => nd = f.next_finished + c /\ nd < Depth
       /\ delaying /\ ~h.draining => f.next_finished = 0
  BY <1>5, <1>7, <1>6, Numbers DEF RingAt, delaying, Depth
<1>11. \A t \in Workers :
         h.pend[t] = IF Asked' <= Dist(t)' /\ Dist(t)' < c THEN h.sub - c + Dist(t)' + 1 ELSE 0
  BY <1>5, <1>8, <1>9 DEF RingAt
<1>12. c - New < T /\ (~h.draining => IF f.delaying THEN c - New < Depth ELSE c - New = Depth - 1)
  BY <1>2, <1>5 DEF RingAt
<1>13. ASSUME ~h.draining
       PROVE  IF delaying THEN c < Depth ELSE c = Depth
  <2>1. m.pc = "handed" /\ New = 1
    BY <1>1, <1>2, <1>3, <1>13 DEF CallInv, New
  <2>2. CASE f.delaying
    <3>1. f.next_finished = 0 /\ nd = c
      BY <1>5, <1>6, <1>7, <1>13, <2>2, Numbers DEF RingAt
    <3> QED BY <1>6, <1>12, <1>13, <2>1, <2>2, <3>1, Numbers DEF delaying, Depth
  <2>3. CASE ~f.delaying
    BY <1>6, <1>12, <1>13, <2>1, <2>3, Numbers DEF delaying, Depth
  <2> QED BY <2>2, <2>3
<1>14. IF m'.pc = "collect" THEN ~h.draining => c = Depth /\ Asked' = 0 /\ ~delaying
       ELSE c < T /\ ~h.draining /\ delaying /\ c < Depth
  BY <1>2, <1>3, <1>6, <1>9, <1>13, Numbers DEF Depth
<1>15. RingAt(c)'
  BY <1>2, <1>6, <1>7, <1>10, <1>11, <1>14, Numbers DEF RingAt
<1> QED BY <1>2, <1>4, <1>7, <1>15 DEF RingInv

LEMMA SubmittedStep ==
  ASSUME FrameInv, Submitted PROVE FrameInv'
<1> USE DEF Submitted, MainTo, locks
<1>1. MainOK /\ ThreadsOK /\ HistoryOK /\ CallInv /\ RingOK /\ StreamInv
  BY MainInvariants
<1> DEFINE handed == m.pc = "handed"
           nd == IF handed THEN f.next_decoding + 1 ELSE f.next_decoding
           q == IF handed THEN f.next_decoding ELSE f.prev_thread
           delaying == f.delaying /\ ~(nd > T - 1 - FFV1)
<1>2. /\ m.pc \in {"handed", "submitted"} /\ h' = h /\ p' = p
      /\ m'.pc = IF delaying /\ m.call = "data" THEN "finish" ELSE "collect"
      /\ m'.call = m.call /\ m'.cur = m.cur /\ m'.out = m.out
      /\ async_lock' = async_lock /\ hwaccel_mutex' = hwaccel_mutex
      /\ MainOK'
  BY <1>1 DEF MainOK, MainLabels, InCall
<1>3. RingInv' /\ f'.next_decoding \in 0 .. T
  BY SubmittedRing
<1>4. /\ f'.next_decoding = nd /\ f'.next_finished = f.next_finished /\ f'.delaying = delaying
      /\ f'.codec = f.codec /\ f'.prev_thread = q
      /\ f' = [f EXCEPT !.next_decoding = nd, !.delaying = delaying, !.prev_thread = q]
  BY <1>1 DEF RingOK
<1>5. f.next_decoding \in Workers /\ q = Latest /\ f.next_finished \in Workers
      /\ f.next_finished < T /\ f.next_decoding < T
  BY <1>1, <1>2, Numbers DEF RingOK, CallInv, Workers, Latest
<1>6. RingOK'
  <2>1. delaying \in BOOLEAN /\ nd \in 0 .. T /\ q \in Workers \cup {None}
    BY <1>1, <1>3, <1>4, <1>5 DEF RingOK
  <2> HIDE DEF delaying, nd, q
  <2> QED BY <1>1, <1>4, <2>1 DEF RingOK
<1>7. TypeOK'
  BY <1>1, <1>2, <1>6 DEF TypeOK, ThreadsOK, HistoryOK
<1>8. CallInv' /\ CallerInv'
  <2>1. m'.pc = "finish" => nd < T
    BY <1>1, <1>2, Numbers, CodecFacts DEF FrameInv, RingOK
  <2> HIDE DEF delaying, nd
  <2> QED BY <1>1, <1>2, <1>4, <1>5, <2>1 DEF CallInv, CallerInv, Submitting, InCall
<1>9. Latest' = Latest
  BY <1>2, <1>4, <1>5 DEF Latest
<1>10. ASSUME NEW t \in Workers PROVE StateInv(t)' /\ ReadyInv(t)' /\ HwInv(t)' /\ SetupInv(t)'
  <2>1. p[t].ctx.hw => HasUpdate
    BY DEF FrameInv, HwInv
  <2> HIDE DEF delaying, nd, q
  <2> QED BY <1>2, <1>4, <1>9, <1>10, <2>1, StateAlone, ReadyAlone, HwAlone, SetupAlone DEF AllParked
<1>11. StreamInv'
  <2>1. HasUpdate' = HasUpdate
    BY <1>4 DEF HasUpdate
  <2>2. q = None => nd = 0
    BY <1>1, <1>2, <1>5, Numbers DEF StreamInv, Latest
  <2> HIDE DEF delaying, nd, q
  <2> QED BY <1>1, <1>2, <1>4, <1>9, <2>1, <2>2 DEF StreamInv
<1> QED BY <1>3, <1>7, <1>8, <1>10, <1>11 DEF FrameInv

-----------------------------------------------------------------------------
(* Collecting: after the last thread of the ring has been asked nobody     *)
(* holds a result.                                                         *)
LEMMA CollectRing ==
  ASSUME FrameInv, Collect, Ready(m.cur) PROVE RingInv'
<1> USE DEF Collect
<1>1. MainOK /\ ThreadsOK /\ HistoryOK /\ CallInv /\ RingOK
  BY MainInvariants
<1> DEFINE w == m.cur
           next == (m.cur + 1) % T
           again == m.call = "null" /\ p[w].res = "none" /\ next # f.next_finished
<1>2. /\ ~AtEnd /\ m.pc = "collect" /\ m.call \in {"data", "null"}
      /\ h.draining <=> m.call = "null"
  BY <1>1 DEF AtEnd, CallInv, InCall
<1>3. /\ f.next_decoding \in 0 .. T /\ f.next_finished \in 0 .. T - 1 /\ h.sub \in Nat
      /\ FFV1 \in {0, 1} /\ w \in 0 .. T - 1 /\ w \in Workers
  BY <1>1, <1>2, Numbers, CodecFacts DEF CallInv, RingOK, MainOK, Workers, HistoryOK, FrameInv
<1>4. next = IF w = T - 1 THEN 0 ELSE w + 1
  BY <1>3, Numbers
<1>5. next \in 0 .. T - 1
  BY <1>3, <1>4, Numbers
<1> HIDE DEF next
<1>6. /\ m'.pc = (IF again THEN "collect" ELSE "finish") /\ m'.cur = next /\ m'.call = m.call
      /\ m'.out = p[w].res
      /\ h'.sub = h.sub /\ h'.draining = h.draining /\ h'.eof = h.eof
      /\ h'.pend = [h.pend EXCEPT ![w] = 0]
  BY <1>1, <1>2 DEF MainOK, HistoryOK, next
<1>7. /\ f'.codec = f.codec /\ f'.delaying = f.delaying
      /\ again => f' = f
      /\ ~again => /\ f'.next_finished = next
                   /\ f'.next_decoding = IF f.next_decoding >= T THEN 0 ELSE f.next_decoding
  BY <1>1, <1>2 DEF RingOK, next
<1>8. FFV1' = FFV1 /\ Depth' = Depth /\ AtEnd' = (~again /\ m.call = "null" /\ p[w].res = "none")
  BY <1>2, <1>6, <1>7 DEF AtEnd, Depth, FFV1
<1>9. PICK c \in 0 .. T : RingAt(c)
  BY <1>2 DEF FrameInv, RingInv
<1> DEFINE a == Dist(w)
<1>10. /\ a \in 0 .. T - 1 /\ Asked = a /\ c <= h.sub
       /\ f.next_decoding \in {f.next_finished + c, f.next_finished + c - T}
       /\ f.delaying => f.next_decoding = f.next_finished + c /\ f.next_decoding < Depth
       /\ ~h.draining => c = Depth /\ a = 0 /\ ~f.delaying
  BY <1>2, <1>3, <1>9, Numbers DEF RingAt, Asked, New, Dist
<1>11. \A t \in Workers : h.pend[t] = IF a <= Dist(t) /\ Dist(t) < c THEN h.sub - c + Dist(t) + 1 ELSE 0
  BY <1>9, <1>10 DEF RingAt
<1>12. ASSUME NEW t \in Workers
       PROVE  /\ Dist(t) \in 0 .. T - 1 /\ (Dist(t) = a => t = w)
              /\ h'.pend[t] = IF a + 1 <= Dist(t) /\ Dist(t) < c THEN h.sub - c + Dist(t) + 1 ELSE 0
  <2>1. t \in 0 .. T - 1
    BY DEF Workers
  <2>2. Dist(t) \in 0 .. T - 1 /\ (Dist(t) = a => t = w)
    BY <1>3, <2>1, Numbers DEF Dist
  <2>3. h'.pend[t] = IF t = w THEN 0 ELSE h.pend[t]
    BY <1>1, <1>3, <1>6 DEF HistoryOK
  <2>4. h.pend[t] = IF a <= Dist(t) /\ Dist(t) < c THEN h.sub - c + Dist(t) + 1 ELSE 0
    BY <1>11
  <2> QED BY <1>10, <2>2, <2>3, <2>4
<1> HIDE DEF a, again
<1>13. CASE again
  <2>1. f' = f /\ m'.pc = "collect" /\ m'.cur = next /\ next # f.next_finished /\ h.draining
    BY <1>2, <1>6, <1>7, <1>13 DEF again
  <2>2. Asked' = a + 1 /\ New' = 0 /\ \A t \in Workers : Dist(t)' = Dist(t)
    BY <1>3, <1>4, <2>1, Numbers DEF Asked, New, Dist, a
  <2>3. ~AtEnd'
    BY <1>8, <1>13
  <2>4. RingAt(c)'
    BY <1>3, <1>6, <1>8, <1>10, <1>12, <2>1, <2>2, Numbers DEF RingAt
  <2> QED BY <2>3, <2>4 DEF RingInv
<1>14. CASE ~again /\ m.call = "null" /\ p[w].res = "none"
  <2>1. next = f.next_finished
    BY <1>14 DEF again
  <2>2. a = T - 1
    BY <1>3, <1>4, <2>1, Numbers DEF Dist, a
  <2>3. \A t \in Workers : h'.pend[t] = 0
    BY <1>12, <2>2, Numbers
  <2> QED BY <1>8, <1>14, <2>3 DEF RingInv
<1>15. CASE ~again /\ ~(m.call = "null" /\ p[w].res = "none")
  <2>1. a < c
    <3>1. CASE m.call = "data"
      BY <1>2, <1>3, <1>10, <3>1, Numbers DEF Depth
    <3>2. CASE p[w].res # "none"
      <4>1. h.pend[w] # 0
        BY <1>3, <3>2 DEF FrameInv, ReadyInv
      <4> QED BY <1>3, <1>10, <1>11, <4>1 DEF a
    <3> QED BY <1>2, <1>15, <3>1, <3>2
  <2> DEFINE g == f.next_finished
             nd == f'.next_decoding
  <2>9. c - a - 1 \in 0 .. T /\ c - a - 1 < T /\ c - a - 1 <= h.sub
    BY <1>3, <1>10, <2>1, Numbers
  <2>2. PICK e \in 0 .. T : e = c - a - 1 /\ e < T /\ e <= h.sub
    BY <2>9
  <2>3. /\ m'.pc = "finish" /\ f'.next_finished = next /\ New' = 0 /\ Asked' = 0
        /\ nd = IF f.next_decoding >= T THEN 0 ELSE f.next_decoding
    BY <1>6, <1>7, <1>15 DEF New, Asked
  <2>4. next \in {g + a + 1, g + a + 1 - T} /\ g + a + 1 - T < T
    BY <1>3, <1>4, Numbers DEF Dist, a
  <2>5. /\ nd + 0 \in {next + e, next + e - T}
        /\ f.delaying => nd + 0 = next + e /\ nd < Depth
    <3>1. CASE next = g + a + 1
      <4>1. next + e = g + c
        BY <1>3, <1>10, <2>2, <3>1
      <4> QED BY <1>3, <1>5, <1>10, <2>2, <2>3, <4>1, Numbers DEF Depth
    <3>2. CASE next = g + a + 1 - T
      <4>1. next + e = g + c - T /\ g + c >= T
        BY <1>3, <1>5, <1>10, <2>1, <2>2, <3>2, Numbers
      <4> QED BY <1>3, <1>5, <1>10, <2>2, <2>3, <4>1, Numbers DEF Depth
    <3> QED BY <2>4, <3>1, <3>2
  <2>6. ASSUME NEW t \in Workers
        PROVE  /\ 0 <= Dist(t)'
               /\ h'.pend[t] = IF Dist(t)' < e THEN h.sub - e + Dist(t)' + 1 ELSE 0
    <3>1. t \in 0 .. T - 1
      BY DEF Workers
    <3>2. Dist(t)' = IF t >= next THEN t - next ELSE t - next + T
      BY <2>3 DEF Dist
    <3>3. Dist(t) = IF t >= g THEN t - g ELSE t - g + T
      BY DEF Dist
    <3>4. Dist(t)' = IF a + 1 <= Dist(t) THEN Dist(t) - a - 1 ELSE Dist(t) + T - a - 1
      BY <1>3, <1>5, <1>10, <2>4, <3>1, <3>2, <3>3, Numbers
    <3>5. Dist(t) \in 0 .. T - 1
      BY <1>12
    <3> QED BY <1>3, <1>10, <1>12, <2>2, <3>4, <3>5, Numbers
  <2>7. ~AtEnd'
    BY <1>8, <1>15
  <2>8. RingAt(e)'
    BY <1>3, <1>6, <1>7, <1>8, <1>10, <2>1, <2>2, <2>3, <2>5, <2>6, Numbers DEF RingAt
  <2> QED BY <2>2, <2>7, <2>8 DEF RingInv
<1> QED BY <1>13, <1>14, <1>15

LEMMA CollectStep ==
  ASSUME FrameInv, Collect PROVE FrameInv'
<1> USE DEF Collect, locks
<1>1. MainOK /\ ThreadsOK /\ HistoryOK /\ CallInv /\ RingOK /\ StreamInv
  BY MainInvariants
<1> DEFINE w == m.cur
           next == (m.cur + 1) % T
           again == m.call = "null" /\ p[w].res = "none" /\ next # f.next_finished
<1>2. CASE ~Ready(w)
  BY <1>2, QuietStep
<1>3. ASSUME Ready(w) PROVE FrameInv'
  <2>1. RingInv'
    BY <1>3, CollectRing
  <2>2. /\ m.pc = "collect" /\ async_lock' = async_lock /\ hwaccel_mutex' = hwaccel_mutex
        /\ w \in 0 .. T - 1 /\ w \in Workers /\ next \in 0 .. T - 1 /\ next \in Workers /\ next \in Nat
        /\ f.next_decoding \in 0 .. T
    BY <1>1, Numbers DEF CallInv, MainOK, Workers, RingOK
  <2>3. p[w] \in PerThread /\ p[w].res \in Results
    BY <1>1, <2>2 DEF ThreadsOK, PerThread
  <2> HIDE DEF next
  <2>4. m' = [m EXCEPT !.cur = next, !.out = p[w].res, !.pc = IF again THEN "collect" ELSE "finish"]
    BY <1>3 DEF next
  <2>5. /\ m'.pc = (IF again THEN "collect" ELSE "finish") /\ m'.cur = next /\ m'.call = m.call
        /\ m'.out = p[w].res /\ MainOK'
    BY <1>1, <2>2, <2>3, <2>4 DEF MainOK, MainLabels, InCall
  <2> DEFINE nd == IF f.next_decoding >= T THEN 0 ELSE f.next_decoding
  <2>6. nd \in 0 .. T - 1
    BY <2>2, Numbers
  <2>7. /\ f'.codec = f.codec /\ f'.prev_thread = f.prev_thread
        /\ again => f' = f
        /\ ~again => /\ f' = [f EXCEPT !.next_finished = next, !.next_decoding = nd]
                     /\ f'.next_finished = next /\ f'.next_decoding = nd
    BY <1>1, <1>3 DEF RingOK, next
  <2>8. RingOK'
    <3> HIDE DEF nd, again
    <3>1. nd \in 0 .. T
      BY <2>6, Numbers
    <3>2. CASE again
      BY <1>1, <2>7, <3>2 DEF RingOK
    <3>3. CASE ~again
      BY <1>1, <2>2, <2>7, <3>1, <3>3 DEF RingOK
    <3> QED BY <3>2, <3>3
  <2>9. h'.stream = h.stream /\ h'.sub = h.sub /\ h'.eof = h.eof /\ h'.draining = h.draining
        /\ h'.pend = [h.pend EXCEPT ![w] = 0]
    BY <1>1, <1>3 DEF HistoryOK
  <2>10. HistoryOK'
    <3> DEFINE g == [h.pend EXCEPT ![w] = 0]
               l == IF h.pend[w] = 0 THEN h.taken ELSE Append(h.taken, h.pend[w])
    <3>1. g \in [Workers -> Nat] /\ l \in Seq(Nat)
      <4>1. h.pend[w] \in Nat /\ h.taken \in Seq(Nat) /\ h.pend \in [Workers -> Nat]
        BY <1>1, <2>2 DEF HistoryOK
      <4>2. Append(h.taken, h.pend[w]) \in Seq(Nat)
        BY <4>1
      <4> QED BY <2>2, <4>1, <4>2
    <3>2. h' = [h EXCEPT !.pend = g, !.taken = l]
      BY <1>1, <1>3 DEF HistoryOK
    <3> HIDE DEF g, l
    <3> QED BY <1>1, <3>1, <3>2 DEF HistoryOK
  <2>11. p'[w] = [p[w] EXCEPT !.res = "none"] /\ \A t \in Workers \ {w} : p'[t] = p[t]
    BY <1>1, <1>3, <2>2 DEF ThreadsOK
  <2>12. ThreadsOK'
    <3>1. p'[w] \in PerThread
      BY <2>3, <2>11 DEF PerThread, Results
    <3> QED BY <1>1, <1>3, <2>2, <3>1 DEF ThreadsOK
  <2>13. TypeOK'
    BY <2>5, <2>8, <2>10, <2>12 DEF TypeOK
  <2>14. ASSUME NEW t \in Workers
         PROVE  /\ p'[t].pc = p[t].pc /\ p'[t].state = p[t].state /\ p'[t].after = p[t].after
                /\ p'[t].die = p[t].die /\ p'[t].serializing = p[t].serializing
                /\ p'[t].ctx = p[t].ctx
                /\ p'[t].res = (IF t = w THEN "none" ELSE p[t].res)
                /\ h'.pend[t] = (IF t = w THEN 0 ELSE h.pend[t])
    <3>1. CASE t = w
      BY <1>1, <2>2, <2>3, <2>9, <2>11, <3>1 DEF PerThread, HistoryOK
    <3>2. CASE t # w
      BY <1>1, <2>2, <2>9, <2>11, <2>14, <3>2 DEF HistoryOK
    <3> QED BY <3>1, <3>2
  <2>15. CallInv' /\ CallerInv'
    <3> HIDE DEF again, nd
    <3>1. m'.pc = "finish" => f'.next_decoding < T
      BY <2>5, <2>6, <2>7, Numbers
    <3> QED BY <1>1, <2>2, <2>5, <2>9, <3>1, Numbers DEF CallInv, CallerInv, InCall, Submitting
  <2>16. Latest' = Latest /\ Latest = f.prev_thread
    BY <2>2, <2>5, <2>7 DEF Latest
  <2>17. ASSUME NEW t \in Workers PROVE StateInv(t)' /\ HwInv(t)' /\ SetupInv(t)'
    <3>1. p[t].ctx.hw => HasUpdate
      BY DEF FrameInv, HwInv
    <3>2. m'.pc \in {"collect", "finish"}
      BY <2>5
    <3> HIDE DEF again
    <3> QED BY <2>2, <2>7, <2>14, <2>16, <2>17, <3>1, <3>2, StateAlone, HwAlone, SetupAlone
  <2>18. ASSUME NEW t \in Workers PROVE ReadyInv(t)'
    <3>1. m'.pc \in {"collect", "finish"}
      BY <2>5
    <3> HIDE DEF again
    <3> QED BY <1>3, <2>14, <2>18, <3>1 DEF FrameInv, ReadyInv, Ready, AllParked
  <2>19. StreamInv'
    <3>1. HasUpdate' = HasUpdate
      BY <2>7 DEF HasUpdate
    <3>2. f.prev_thread = None => f'.next_decoding = 0
      BY <1>1, <2>7, Numbers DEF StreamInv
    <3>3. m'.pc \in {"collect", "finish"}
      BY <2>5
    <3>4. 0 \in Workers /\ (Latest = None \/ Latest \in Workers)
      BY <1>1, <2>16, Numbers DEF RingOK, Workers
    <3> HIDE DEF again, nd
    <3> QED BY <1>1, <2>7, <2>9, <2>14, <2>16, <3>1, <3>2, <3>3, <3>4 DEF StreamInv
  <2> QED BY <2>1, <2>13, <2>15, <2>17, <2>18, <2>19 DEF FrameInv
<1> QED BY <1>2, <1>3
-----------------------------------------------------------------------------
(* Parking, flushing and freeing. *)
LEMMA ParkStep ==
  ASSUME FrameInv, Park PROVE FrameInv'
<1> USE DEF Park, locks
<1>1. MainOK /\ ThreadsOK /\ HistoryOK /\ CallInv /\ RingOK /\ StreamInv
  BY MainInvariants
<1> DEFINE w == m.cur
<1>2. CASE ~Ready(w)
  BY <1>2, QuietStep
<1>3. ASSUME Ready(w) PROVE FrameInv'
  <2>1. /\ m.pc = "park" /\ f' = f /\ h' = h /\ w \in Workers /\ w \in 0 .. T - 1
        /\ async_lock' = async_lock /\ hwaccel_mutex' = hwaccel_mutex
    BY <1>1, Numbers DEF MainOK, Workers
  <2>2. /\ m'.pc = "park" /\ m'.cur = w + 1 /\ m'.call = m.call /\ m'.out = m.out
    BY <1>1, <1>3, <2>1 DEF MainOK
  <2>3. MainOK'
    <3> DEFINE n == w + 1
    <3>1. n \in Nat /\ m' = [m EXCEPT !.cur = n]
      BY <1>1, <1>3 DEF MainOK
    <3> HIDE DEF n
    <3> QED BY <1>1, <3>1 DEF MainOK
  <2>4. CallInv' /\ CallerInv'
    BY <1>1, <2>1, <2>2, Numbers DEF CallInv, CallerInv, InCall, Submitting
  <2>5. RingInv'
    <3>1. AtEnd' <=> AtEnd
      BY <2>1, <2>2 DEF AtEnd
    <3> QED BY <2>1, <2>2, <3>1, RingAlone
  <2> DEFINE r == IF p[w].res = "frame" THEN "none" ELSE p[w].res
  <2>6. p'[w] = [p[w] EXCEPT !.res = r] /\ \A t \in Workers \ {w} : p'[t] = p[t]
    BY <1>1, <1>3, <2>1 DEF ThreadsOK
  <2>7. p[w] \in PerThread
    BY <1>1, <2>1 DEF ThreadsOK
  <2>8. ThreadsOK'
    <3>1. p'[w] \in PerThread
      BY <2>6, <2>7 DEF PerThread, Results
    <3> QED BY <1>1, <1>3, <2>1, <3>1 DEF ThreadsOK
  <2>9. TypeOK'
    BY <1>1, <2>1, <2>3, <2>8 DEF TypeOK, RingOK, HistoryOK
  <2>10. ASSUME NEW t \in Workers
         PROVE  /\ p'[t].pc = p[t].pc /\ p'[t].state = p[t].state /\ p'[t].after = p[t].after
                /\ p'[t].die = p[t].die /\ p'[t].serializing = p[t].serializing
                /\ p'[t].ctx = p[t].ctx /\ (p[t].res = "none" => p'[t].res = "none")
    <3>1. CASE t = w
      BY <2>6, <2>7, <3>1 DEF PerThread
    <3>2. CASE t # w
      BY <2>6, <2>10, <3>2
    <3> QED BY <3>1, <3>2
  <2>11. Latest' = Latest
    BY <2>1, <2>2 DEF Latest
  <2>12. ASSUME NEW t \in Workers PROVE StateInv(t)' /\ HwInv(t)' /\ SetupInv(t)'
    <3>1. p[t].ctx.hw => HasUpdate
      BY DEF FrameInv, HwInv
    <3> QED BY <2>1, <2>2, <2>10, <2>11, <2>12, <3>1, StateAlone, HwAlone, SetupAlone
  <2>13. ASSUME NEW t \in Workers PROVE ReadyInv(t)'
    <3>1. t \in 0 .. T - 1 /\ ReadyInv(t)
      BY DEF Workers, FrameInv
    <3>2. t < w + 1 => t < w \/ t = w
      BY <2>1, <3>1
    <3> QED BY <1>3, <2>1, <2>2, <2>10, <2>13, <3>1, <3>2 DEF ReadyInv, Ready, AllParked
  <2>14. StreamInv'
    BY <2>1, <2>2, <2>10, <2>11, StreamAlone
  <2> QED BY <2>4, <2>5, <2>9, <2>12, <2>13, <2>14 DEF FrameInv
<1> QED BY <1>2, <1>3

(* What the end of the stream of packets hands back to thread 0. *)
LEMMA FinalContextIs ==
  ASSUME FrameInv, m.pc \in AllParked
  PROVE  /\ FinalContext(p) \in [Workers -> PerThread]
         /\ HasUpdate => FinalContext(p)[0].ctx = h.stream
         /\ \A t \in Workers : /\ p[t].pc # "format" /\ p[t].state \notin Open
                               /\ FinalContext(p)[t].ctx.hw => HasUpdate
                               /\ FinalContext(p)[t] = [p[t] EXCEPT !.ctx = FinalContext(p)[t].ctx]
                               /\ t # 0 => FinalContext(p)[t] = p[t]
<1>1. MainOK /\ ThreadsOK /\ HistoryOK /\ CallInv /\ RingOK /\ StreamInv /\ 0 \in Workers
  BY MainInvariants, Numbers DEF Workers
<1>2. ASSUME NEW t \in Workers PROVE p[t].pc # "format" /\ p[t].state \notin Open /\ p[t] \in PerThread
  BY <1>1, <1>2, WorkerInvariants DEF FrameInv, ReadyInv, Ready, StateInv, Open, Asking
<1>3. Latest = f.prev_thread
  BY DEF AllParked, Latest
<1>4. CASE f.prev_thread = None
  <2>1. FinalContext(p) = p
    BY <1>4 DEF FinalContext
  <2>2. \A t \in Workers : p[t] = [p[t] EXCEPT !.ctx = p[t].ctx]
    BY <1>2 DEF PerThread
  <2> QED BY <1>1, <1>2, <1>3, <1>4, <2>1, <2>2 DEF StreamInv, ThreadsOK, FrameInv, HwInv
<1>5. CASE f.prev_thread # None
  <2> DEFINE c == p[f.prev_thread].ctx
  <2>1. f.prev_thread \in Workers /\ c \in Contexts /\ (c.hw => HasUpdate)
    BY <1>1, <1>5 DEF RingOK, ThreadsOK, PerThread, FrameInv, HwInv
  <2>2. HasUpdate => c = h.stream
    BY <1>1, <1>2, <1>3, <1>5, <2>1 DEF StreamInv
  <2>3. FinalContext(p) = [p EXCEPT ![0].ctx = c]
    BY <1>5 DEF FinalContext
  <2> HIDE DEF c
  <2>4. /\ FinalContext(p)[0] = [p[0] EXCEPT !.ctx = c]
        /\ \A t \in Workers \ {0} : FinalContext(p)[t] = p[t]
    BY <1>1, <2>3 DEF ThreadsOK
  <2>5. FinalContext(p)[0] \in PerThread /\ FinalContext(p)[0].ctx = c
    BY <1>1, <1>2, <2>1, <2>4 DEF PerThread
  <2>6. FinalContext(p) \in [Workers -> PerThread]
    BY <1>1, <2>3, <2>5 DEF ThreadsOK
  <2>7. ASSUME NEW t \in Workers
        PROVE  /\ FinalContext(p)[t].ctx.hw => HasUpdate
               /\ FinalContext(p)[t] = [p[t] EXCEPT !.ctx = FinalContext(p)[t].ctx]
    <3>1. CASE t = 0
      BY <2>1, <2>4, <2>5, <3>1
    <3>2. CASE t # 0
      <4>1. FinalContext(p)[t] = p[t] /\ p[t] \in PerThread
        BY <1>2, <2>4, <3>2
      <4>2. p[t] = [p[t] EXCEPT !.ctx = p[t].ctx]
        BY <4>1 DEF PerThread
      <4> QED BY <4>1, <4>2 DEF FrameInv, HwInv
    <3> QED BY <3>1, <3>2
  <2> QED BY <1>2, <2>2, <2>4, <2>5, <2>6, <2>7
<1> QED BY <1>4, <1>5

LEMMA FlushStep ==
  ASSUME FrameInv, Flush PROVE FrameInv'
<1>1. MainOK /\ ThreadsOK /\ HistoryOK /\ CallInv /\ RingOK /\ CallerInv
  BY MainInvariants
<1>2. /\ m.pc = "flush" /\ async_lock' = async_lock /\ hwaccel_mutex' = hwaccel_mutex
      /\ m'.pc = "user" /\ MainOK' /\ 0 \in Workers
  <2>1. m.pc = "flush" /\ async_lock' = async_lock /\ hwaccel_mutex' = hwaccel_mutex
    BY DEF Flush, locks
  <2>2. m' = [m EXCEPT !.pc = "user"]
    BY DEF Flush, MainTo
  <2> QED BY <1>1, <2>1, <2>2, Numbers DEF MainOK, MainLabels, Workers
<1>3. /\ f'.next_decoding = 0 /\ f'.next_finished = 0 /\ f'.delaying = TRUE
      /\ f'.prev_thread = None /\ f'.codec = f.codec /\ RingOK'
  <2>1. f' = [f EXCEPT !.next_decoding = 0, !.next_finished = 0, !.delaying = TRUE,
                       !.prev_thread = None]
    BY DEF Flush
  <2>2. 0 \in 0 .. T /\ None \in Workers \cup {None}
    BY Numbers
  <2>3. 0 \in Workers
    BY <1>2
  <2> QED BY <1>1, <2>1, <2>2, <2>3 DEF RingOK
<1> DEFINE q == FinalContext(p)
           s == [h.stream EXCEPT !.last = 0]
           g == [t \in Workers |-> 0]
<1>4. /\ q \in [Workers -> PerThread]
      /\ HasUpdate => q[0].ctx = h.stream
      /\ \A t \in Workers : /\ p[t].pc # "format" /\ p[t].state \notin Open
                            /\ q[t].ctx.hw => HasUpdate
                            /\ q[t] = [p[t] EXCEPT !.ctx = q[t].ctx]
  BY <1>2, FinalContextIs DEF AllParked
<1>5. p' = [t \in Workers |-> [q[t] EXCEPT !.res = "none", !.released = 0, !.ctx.last = 0]]
  BY DEF Flush
<1>6. /\ h'.pend = g /\ h'.stream = s /\ h'.draining = FALSE /\ h'.eof = FALSE /\ h'.sub = h.sub
      /\ HistoryOK'
  <2>1. g \in [Workers -> Nat] /\ s \in Contexts
    BY <1>1 DEF HistoryOK, Contexts
  <2>2. h.flushes \in Nat /\ h.flushes + 1 \in Nat
    BY <1>1 DEF HistoryOK
  <2> DEFINE n == h.flushes + 1
  <2>4. h' = [h EXCEPT !.pend = [t \in Workers |-> 0], !.stream.last = 0,
                       !.draining = FALSE, !.eof = FALSE, !.flushes = @ + 1]
    BY DEF Flush
  <2>3. h' = [h EXCEPT !.pend = g, !.stream = s, !.draining = FALSE, !.eof = FALSE, !.flushes = n]
    BY <1>1, <2>4 DEF HistoryOK
  <2> HIDE DEF g, s, n
  <2> QED BY <1>1, <2>1, <2>2, <2>3 DEF HistoryOK, n
<1> HIDE DEF q, s
<1>7. ASSUME NEW t \in Workers
      PROVE  /\ p'[t] \in PerThread
             /\ p'[t].pc = p[t].pc /\ p'[t].state = p[t].state /\ p'[t].after = p[t].after
             /\ p'[t].die = p[t].die /\ p'[t].serializing = p[t].serializing
             /\ p'[t].ctx = [q[t].ctx EXCEPT !.last = 0] /\ p'[t].res = "none"
             /\ p'[t].ctx.hw = q[t].ctx.hw
  <2> DEFINE c == [q[t].ctx EXCEPT !.last = 0]
  <2>1. q[t] \in PerThread /\ p[t] \in PerThread
    BY <1>1, <1>4 DEF ThreadsOK
  <2>2. c \in Contexts /\ c.hw = q[t].ctx.hw
    BY <2>1 DEF PerThread, Contexts
  <2>3. p'[t] = [q[t] EXCEPT !.res = "none", !.released = 0, !.ctx = c]
    BY <1>5, <2>1 DEF PerThread, Contexts
  <2>4. /\ q[t].pc = p[t].pc /\ q[t].state = p[t].state /\ q[t].after = p[t].after
        /\ q[t].die = p[t].die /\ q[t].serializing = p[t].serializing
    BY <1>4, <2>1 DEF PerThread
  <2>5. p'[t].ctx = c
    BY <2>1, <2>3 DEF PerThread
  <2> HIDE DEF c
  <2>6. p'[t] \in PerThread /\ p'[t].res = "none"
    <3>1. "none" \in Results /\ 0 \in Nat
      BY DEF Results
    <3> QED BY <2>1, <2>2, <2>3, <3>1 DEF PerThread
  <2>7. /\ p'[t].pc = q[t].pc /\ p'[t].state = q[t].state /\ p'[t].after = q[t].after
        /\ p'[t].die = q[t].die /\ p'[t].serializing = q[t].serializing
    BY <2>1, <2>3 DEF PerThread
  <2>8. c = [q[t].ctx EXCEPT !.last = 0]
    BY DEF c
  <2> QED BY <2>2, <2>4, <2>5, <2>6, <2>7, <2>8
<1>8. TypeOK'
  BY <1>2, <1>3, <1>5, <1>6, <1>7 DEF TypeOK, ThreadsOK
<1>9. CallInv' /\ CallerInv'
  BY <1>1, <1>2, <1>3, Numbers DEF CallInv, CallerInv, InCall, Submitting
<1>10. RingInv'
  <2>1. ~AtEnd'
    BY <1>2, <1>6 DEF AtEnd
  <2>2. FFV1' = FFV1 /\ FFV1 \in {0, 1} /\ h.sub \in Nat /\ Depth' = T - FFV1
    BY <1>1, <1>3, CodecFacts, Numbers DEF FFV1, Depth, FrameInv, HistoryOK
  <2>3. New' = 0 /\ Asked' = 0
    BY <1>2 DEF New, Asked
  <2>4. \A t \in Workers : Dist(t)' >= 0 /\ h'.pend[t] = 0
    BY <1>3, <1>6, Numbers DEF Dist, Workers
  <2>5. RingAt(0)'
    <3>1. /\ 0 <= h'.sub /\ f'.next_decoding + New' = f'.next_finished + 0
          /\ f'.next_decoding < Depth' /\ 0 - New' < T /\ 0 - New' < Depth'
      BY <1>3, <1>6, <2>2, <2>3, Numbers
    <3>2. \A t \in Workers : ~(Dist(t)' < 0)
      BY <1>3, Numbers DEF Dist, Workers
    <3> QED BY <1>2, <1>3, <1>6, <2>4, <3>1, <3>2 DEF RingAt
  <2>6. 0 \in 0 .. T
    BY Numbers
  <2> QED BY <2>1, <2>5, <2>6 DEF RingInv
<1>11. ASSUME NEW t \in Workers PROVE StateInv(t)' /\ ReadyInv(t)' /\ SetupInv(t)'
  <2>1. ReadyInv(t)'
    BY <1>2, <1>7, <1>11 DEF FrameInv, ReadyInv, Ready, AllParked
  <2>2. StateInv(t)
    BY <1>11 DEF FrameInv
  <2>3. ~p[t].die
    BY <1>2, <2>2 DEF StateInv
  <2>4. p[t].pc = "input"
    BY <1>2, <1>4, <1>11, <2>2, <2>3, WorkerInvariants
      DEF StateInv, ReadyInv, Ready, SettingUp, PerThread, WorkerLabels, AllParked
  <2>5. StateInv(t)'
    BY <1>4, <1>7, <1>11, <2>2, <2>3, <2>4 DEF StateInv
  <2>6. SetupInv(t)'
    BY <1>4, <1>7, <1>11 DEF SetupInv
  <2> QED BY <2>1, <2>5, <2>6
<1>12. ASSUME NEW t \in Workers PROVE HwInv(t)'
  <2>1. HasUpdate' = HasUpdate /\ p[t].state \notin Open /\ ReadyInv(t) /\ StateInv(t)
    BY <1>3, <1>4, <1>12 DEF HasUpdate, FrameInv
  <2>2. p[t].pc # "work"
    BY <1>2, <2>1 DEF StateInv, ReadyInv, Ready, AllParked
  <2> QED BY <1>2, <1>4, <1>7, <1>12, <2>1, <2>2 DEF FrameInv, HwInv
<1>13. StreamInv'
  <2>1. HasUpdate' = HasUpdate /\ Latest' = None
    BY <1>2, <1>3 DEF HasUpdate, Latest
  <2>2. HasUpdate => p'[0].ctx = h'.stream
    BY <1>2, <1>4, <1>6, <1>7 DEF s
  <2> QED BY <1>2, <1>3, <2>1, <2>2 DEF StreamInv
<1> QED BY <1>8, <1>9, <1>10, <1>11, <1>12, <1>13 DEF FrameInv

LEMMA FreeStartStep ==
  ASSUME FrameInv, FreeStart PROVE FrameInv'
<1>1. MainOK /\ ThreadsOK /\ HistoryOK /\ CallInv /\ RingOK /\ StreamInv
  BY MainInvariants
<1>2. /\ m.pc = "free" /\ async_lock' = async_lock /\ hwaccel_mutex' = hwaccel_mutex
      /\ m'.pc = "kill" /\ m'.cur = 0 /\ m'.call = m.call /\ m'.out = m.out
      /\ f' = f /\ h' = h /\ MainOK' /\ 0 \in Workers /\ p' = FinalContext(p)
  <2>1. /\ m.pc = "free" /\ async_lock' = async_lock /\ hwaccel_mutex' = hwaccel_mutex
        /\ f' = f /\ h' = h /\ m' = [m EXCEPT !.pc = "kill", !.cur = 0] /\ p' = FinalContext(p)
    BY DEF FreeStart, locks
  <2>2. 0 \in Workers /\ 0 \in Nat
    BY Numbers DEF Workers
  <2> QED BY <1>1, <2>1, <2>2 DEF MainOK, MainLabels, AllParked
<1>3. /\ p' \in [Workers -> PerThread]
      /\ HasUpdate => p'[0].ctx = h.stream
      /\ \A t \in Workers : /\ p[t].pc # "format" /\ p[t].state \notin Open
                            /\ p'[t].ctx.hw => HasUpdate
                            /\ p'[t] = [p[t] EXCEPT !.ctx = p'[t].ctx]
                            /\ t # 0 => p'[t] = p[t]
  BY <1>2, FinalContextIs DEF AllParked
<1>4. ASSUME NEW t \in Workers
      PROVE  /\ p'[t].pc = p[t].pc /\ p'[t].state = p[t].state /\ p'[t].after = p[t].after
             /\ p'[t].die = p[t].die /\ p'[t].serializing = p[t].serializing
             /\ p'[t].res = p[t].res
  <2>1. p[t] \in PerThread /\ p'[t] = [p[t] EXCEPT !.ctx = p'[t].ctx]
    BY <1>1, <1>3, <1>4 DEF ThreadsOK
  <2> DEFINE c == p'[t].ctx
  <2>2. p'[t] = [p[t] EXCEPT !.ctx = c]
    BY <2>1
  <2> HIDE DEF c
  <2> QED BY <2>1, <2>2 DEF PerThread
<1>5. TypeOK'
  BY <1>1, <1>2, <1>3 DEF TypeOK, ThreadsOK, RingOK, HistoryOK
<1>6. CallInv' /\ CallerInv'
  BY <1>1, <1>2 DEF CallInv, CallerInv, InCall, Submitting
<1>7. RingInv'
  <2>1. AtEnd' <=> AtEnd
    BY <1>2 DEF AtEnd
  <2> QED BY <1>2, <2>1, RingAlone
<1>8. Latest' = Latest /\ Latest = f.prev_thread
  BY <1>2 DEF Latest
<1>9. ASSUME NEW t \in Workers PROVE StateInv(t)' /\ ReadyInv(t)' /\ SetupInv(t)'
  BY <1>2, <1>4, <1>8, <1>9, StateAlone, ReadyAlone, SetupAlone DEF AllParked
<1>10. ASSUME NEW t \in Workers PROVE HwInv(t)'
  <2>1. HasUpdate' = HasUpdate /\ p[t].state \notin Open /\ ReadyInv(t) /\ StateInv(t)
    BY <1>2, <1>3, <1>10 DEF HasUpdate, FrameInv
  <2>2. p[t].pc # "work"
    BY <1>2, <2>1 DEF StateInv, ReadyInv, Ready, AllParked
  <2> QED BY <1>2, <1>3, <1>4, <1>10, <2>1, <2>2 DEF FrameInv, HwInv
<1>11. StreamInv'
  <2>1. HasUpdate' = HasUpdate
    BY <1>2 DEF HasUpdate
  <2>2. Latest # None => Latest \in Workers
    BY <1>1, <1>8 DEF RingOK
  <2>3. ASSUME Latest # None, HasUpdate PROVE p'[Latest].ctx = h.stream /\ p'[Latest].pc # "format"
    <3>1. p[Latest].ctx = h.stream /\ p[Latest].pc # "format"
      BY <1>1, <1>3, <2>2, <2>3 DEF StreamInv
    <3> QED BY <1>2, <1>3, <1>4, <2>2, <2>3, <3>1
  <2> QED BY <1>1, <1>2, <1>3, <1>8, <2>1, <2>3 DEF StreamInv
<1> QED BY <1>5, <1>6, <1>7, <1>9, <1>10, <1>11 DEF FrameInv

LEMMA KillStep ==
  ASSUME FrameInv, Kill PROVE FrameInv'
<1>1. MainOK /\ ThreadsOK /\ HistoryOK /\ CallInv /\ RingOK /\ StreamInv
  BY MainInvariants
<1> DEFINE w == m.cur
<1>2. /\ m.pc = "kill" /\ async_lock' = async_lock /\ hwaccel_mutex' = hwaccel_mutex
      /\ m'.pc = "join" /\ m'.cur = m.cur /\ m'.call = m.call /\ m'.out = m.out
      /\ f' = f /\ h' = h /\ MainOK' /\ w \in Workers /\ p' = [p EXCEPT ![w].die = TRUE]
  <2>1. /\ m.pc = "kill" /\ m.cur < T /\ async_lock' = async_lock
        /\ hwaccel_mutex' = hwaccel_mutex /\ f' = f /\ h' = h
        /\ m' = [m EXCEPT !.pc = "join"] /\ p' = [p EXCEPT ![w].die = TRUE]
    BY DEF Kill, locks, MainTo
  <2> QED BY <1>1, <2>1, Numbers DEF MainOK, MainLabels, AllParked, Workers
<1>3. p'[w] = [p[w] EXCEPT !.die = TRUE] /\ \A t \in Workers \ {w} : p'[t] = p[t]
  BY <1>1, <1>2 DEF ThreadsOK
<1>4. p[w] \in PerThread /\ p'[w] \in PerThread
  <2>1. p[w] \in PerThread
    BY <1>1, <1>2 DEF ThreadsOK
  <2> QED BY <1>3, <2>1 DEF PerThread
<1>5. ASSUME NEW t \in Workers
      PROVE  /\ p'[t].pc = p[t].pc /\ p'[t].state = p[t].state /\ p'[t].after = p[t].after
             /\ p'[t].serializing = p[t].serializing /\ p'[t].ctx = p[t].ctx
             /\ p'[t].res = p[t].res /\ (p[t].die => p'[t].die)
  <2>1. CASE t = w
    BY <1>3, <1>4, <2>1 DEF PerThread
  <2>2. CASE t # w
    BY <1>3, <1>5, <2>2
  <2> QED BY <2>1, <2>2
<1>6. TypeOK'
  BY <1>1, <1>2, <1>4 DEF TypeOK, ThreadsOK, RingOK, HistoryOK
<1>7. CallInv' /\ CallerInv'
  BY <1>1, <1>2 DEF CallInv, CallerInv, InCall, Submitting
<1>8. RingInv'
  <2>1. AtEnd' <=> AtEnd
    BY <1>2 DEF AtEnd
  <2> QED BY <1>2, <2>1, RingAlone
<1>9. Latest' = Latest
  BY <1>2 DEF Latest
<1>10. ASSUME NEW t \in Workers PROVE ReadyInv(t)' /\ SetupInv(t)' /\ HwInv(t)'
  <2>1. p[t].ctx.hw => HasUpdate
    BY DEF FrameInv, HwInv
  <2> QED BY <1>2, <1>5, <1>9, <1>10, <2>1, ReadyAlone, SetupAlone, HwAlone DEF AllParked
<1>11. ASSUME NEW t \in Workers PROVE StateInv(t)'
  <2>1. StateInv(t) /\ Ready(t)
    BY <1>2 DEF FrameInv, ReadyInv, AllParked
  <2>2. /\ HasUpdate' = HasUpdate /\ UnsafeFormat' = UnsafeFormat /\ UnsafeBuffer' = UnsafeBuffer
        /\ SetupInDecode' = SetupInDecode
    BY <1>2 DEF HasUpdate, UnsafeFormat, UnsafeBuffer, SetupInDecode
  <2> QED BY <1>2, <1>5, <1>11, <2>1, <2>2 DEF StateInv, Ready, SettingUp
<1>12. StreamInv'
  BY <1>2, <1>5, <1>9, StreamAlone
<1> QED BY <1>6, <1>7, <1>8, <1>10, <1>11, <1>12 DEF FrameInv

LEMMA FrameStep ==
  ASSUME FrameInv, [Next]_vars PROVE FrameInv'
<1>1. CASE Call
  BY <1>1, DecodeCallStep, ParkCallStep DEF Call
<1>2. CASE MainStep
  BY <1>2, SubmitLockStep, SubmitReleaseStep, SubmitAwaitSetupStep, SubmitCopyStep,
     SubmitPacketStep, SubmitServeStep, SubmittedStep, CollectStep, FinishStep, ParkStep,
     ParkedStep, FlushStep, FreeStartStep, KillStep, JoinStep DEF MainStep
<1>3. CASE \E t \in Workers : WorkerStep(t)
  BY <1>3, WorkersKeep
<1>4. CASE SpuriousWake
  <2>1. /\ m' = m /\ f' = f /\ p' = p /\ h' = h /\ hwaccel_mutex' = hwaccel_mutex
        /\ async_lock' = async_lock
    BY <1>4 DEF SpuriousWake, locks
  <2> QED BY <2>1, QuietStep
<1>5. CASE Freed \/ UNCHANGED vars
  <2>1. /\ m' = m /\ f' = f /\ p' = p /\ h' = h /\ hwaccel_mutex' = hwaccel_mutex
        /\ async_lock' = async_lock
    BY <1>5 DEF Freed, vars
  <2> QED BY <2>1, QuietStep
<1> QED BY <1>1, <1>2, <1>3, <1>4, <1>5 DEF Next

LEMMA FrameStarts ==
  ASSUME Init PROVE FrameInv
<1>1. 0 \in Workers /\ 0 \in 0 .. T /\ 0 \in 0 .. MaxSub /\ None \in Workers \cup {None}
  BY Numbers DEF Workers
<1>2. PICK codec \in Codecs :
        f = [next_decoding |-> 0, next_finished |-> 0, delaying |-> TRUE,
             prev_thread |-> None, codec |-> codec]
  BY DEF Init
<1>3. /\ f.next_decoding = 0 /\ f.next_finished = 0 /\ f.delaying = TRUE
      /\ f.prev_thread = None /\ RingOK
  BY <1>1, <1>2 DEF RingOK
<1>4. m = [pc |-> "user", call |-> "data", cur |-> 0, out |-> "none"] /\ MainOK
  BY DEF Init, MainOK, MainLabels, Results
<1>5. \A t \in Workers : p[t] = NewPacketState
  BY DEF Init
<1>6. NewPacketState \in PerThread
  BY DEF NewPacketState, PerThread, WorkerLabels, States, Results, Contexts
<1>7. ThreadsOK
  BY <1>6 DEF Init, ThreadsOK
<1>8. /\ h.sub = 0 /\ h.draining = FALSE /\ h.eof = FALSE /\ h.stream = [hw |-> FALSE, last |-> 0]
      /\ \A t \in Workers : h.pend[t] = 0
  BY DEF Init
<1>9. HistoryOK
  BY <1>1 DEF Init, HistoryOK, Contexts
<1>10. TypeOK
  BY <1>3, <1>4, <1>7, <1>9 DEF TypeOK
<1>11. CallerInv /\ CallInv
  BY <1>3, <1>4, Numbers DEF Init, CallerInv, CallInv, InCall, Submitting
<1>12. StreamInv
  <2>1. Latest = None
    BY <1>3, <1>4 DEF Latest
  <2>2. p[0].ctx = h.stream
    <3>1. p[0] = NewPacketState
      BY <1>1, <1>5
    <3>2. NewPacketState.ctx = [hw |-> FALSE, last |-> 0]
      BY DEF NewPacketState
    <3> QED BY <1>8, <3>1, <3>2
  <2> QED BY <1>3, <1>4, <2>1, <2>2 DEF StreamInv
<1>13. RingInv
  <2>1. ~AtEnd
    BY <1>4, <1>8 DEF AtEnd
  <2>2. New = 0 /\ Asked = 0 /\ Depth >= 1
    BY <1>4, <1>10, CodecFacts, Numbers DEF New, Asked, Depth
  <2>3. \A t \in Workers : ~(Dist(t) < 0)
    BY <1>3, Numbers DEF Dist, Workers
  <2>4. RingAt(0)
    <3>1. T - FFV1 \in Int
      BY <1>10, CodecFacts, Numbers
    <3> QED BY <1>3, <1>4, <1>8, <2>2, <2>3, <3>1, Numbers DEF RingAt, Depth
  <2> QED BY <1>1, <2>1, <2>4 DEF RingInv
<1>14. ASSUME NEW t \in Workers PROVE StateInv(t) /\ HwInv(t) /\ ReadyInv(t) /\ SetupInv(t)
  BY <1>4, <1>5, <1>8, <1>14
     DEF NewPacketState, StateInv, HwInv, ReadyInv, SetupInv, Ready, Open, Asking, AllParked
<1> QED BY <1>10, <1>11, <1>12, <1>13, <1>14 DEF FrameInv

(* The inductive invariant of frame threading: what each thread is about,  *)
(* the ring of packets under way and the context that is handed on.        *)
THEOREM FrameCorrect == Spec => []FrameInv
BY FrameStarts, FrameStep, PTL DEF Spec
-----------------------------------------------------------------------------
LEMMA HwaccelFollows ==
  ASSUME FrameInv PROVE HwaccelExclusive
<1>1. ASSUME NEW t \in HwRunning
      PROVE  t \in Workers /\ hwaccel_mutex = t /\ (~AsyncSafe => async_lock = t)
  BY <1>1 DEF HwRunning, FrameInv, HwInv
<1>2. Cardinality(HwRunning) <= 1
  <2>1. CASE HwRunning = {}
    BY <2>1, FS_EmptySet
  <2>2. CASE HwRunning # {}
    <3>1. PICK t \in HwRunning : TRUE
      BY <2>2
    <3>2. HwRunning = {t}
      BY <1>1, <3>1
    <3>3. Cardinality({t}) = 1
      BY FS_Singleton
    <3> QED BY <3>2, <3>3
  <2> QED BY <2>1, <2>2
<1>3. m.pc = "user" => async_lock = Main
  BY DEF FrameInv, CallerInv
<1>4. HwRunning # {} /\ ~AsyncSafe => m.pc # "user"
  BY <1>1, <1>3, Numbers
<1>5. \A t \in Workers : p[t].serializing => async_lock = t
  BY DEF FrameInv, HwInv
<1> QED BY <1>2, <1>3, <1>4, <1>5 DEF HwaccelExclusive

(* Hardware decoding is serialized with any number of threads: one of them *)
(* at a time, and with a hwaccel that is not async safe never while the    *)
(* caller is outside the decoder (hwaccel_mutex and fctx->async_lock).     *)
THEOREM HwaccelSerialized == Spec => []HwaccelExclusive
BY FrameCorrect, HwaccelFollows, PTL

LEMMA SerialFollows ==
  ASSUME FrameInv PROVE SerialContext
<1>1. ASSUME NEW t \in InSetup
      PROVE  /\ t \in Workers /\ t = Latest
             /\ HasUpdate /\ p[t].pc # "format" => p[t].ctx = h.stream
  <2>1. t \in Workers /\ p[t].state \in Open
    BY DEF InSetup, Open, Asking
  <2>2. t = Latest
    BY <2>1 DEF FrameInv, SetupInv
  <2> QED BY <2>1, <2>2, SetupOnStream
<1>2. Cardinality(InSetup) <= 1
  <2>1. CASE InSetup = {}
    BY <2>1, FS_EmptySet
  <2>2. CASE InSetup # {}
    <3>1. PICK t \in InSetup : TRUE
      BY <2>2
    <3>2. InSetup = {t}
      BY <1>1, <3>1
    <3>3. Cardinality({t}) = 1
      BY FS_Singleton
    <3> QED BY <3>2, <3>3
  <2> QED BY <2>1, <2>2
<1> QED BY <1>1, <1>2 DEF SerialContext

(* One thread at a time is in its setup, on the context that a decoder     *)
(* without threads would have there (update_context_from_thread and        *)
(* ff_thread_finish_setup), across flushes and failed submissions.         *)
THEOREM ContextIsSerial == Spec => []SerialContext
BY FrameCorrect, SerialFollows, PTL
-----------------------------------------------------------------------------
(* Only submit_packet gives a thread a packet. *)
LEMMA WorkersKeepPackets ==
  ASSUME FrameInv, NEW t \in Workers, NEW w \in Workers, WorkerStep(w)
  PROVE  p'[t].pkt = p[t].pkt
<1>1. p \in [Workers -> PerThread] /\ p[w] \in PerThread
  BY WorkerInvariants
<1>2. CASE t # w
  BY <1>1, <1>2
     DEF WorkerStep, WaitInput, WorkerTo, StartDecode, DecodeNull, DecodeFail, GetFormat, GotFormat,
         GetBuffer, AwaitBuffer, GotBuffer, FinishSetupHwaccel, FinishSetupAsync, FinishSetup,
         AwaitProgress, ReportProgress, WorkFail, WorkDone, DecodeDone, Unlock, AsyncUnlock, Publish
<1>3. CASE t = w
  <2>1. CASE WaitInput(w) \/ StartDecode(w) \/ DecodeDone(w) \/ AsyncUnlock(w)
    BY <1>1, <1>3, <2>1 DEF PerThread, WaitInput, WorkerTo, StartDecode, DecodeDone, AsyncUnlock
  <2>2. CASE DecodeNull(w) \/ DecodeFail(w) \/ WorkFail(w) \/ WorkDone(w) \/ ReportProgress(w)
    BY <1>1, <1>3, <2>2
       DEF PerThread, DecodeNull, DecodeFail, WorkFail, WorkDone, ReportProgress
  <2>3. CASE GetFormat(w) \/ GotFormat(w)
    BY <1>1, <1>3, <2>3 DEF PerThread, Contexts, GetFormat, GotFormat, WorkerTo
  <2>4. CASE GetBuffer(w) \/ AwaitBuffer(w) \/ GotBuffer(w)
    BY <1>1, <1>3, <2>4 DEF PerThread, Contexts, GetBuffer, AwaitBuffer, GotBuffer, WorkerTo
  <2>5. CASE FinishSetupHwaccel(w) \/ FinishSetupAsync(w) \/ FinishSetup(w)
    BY <1>1, <1>3, <2>5 DEF PerThread, FinishSetupHwaccel, FinishSetupAsync, FinishSetup
  <2>6. CASE AwaitProgress(w) \/ Unlock(w) \/ Publish(w)
    BY <1>1, <1>3, <2>6 DEF PerThread, AwaitProgress, Unlock, WorkerTo, Publish
  <2> QED BY <2>1, <2>2, <2>3, <2>4, <2>5, <2>6 DEF WorkerStep
<1> QED BY <1>2, <1>3

LEMMA MainKeepsPackets ==
  ASSUME FrameInv, NEW t \in Workers,
         SubmitLock \/ SubmitRelease \/ SubmitAwaitSetup \/ SubmitCopy \/ SubmitServe \/ Submitted
           \/ Collect \/ Finish \/ Park \/ Parked \/ Flush \/ FreeStart \/ Kill \/ Join
  PROVE  p'[t].pkt = p[t].pkt
<1>1. p \in [Workers -> PerThread] /\ p[t] \in PerThread
  BY WorkerInvariants
<1>2. CASE SubmitLock \/ SubmitAwaitSetup \/ Submitted \/ Finish \/ Parked
  BY <1>2 DEF SubmitLock, SubmitAwaitSetup, Submitted, Finish, Parked
<1>3. CASE SubmitRelease
  BY <1>1, <1>3 DEF SubmitRelease, PerThread
<1>4. CASE SubmitCopy
  BY <1>1, <1>4 DEF SubmitCopy, PerThread
<1>5. CASE SubmitServe
  <2> DEFINE d == f.next_decoding
  <2>1. \/ p' = p
        \/ \E r \in Results : p' = [p EXCEPT ![d].state = "SETTING_UP", ![d].res = r]
        \/ \E hw \in HwChoices : p' = [p EXCEPT ![d].state = "SETTING_UP", ![d].ctx.hw = hw]
    BY <1>5 DEF SubmitServe, Results
  <2> HIDE DEF d
  <2>2. ASSUME NEW r, p' = [p EXCEPT ![d].state = "SETTING_UP", ![d].res = r]
        PROVE  p'[t].pkt = p[t].pkt
    BY <1>1, <2>2 DEF PerThread
  <2>3. ASSUME NEW hw, p' = [p EXCEPT ![d].state = "SETTING_UP", ![d].ctx.hw = hw]
        PROVE  p'[t].pkt = p[t].pkt
    BY <1>1, <2>3 DEF PerThread, Contexts
  <2> QED BY <2>1, <2>2, <2>3
<1>6. CASE Collect
  BY <1>1, <1>6 DEF Collect, PerThread
<1>7. CASE Park
  BY <1>1, <1>7 DEF Park, PerThread
<1>8. CASE Kill \/ Join
  BY <1>1, <1>8 DEF Kill, Join, PerThread
<1>9. CASE Flush \/ FreeStart
  <2> DEFINE q == FinalContext(p)
  <2>1. /\ q \in [Workers -> PerThread] /\ q[t] = [p[t] EXCEPT !.ctx = q[t].ctx]
    BY <1>9, FinalContextIs DEF Flush, FreeStart, AllParked
  <2>2. q[t] \in PerThread /\ q[t].pkt = p[t].pkt
    <3>1. PICK c : q[t] = [p[t] EXCEPT !.ctx = c]
      BY <2>1
    <3> QED BY <1>1, <2>1, <3>1 DEF PerThread
  <2>3. CASE FreeStart
    BY <2>2, <2>3 DEF FreeStart
  <2>4. CASE Flush
    <3>1. p'[t] = [q[t] EXCEPT !.res = "none", !.released = 0, !.ctx.last = 0]
      BY <2>4 DEF Flush
    <3> HIDE DEF q
    <3> QED BY <2>2, <3>1 DEF PerThread, Contexts
  <2> QED BY <1>9, <2>3, <2>4
<1> QED BY <1>2, <1>3, <1>4, <1>5, <1>6, <1>7, <1>8, <1>9

LEMMA PacketsGoToFreeThreads ==
  ASSUME FrameInv, [Next]_vars, NEW t \in Workers, p'[t].pkt # p[t].pkt
  PROVE  h.pend[t] = 0 /\ Ready(t)
<1>1. CASE SubmitPacket
  <2>1. /\ f.next_decoding \in Workers /\ h.pend[f.next_decoding] = 0 /\ Ready(f.next_decoding)
    BY <1>1, NextIsFree DEF SubmitPacket, Submitting
  <2>2. ASSUME t # f.next_decoding PROVE p'[t] = p[t]
    <3>1. p \in [Workers -> PerThread]
      BY WorkerInvariants
    <3> QED BY <1>1, <2>1, <2>2, <3>1 DEF SubmitPacket
  <2> QED BY <2>1, <2>2
<1>2. CASE ~SubmitPacket /\ MainStep
  BY <1>2, MainKeepsPackets DEF MainStep
<1>3. CASE \E w \in Workers : WorkerStep(w)
  BY <1>3, WorkersKeepPackets
<1>4. CASE Call \/ SpuriousWake \/ Freed \/ UNCHANGED vars
  BY <1>4 DEF Call, DecodeCall, ParkCall, SpuriousWake, Freed, vars
<1> QED BY <1>1, <1>2, <1>3, <1>4 DEF Next

(* submit_packet never hands a packet to a thread that still works or      *)
(* whose last result has not been taken, although it does not look.        *)
THEOREM PacketsOverwriteNothing == Spec => NoResultOverwritten
<1>1. FrameInv /\ [Next]_vars
        => [\A t \in Workers : p'[t].pkt # p[t].pkt => h.pend[t] = 0 /\ Ready(t)]_vars
  BY PacketsGoToFreeThreads
<1> QED BY <1>1, FrameCorrect, PTL DEF Spec, NoResultOverwritten
-----------------------------------------------------------------------------
(* The packets under way, oldest first, as the pipeline of a decoder.      *)
Queue == {k \in 1 .. MaxSub : Held(k)}

LEMMA QueueIs ==
  ASSUME FrameInv, NEW c \in 0 .. T, RingAt(c)
  PROVE  /\ Asked \in 0 .. T - 1 /\ h.sub \in Nat /\ c <= h.sub
         /\ Queue = h.sub - c + Asked + 1 .. h.sub
<1>1. MainOK /\ RingOK /\ HistoryOK /\ CallInv
  BY MainInvariants
<1>2. f.next_finished \in 0 .. T - 1 /\ h.sub \in 0 .. MaxSub /\ c <= h.sub
  BY <1>1 DEF RingOK, HistoryOK, Workers, RingAt
<1>3. \A t \in Workers : Dist(t) \in 0 .. T - 1
  BY <1>2, Numbers DEF Dist, Workers
<1>4. Asked \in 0 .. T - 1
  <2>1. m.pc = "collect" => m.cur \in Workers
    BY <1>1, Numbers DEF MainOK, CallInv, Workers
  <2> QED BY <1>3, <2>1, Numbers DEF Asked
<1>5. \A t \in Workers :
        h.pend[t] = IF Asked <= Dist(t) /\ Dist(t) < c THEN h.sub - c + Dist(t) + 1 ELSE 0
  BY DEF RingAt
<1>6. ASSUME NEW k \in Queue PROVE k \in h.sub - c + Asked + 1 .. h.sub
  <2>1. k \in 1 .. MaxSub
    BY DEF Queue
  <2>2. PICK t \in Workers : h.pend[t] = k
    BY DEF Queue, Held
  <2>3. Dist(t) \in 0 .. T - 1 /\ Asked <= Dist(t) /\ Dist(t) < c /\ k = h.sub - c + Dist(t) + 1
    BY <1>3, <1>5, <2>1, <2>2
  <2> QED BY <1>2, <1>4, <2>1, <2>3, Numbers
<1>7. ASSUME NEW k \in h.sub - c + Asked + 1 .. h.sub PROVE k \in Queue
  <2> DEFINE e == k - h.sub + c - 1
             t == IF f.next_finished + e < T THEN f.next_finished + e ELSE f.next_finished + e - T
  <2>1. e \in Asked .. c - 1 /\ e \in 0 .. T - 1 /\ k \in 1 .. MaxSub
    BY <1>2, <1>4, <1>7, Numbers
  <2>2. t \in Workers /\ Dist(t) = e
    BY <1>2, <2>1, Numbers DEF Workers, Dist
  <2>3. h.pend[t] = h.sub - c + e + 1
    BY <1>2, <1>4, <1>5, <2>1, <2>2, Numbers
  <2>4. h.pend[t] = k
    BY <1>2, <1>7, <2>3, Numbers
  <2> QED BY <2>1, <2>2, <2>4 DEF Queue, Held
<1>8. Queue = h.sub - c + Asked + 1 .. h.sub
  <2> DEFINE I == h.sub - c + Asked + 1 .. h.sub
  <2>1. Queue \subseteq I /\ I \subseteq Queue
    BY <1>6, <1>7
  <2> HIDE DEF I
  <2>2. Queue = I
    BY <2>1, Zenon
  <2> QED BY <2>2 DEF I
<1> QED BY <1>2, <1>4, <1>8, Numbers

LEMMA CodecStays ==
  ASSUME FrameInv, [Next]_vars PROVE T - FFV1' = T - FFV1
<1>1. RingOK
  BY MainInvariants
<1>2. f'.codec = f.codec
  <2>1. CASE Call \/ (\E t \in Workers : WorkerStep(t)) \/ SpuriousWake \/ Freed \/ UNCHANGED vars
    BY <2>1
       DEF Call, DecodeCall, ParkCall, SpuriousWake, Freed, vars,
           WorkerStep, WaitInput, WorkerTo, StartDecode, DecodeNull, DecodeFail, GetFormat, GotFormat,
           GetBuffer, AwaitBuffer, GotBuffer, FinishSetupHwaccel, FinishSetupAsync, FinishSetup,
           AwaitProgress, ReportProgress, WorkFail, WorkDone, DecodeDone, Unlock, AsyncUnlock, Publish
  <2>2. CASE Submitted \/ Collect \/ Flush
    BY <1>1, <2>2 DEF RingOK, Submitted, Collect, Flush
  <2>3. CASE MainStep /\ ~(Submitted \/ Collect \/ Flush)
    BY <2>3 DEF MainStep, SubmitLock, SubmitRelease, SubmitAwaitSetup, SubmitCopy, SubmitPacket,
         SubmitServe, Finish, Park, Parked, FreeStart, Kill, Join
  <2> QED BY <2>1, <2>2, <2>3 DEF Next
<1> QED BY <1>2 DEF FFV1

(* What the pipeline does not see. *)
SameHistory == /\ h'.pend = h.pend /\ h'.sub = h.sub /\ h'.taken = h.taken
               /\ h'.draining = h.draining /\ h'.eof = h.eof

LEMMA Unseen ==
  ASSUME SameHistory, T - FFV1' = T - FFV1 PROVE UNCHANGED Pipeline!vars
BY DEF SameHistory, Held, Pipeline!vars

LEMMA UnseenSteps ==
  ASSUME FrameInv, [Next]_vars,
         ~(SubmitPacket \/ Collect \/ Finish \/ Flush \/ \E call \in {"data", "null"} : DecodeCall(call))
  PROVE  SameHistory
<1>1. HistoryOK
  BY MainInvariants
<1>2. CASE \E call \in {"flush", "free"} : ParkCall(call)
  BY <1>2 DEF ParkCall, SameHistory
<1>3. CASE MainStep
  BY <1>3 DEF MainStep, SubmitLock, SubmitRelease, SubmitAwaitSetup, SubmitCopy,
       SubmitServe, Submitted, Park, Parked, FreeStart, Kill, Join, SameHistory
<1>4. CASE \E t \in Workers : WorkerStep(t)
  <2>1. PICK t \in Workers : WorkerStep(t)
    BY <1>4
  <2>2. CASE GetFormat(t)
    <3>1. h' = h \/ \E hw \in HwChoices : h' = [h EXCEPT !.stream.hw = hw]
      BY <2>2 DEF GetFormat
    <3> QED BY <1>1, <3>1 DEF HistoryOK, SameHistory
  <2>3. CASE GotFormat(t)
    BY <1>1, <2>3 DEF HistoryOK, SameHistory, GotFormat
  <2>4. CASE GotBuffer(t)
    BY <1>1, <2>4 DEF HistoryOK, SameHistory, GotBuffer
  <2>5. CASE ~(GetFormat(t) \/ GotFormat(t) \/ GotBuffer(t))
    <3>1. h' = h
      BY <2>1, <2>5
         DEF WorkerStep, WaitInput, StartDecode, DecodeNull, DecodeFail, GetBuffer, AwaitBuffer,
             FinishSetupHwaccel, FinishSetupAsync, FinishSetup, AwaitProgress, ReportProgress,
             WorkFail, WorkDone, DecodeDone, Unlock, AsyncUnlock, Publish
    <3> QED BY <3>1 DEF SameHistory
  <2> QED BY <2>2, <2>3, <2>4, <2>5
<1>5. CASE SpuriousWake \/ Freed \/ UNCHANGED vars
  BY <1>5 DEF SpuriousWake, Freed, vars, SameHistory
<1> QED BY <1>2, <1>3, <1>4, <1>5 DEF Next, Call

(* The instance has a Cardinality of its own. *)
LEMMA PipelineCardinality == \A S : Pipeline!Cardinality(S) = Cardinality(S)
BY Zenon DEF Pipeline!Cardinality, Cardinality

(* The steps of the pipeline. *)
LEMMA DecodeCallDrains ==
  ASSUME FrameInv, NEW call \in {"data", "null"}, DecodeCall(call), T - FFV1' = T - FFV1
  PROVE  Pipeline!Drain \/ UNCHANGED Pipeline!vars
<1>1. HistoryOK
  BY MainInvariants
<1>2. h' = [h EXCEPT !.draining = (call = "null")] /\ (h.draining => call = "null")
  BY DEF DecodeCall
<1>3. /\ h'.pend = h.pend /\ h'.sub = h.sub /\ h'.taken = h.taken /\ h'.eof = h.eof
      /\ h'.draining = (call = "null") /\ h.draining \in BOOLEAN
  BY <1>1, <1>2 DEF HistoryOK
<1>4. CASE call = "null"
  BY <1>3, <1>4 DEF Held, Pipeline!Drain
<1>5. CASE call # "null"
  BY <1>2, <1>3, <1>5, Unseen DEF SameHistory
<1> QED BY <1>4, <1>5

LEMMA SubmitEnters ==
  ASSUME FrameInv, SubmitPacket, T - FFV1' = T - FFV1
  PROVE  Pipeline!Submit \/ UNCHANGED Pipeline!vars
<1>1. HistoryOK /\ CallInv /\ TypeOK
  BY DEF FrameInv, TypeOK
<1> DEFINE d == f.next_decoding
           k == h.sub + 1
<1>2. /\ m.pc = "packet" /\ d \in Workers /\ h.pend[d] = 0 /\ h.sub < MaxSub /\ ~h.eof
  BY <1>1, NextIsFree DEF SubmitPacket, Submitting, CallInv, InCall
<1>3. CASE h' = h
  BY <1>3, Unseen DEF SameHistory
<1>4. CASE h' # h
  <2>1. PICK nulls : h' = [h EXCEPT !.sub = k, !.pend[d] = k, !.nulls = nulls]
    BY <1>1, <1>4 DEF SubmitPacket, HistoryOK
  <2>2. /\ h'.pend = [h.pend EXCEPT ![d] = k] /\ h'.sub = h.sub + 1 /\ h'.taken = h.taken
        /\ h'.eof = h.eof /\ h'.draining = h.draining
    BY <1>1, <2>1 DEF HistoryOK
  <2>3. h.sub \in Nat /\ k \in 1 .. MaxSub /\ h.pend \in [Workers -> Nat]
    BY <1>1, <1>2, Numbers DEF HistoryOK
  <2>4. Queue' = Queue \cup {k}
    <3>1. h'.pend[d] = k /\ \A t \in Workers \ {d} : h'.pend[t] = h.pend[t]
      BY <1>2, <2>2, <2>3
    <3>2. ASSUME NEW j \in 1 .. MaxSub PROVE Held(j)' <=> Held(j) \/ j = k
      BY <1>2, <3>1, <3>2 DEF Held
    <3> QED BY <2>3, <3>2 DEF Queue
  <2>5. ~h.draining => Cardinality(Queue) < T - FFV1
    <3>1. ~AtEnd
      BY <1>2 DEF AtEnd
    <3>2. PICK c \in 0 .. T : RingAt(c)
      BY <3>1 DEF FrameInv, RingInv
    <3>3. Asked = 0 /\ New = 0 /\ FFV1 \in {0, 1}
      BY <1>1, <1>2, CodecFacts DEF Asked, New
    <3>4. ~h.draining => c < T - FFV1
      BY <1>2, <3>2, <3>3, Numbers DEF RingAt, Depth
    <3>5. Queue = h.sub - c + 1 .. h.sub /\ c <= h.sub
      BY <2>3, <3>2, <3>3, QueueIs, Numbers
    <3>6. Cardinality(Queue) = c
      <4>1. h.sub - c + 1 \in Int /\ h.sub \in Int /\ c >= 0
        BY <2>3
      <4>2. Cardinality(h.sub - c + 1 .. h.sub)
              = IF h.sub - c + 1 > h.sub THEN 0 ELSE h.sub - (h.sub - c + 1) + 1
        BY <4>1, FS_Interval
      <4> QED BY <2>3, <3>5, <4>1, <4>2
    <3> QED BY <3>4, <3>6
  <2> HIDE DEF k
  <2>6. /\ h.sub < MaxSub /\ ~h.eof
        /\ ~h.draining => Pipeline!Cardinality(Queue) < T - FFV1
        /\ h'.sub = h.sub + 1 /\ Queue' = Queue \cup {h.sub + 1}
        /\ UNCHANGED <<h.taken, h.draining, h.eof, T - FFV1>>
    BY <1>2, <2>2, <2>4, <2>5, PipelineCardinality DEF k
  <2> QED BY <2>6, Zenon DEF Queue, Pipeline!Submit
<1> QED BY <1>3, <1>4

LEMMA CollectLeaves ==
  ASSUME FrameInv, Collect, T - FFV1' = T - FFV1
  PROVE  Pipeline!Deliver \/ UNCHANGED Pipeline!vars
<1>1. HistoryOK /\ CallInv /\ TypeOK /\ MainOK /\ RingOK
  BY DEF FrameInv, TypeOK
<1> DEFINE w == m.cur
           k == h.pend[w]
<1>2. m.pc = "collect" /\ w \in Workers /\ ~h.eof /\ ~AtEnd
  BY <1>1, Numbers DEF Collect, MainOK, CallInv, InCall, Workers, AtEnd
<1>3. \/ h' = h
      \/ h' = [h EXCEPT !.pend[w] = 0, !.taken = IF k = 0 THEN @ ELSE Append(@, k)]
  BY DEF Collect
<1>4. CASE h' = h
  BY <1>4, Unseen DEF SameHistory
<1>5. CASE h' # h
  <2>1. /\ h'.pend = [h.pend EXCEPT ![w] = 0] /\ h'.sub = h.sub
        /\ h'.taken = (IF k = 0 THEN h.taken ELSE Append(h.taken, k))
        /\ h'.eof = h.eof /\ h'.draining = h.draining
    BY <1>1, <1>3, <1>5 DEF HistoryOK
  <2>2. h.sub \in Nat /\ h.pend \in [Workers -> Nat] /\ k \in Nat
    BY <1>1, <1>2 DEF HistoryOK
  <2>3. CASE k = 0
    BY <1>2, <2>1, <2>2, <2>3, Unseen DEF SameHistory
  <2>4. CASE k # 0
    <3>1. PICK c \in 0 .. T : RingAt(c)
      BY <1>2 DEF FrameInv, RingInv
    <3>2. Asked = Dist(w) /\ FFV1 \in {0, 1} /\ f.next_finished \in 0 .. T - 1
      BY <1>1, <1>2, CodecFacts DEF Asked, RingOK, Workers
    <3>3. /\ Asked \in 0 .. T - 1 /\ c <= h.sub
          /\ Queue = h.sub - c + Asked + 1 .. h.sub
      BY <3>1, QueueIs
    <3>4. \A t \in Workers :
            h.pend[t] = IF Asked <= Dist(t) /\ Dist(t) < c THEN h.sub - c + Dist(t) + 1 ELSE 0
      BY <3>1 DEF RingAt
    <3>5. Asked < c /\ k = h.sub - c + Asked + 1
      BY <1>2, <2>4, <3>2, <3>4
    <3>6. k \in Queue /\ \A j \in Queue : k <= j
      BY <2>2, <3>3, <3>5
    <3>7. ASSUME NEW t \in Workers, h.pend[t] = k PROVE t = w
      <4>1. Dist(t) \in Int
        BY <3>2, <3>7, Numbers DEF Dist, Workers
      <4>2. h.pend[t] = h.sub - c + Dist(t) + 1
        BY <2>4, <3>4, <3>7
      <4>3. Dist(t) = Dist(w)
        BY <2>2, <3>2, <3>3, <3>5, <3>7, <4>1, <4>2
      <4> QED BY <1>2, <3>2, <3>7, <4>3, Numbers DEF Dist, Workers
    <3>8. Queue' = Queue \ {k}
      <4>1. h'.pend[w] = 0 /\ \A t \in Workers \ {w} : h'.pend[t] = h.pend[t]
        BY <1>2, <2>1, <2>2
      <4>2. ASSUME NEW j \in 1 .. MaxSub PROVE Held(j)' <=> Held(j) /\ j # k
        BY <1>2, <3>7, <4>1, <4>2 DEF Held
      <4> QED BY <4>2 DEF Queue
    <3>9. h.draining \/ Cardinality(Queue) = T - FFV1
      <4>1. ~h.draining => c = T - FFV1 /\ Asked = 0
        BY <1>2, <3>1 DEF RingAt, Depth
      <4>2. Asked = 0 => Cardinality(Queue) = c
        <5>1. h.sub - c + 1 \in Int /\ h.sub \in Int /\ c >= 0
          BY <2>2
        <5>2. Cardinality(h.sub - c + 1 .. h.sub)
                = IF h.sub - c + 1 > h.sub THEN 0 ELSE h.sub - (h.sub - c + 1) + 1
          BY <5>1, FS_Interval
        <5>3. Asked = 0 => Queue = h.sub - c + 1 .. h.sub
          BY <3>3, <5>1
        <5> QED BY <2>2, <5>1, <5>2, <5>3
      <4> QED BY <4>1, <4>2
    <3> HIDE DEF k
    <3>10. /\ h.draining \/ Pipeline!Cardinality(Queue) = T - FFV1
           /\ \E i \in Queue : /\ \A j \in Queue : i <= j
                             /\ Queue' = Queue \ {i}
                             /\ h'.taken = Pipeline!Append(h.taken, i)
           /\ UNCHANGED <<h.sub, h.draining, h.eof, T - FFV1>>
      BY <2>1, <2>4, <3>6, <3>8, <3>9, PipelineCardinality
    <3> QED BY <3>10, Zenon DEF Queue, Pipeline!Deliver
  <2> QED BY <2>3, <2>4
<1> QED BY <1>4, <1>5

LEMMA FinishEnds ==
  ASSUME FrameInv, Finish, FrameInv', T - FFV1' = T - FFV1
  PROVE  Pipeline!End \/ UNCHANGED Pipeline!vars
<1>1. HistoryOK /\ CallInv
  BY MainInvariants
<1>2. m.pc = "finish" /\ h' = [h EXCEPT !.eof = m.call = "null" /\ m.out = "none"]
  BY DEF Finish
<1>3. /\ h'.pend = h.pend /\ h'.sub = h.sub /\ h'.taken = h.taken /\ h'.draining = h.draining
      /\ h'.eof = (m.call = "null" /\ m.out = "none") /\ h.eof = FALSE
  BY <1>1, <1>2 DEF HistoryOK, CallInv, InCall
<1>4. CASE m.call = "null" /\ m.out = "none"
  <2>1. \A t \in Workers : h.pend[t] = 0
    BY <1>2, <1>4 DEF FrameInv, RingInv, AtEnd
  <2>2. {k \in 1 .. MaxSub : Held(k)} = {}
    BY <2>1, Numbers DEF Held
  <2>3. h.draining
    BY <1>1, <1>2, <1>4 DEF CallInv, InCall
  <2> QED BY <1>3, <1>4, <2>2, <2>3 DEF Held, Pipeline!End
<1>5. CASE ~(m.call = "null" /\ m.out = "none")
  BY <1>3, <1>5, Unseen DEF SameHistory
<1> QED BY <1>4, <1>5

LEMMA FlushEmpties ==
  ASSUME FrameInv, Flush, T - FFV1' = T - FFV1
  PROVE  Pipeline!Flush
<1>1. HistoryOK
  BY MainInvariants
<1>2. h' = [h EXCEPT !.pend = [t \in Workers |-> 0], !.stream.last = 0,
                     !.draining = FALSE, !.eof = FALSE, !.flushes = @ + 1]
  BY DEF Flush
<1>3. /\ h'.pend = [t \in Workers |-> 0] /\ h'.sub = h.sub /\ h'.taken = h.taken
      /\ h'.draining = FALSE /\ h'.eof = FALSE
  BY <1>1, <1>2 DEF HistoryOK
<1>4. {k \in 1 .. MaxSub : Held(k)}' = {}
  BY <1>3, Numbers DEF Held
<1> QED BY <1>3, <1>4 DEF Pipeline!Flush

LEMMA PipelineStep ==
  ASSUME FrameInv, [Next]_vars, FrameInv' PROVE [Pipeline!Next]_(Pipeline!vars)
<1>1. T - FFV1' = T - FFV1
  BY CodecStays
<1>2. CASE SubmitPacket
  BY <1>1, <1>2, SubmitEnters DEF Pipeline!Next
<1>3. CASE Collect
  BY <1>1, <1>3, CollectLeaves DEF Pipeline!Next
<1>4. CASE Finish
  BY <1>1, <1>4, FinishEnds DEF Pipeline!Next
<1>5. CASE Flush
  BY <1>1, <1>5, FlushEmpties DEF Pipeline!Next
<1>6. CASE \E call \in {"data", "null"} : DecodeCall(call)
  BY <1>1, <1>6, DecodeCallDrains DEF Pipeline!Next
<1>7. CASE ~(SubmitPacket \/ Collect \/ Finish \/ Flush
             \/ \E call \in {"data", "null"} : DecodeCall(call))
  BY <1>1, <1>7, UnseenSteps, Unseen
<1> QED BY <1>2, <1>3, <1>4, <1>5, <1>6, <1>7

LEMMA PipelineStarts ==
  ASSUME Init PROVE Pipeline!Init
<1>1. FrameInv
  BY FrameStarts
<1>2. h.sub = 0 /\ h.taken = <<>> /\ h.draining = FALSE /\ h.eof = FALSE
      /\ \A t \in Workers : h.pend[t] = 0
  BY DEF Init
<1>3. {k \in 1 .. MaxSub : Held(k)} = {}
  BY <1>2, Numbers DEF Held
<1>4. T - FFV1 \in 1 .. T
  BY <1>1, CodecFacts, Numbers DEF FrameInv
<1> QED BY <1>2, <1>3, <1>4 DEF Pipeline!Init

(* Frame threading refines a serial decoder with a delay, for any number   *)
(* of threads and kind of codec: results leave in the order of submission, *)
(* only out of a full pipeline or a draining one, and the end of the       *)
(* stream is answered only when nothing is under way.                      *)
THEOREM FrameThreadIsPipeline == Spec => ImplementsPipeline
<1>1. FrameInv /\ FrameInv' /\ [Next]_vars => [Pipeline!Next]_(Pipeline!vars)
  BY PipelineStep
<1> QED BY <1>1, FrameCorrect, PipelineStarts, PTL DEF Spec, ImplementsPipeline, Pipeline!Spec
=============================================================================
