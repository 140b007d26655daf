------------------------- MODULE FrameThreadEncoder -------------------------
(***************************************************************************)
(* libavcodec/frame_thread_encoder.c: intra-only encoders that encode      *)
(* several frames at once, under the send and receive functions of         *)
(* libavcodec/encode.c.  The caller hands frames to the workers through    *)
(* the task FIFO and takes the results, in the order of the frames, from a *)
(* ring indexed by two counters that wrap around.                          *)
(*                                                                         *)
(* A critical section is one step.  None of these encoders has             *)
(* AV_CODEC_CAP_DELAY, so announcing the end of the stream starts no       *)
(* encoding of its own.                                                    *)
(***************************************************************************)
EXTENDS Integers, Sequences, FiniteSets

CONSTANTS BUFFER_SIZE,   \* size of the ring of results, twice MAX_THREADS
          ThreadCounts,  \* the values of avctx->thread_count
          MaxFrames      \* bound: frames that are submitted

MAX_THREADS == BUFFER_SIZE \div 2

Workers == 0 .. MAX_THREADS - 1
Frames == 1 .. MaxFrames
Outcomes == {"packet", "none", "error"}

VARIABLES
  call,       \* where the caller is
  api,        \* the function it is in, and whether it brought a frame
  threads,    \* avctx->thread_count
  wpc,        \* wpc[w]: where worker w is
  task,       \* task[w]: its local task
  task_fifo,  \* c->task_fifo
  taskWait,   \* workers in pthread_cond_wait on task_fifo_cond
  exit,       \* c->exit
  finished_tasks, task_index, finished_task_index,
  finWait,    \* the caller is in pthread_cond_wait on finished_task_cond
  draining,   \* avctx->internal->draining
  buffer_pkt, \* the result kept in avctx->internal->buffer_pkt, or nothing
  ret,        \* what the last call returned
  submitted,  \* history: the number of frames submitted
  delivered,  \* history: the results taken from the ring, in order
  freed       \* history: <<what, frame>> for the frames that were encoded or
              \* discarded, and the packets that were discarded

callerVars == <<call, api, threads, draining, buffer_pkt, ret, submitted, delivered>>
workerVars == <<wpc, task>>
fifoVars == <<task_fifo, taskWait, exit>>
ringVars == <<finished_tasks, finWait>>
indices == <<task_index, finished_task_index>>
vars == <<callerVars, workerVars, fifoVars, ringVars, indices, freed>>

Nothing == [frame |-> 0, outcome |-> "nothing"]
NoTask == [index |-> 0, frame |-> 0]

Init ==
  /\ call = "create" /\ api = "none"
  /\ threads \in ThreadCounts
  /\ wpc = [w \in Workers |-> "none"] /\ task = [w \in Workers |-> NoTask]
  /\ task_fifo = <<>> /\ taskWait = {} /\ exit = FALSE
  /\ finished_tasks = [k \in 0 .. BUFFER_SIZE - 1 |-> Nothing]
  /\ finWait = FALSE
  /\ task_index = 0 /\ finished_task_index = 0
  /\ draining = FALSE /\ buffer_pkt = Nothing
  /\ ret = "none" /\ submitted = 0 /\ delivered = <<>> /\ freed = {}

Started == {w \in Workers : wpc[w] # "none"}
-----------------------------------------------------------------------------
(* ff_frame_thread_encoder_init: the workers are created one by one.  When *)
(* one cannot be, only those before it are counted, and freed.             *)
Create ==
  /\ call = "create"
  /\ \/ /\ Cardinality(Started) < threads
        /\ wpc' = [wpc EXCEPT ![Cardinality(Started)] = "top"]
        /\ UNCHANGED <<call, threads>>
     \/ /\ Cardinality(Started) = threads
        /\ call' = "idle" /\ UNCHANGED <<wpc, threads>>
     \/ /\ Cardinality(Started) < threads
        /\ threads' = Cardinality(Started)
        /\ call' = "free" /\ UNCHANGED wpc
  /\ UNCHANGED <<api, draining, buffer_pkt, ret, submitted, delivered, task, fifoVars,
                 ringVars, indices, freed>>

-----------------------------------------------------------------------------
(* worker: leave, or read a task, or wait for one ... *)
Goto(w, label) == wpc' = [wpc EXCEPT ![w] = label]

Top(w) ==
  /\ wpc[w] = "top"
  /\ Goto(w, IF exit THEN "gone" ELSE "fifo")
  /\ UNCHANGED <<callerVars, task, fifoVars, ringVars, indices, freed>>

GetTask(w) ==
  /\ wpc[w] = "fifo" /\ w \notin taskWait
  /\ \/ exit /\ Goto(w, "gone") /\ UNCHANGED <<task, task_fifo, taskWait>>
     \/ /\ ~exit /\ task_fifo = <<>>
        /\ taskWait' = taskWait \cup {w} /\ UNCHANGED <<wpc, task, task_fifo>>
     \/ /\ ~exit /\ task_fifo # <<>>
        /\ task' = [task EXCEPT ![w] = Head(task_fifo)]
        /\ task_fifo' = Tail(task_fifo)
        /\ Goto(w, "encode") /\ UNCHANGED taskWait
  /\ UNCHANGED <<callerVars, exit, ringVars, indices, freed>>

(* ... encode the frame and drop it, ... *)
Encode(w) ==
  /\ wpc[w] = "encode"
  /\ freed' = freed \cup {<<"encoded", task[w].frame>>}
  /\ Goto(w, "store")
  /\ UNCHANGED <<callerVars, task, fifoVars, ringVars, indices>>

(* Mutant of Store: the caller is not signalled. *)
StoreQuietly(w) ==
  /\ wpc[w] = "store"
  /\ \E outcome \in Outcomes :
       finished_tasks' = [finished_tasks EXCEPT ![task[w].index] =
                            [frame |-> task[w].frame, outcome |-> outcome]]
  /\ Goto(w, "top")
  /\ UNCHANGED <<callerVars, task, fifoVars, finWait, indices, freed>>

(* ... and store the result: a packet, none, or an error. *)
Store(w) ==
  /\ wpc[w] = "store"
  /\ \E outcome \in Outcomes :
       finished_tasks' = [finished_tasks EXCEPT ![task[w].index] =
                            [frame |-> task[w].frame, outcome |-> outcome]]
  /\ finWait' = FALSE
  /\ Goto(w, "top")
  /\ UNCHANGED <<callerVars, task, fifoVars, indices, freed>>

WorkerStep(w) == Top(w) \/ GetTask(w) \/ Encode(w) \/ Store(w)

-----------------------------------------------------------------------------
(* avcodec_send_frame and avcodec_receive_packet, as far as they return    *)
(* without encoding.                                                       *)
Answer(r) == ret' = r /\ UNCHANGED <<call, api>>

SendRefused ==
  /\ call = "idle"
  /\ \/ draining /\ Answer("EOF")
     \/ ~draining /\ buffer_pkt # Nothing /\ Answer("EAGAIN")
  /\ UNCHANGED <<threads, draining, buffer_pkt, submitted, delivered, workerVars, fifoVars,
                 ringVars, indices, freed>>

SendNull ==
  /\ call = "idle" /\ ~draining
  /\ draining' = TRUE /\ Answer("ok")
  /\ UNCHANGED <<threads, buffer_pkt, submitted, delivered, workerVars, fifoVars, ringVars,
                 indices, freed>>

ReceiveAtOnce ==
  /\ call = "idle"
  /\ \/ buffer_pkt # Nothing /\ Answer("packet") /\ buffer_pkt' = Nothing
     \/ buffer_pkt = Nothing /\ ~draining /\ Answer("EAGAIN") /\ UNCHANGED buffer_pkt
  /\ UNCHANGED <<threads, draining, submitted, delivered, workerVars, fifoVars, ringVars,
                 indices, freed>>

(* ff_thread_video_encode_frame with a frame: it is put into the task FIFO *)
(* and one worker is signalled.  No reference to the frame: nothing is.    *)
SignalTask == \/ taskWait = {} /\ UNCHANGED taskWait
              \/ \E w \in taskWait : taskWait' = taskWait \ {w}

SendFrame ==
  /\ call = "idle" /\ ~draining /\ buffer_pkt = Nothing
  /\ \/ Answer("error") /\ UNCHANGED <<task_fifo, taskWait, task_index, submitted>>
     \/ /\ submitted < MaxFrames /\ submitted' = submitted + 1
        /\ task_fifo' = Append(task_fifo, [index |-> task_index, frame |-> submitted + 1])
        /\ SignalTask
        /\ task_index' = (task_index + 1) % BUFFER_SIZE
        /\ call' = "take" /\ api' = "send" /\ UNCHANGED ret
  /\ UNCHANGED <<threads, draining, buffer_pkt, delivered, workerVars, exit, ringVars,
                 finished_task_index, freed>>

(* ... and without one, when the caller drains. *)
ReceiveDraining ==
  /\ call = "idle" /\ draining /\ buffer_pkt = Nothing
  /\ call' = "take" /\ api' = "receive"
  /\ UNCHANGED <<threads, draining, buffer_pkt, ret, submitted, delivered, workerVars,
                 fifoVars, ringVars, indices, freed>>

(* Take the oldest result; a call that brought a frame waits for it only   *)
(* when the workers have more than enough to do.                           *)
Oldest == finished_tasks[finished_task_index]
InRing == (task_index - finished_task_index) % BUFFER_SIZE

(* Mutant of NothingToTake: a whole ring is let through. *)
NothingToTakeFull == \/ task_index = finished_task_index
                     \/ api = "send" /\ Oldest = Nothing

NothingToTake == \/ task_index = finished_task_index
                 \/ api = "send" /\ Oldest = Nothing /\ InRing <= threads

TakeNothing ==
  /\ call = "take" /\ ~finWait /\ NothingToTake
  /\ ret' = IF api = "send" THEN "ok" ELSE "EOF"
  /\ call' = "idle" /\ api' = "none"
  /\ UNCHANGED <<threads, draining, buffer_pkt, submitted, delivered, workerVars,
                 fifoVars, ringVars, indices, freed>>

TakeWaits ==
  /\ call = "take" /\ ~finWait /\ ~NothingToTake /\ Oldest = Nothing
  /\ finWait' = TRUE
  /\ UNCHANGED <<callerVars, workerVars, fifoVars, finished_tasks, indices, freed>>

Take ==
  /\ call = "take" /\ ~finWait /\ ~NothingToTake /\ Oldest # Nothing
  /\ delivered' = Append(delivered, Oldest.frame)
  /\ finished_tasks' = [finished_tasks EXCEPT ![finished_task_index] = Nothing]
  /\ finished_task_index' = (finished_task_index + 1) % BUFFER_SIZE
  /\ \/ /\ Oldest.outcome = "packet"
        /\ IF api = "send" THEN buffer_pkt' = Oldest /\ ret' = "ok"
                           ELSE ret' = "packet" /\ UNCHANGED buffer_pkt
     \/ /\ Oldest.outcome = "none" /\ UNCHANGED buffer_pkt
        /\ ret' = IF api = "send" THEN "ok" ELSE "EOF"
     \/ Oldest.outcome = "error" /\ ret' = "error" /\ UNCHANGED buffer_pkt
  /\ call' = "idle" /\ api' = "none"
  /\ UNCHANGED <<threads, draining, submitted, workerVars, fifoVars, finWait,
                 task_index, freed>>

-----------------------------------------------------------------------------
(* ff_frame_thread_encoder_free, called by avcodec_close or after a failed *)
(* init: stop the workers, join those that were started, ...               *)
Free ==
  /\ call \in {"idle", "free"}
  /\ exit' = TRUE /\ taskWait' = {}
  /\ call' = "join" /\ ret' = "none"
  /\ UNCHANGED <<api, threads, draining, buffer_pkt, submitted, delivered, workerVars,
                 task_fifo, ringVars, indices, freed>>

(* Mutant of Discard: the frames of the task FIFO are forgotten. *)
DiscardPackets ==
  /\ freed' = freed \cup {<<"packet", finished_tasks[k].frame>> :
                            k \in {j \in DOMAIN finished_tasks : finished_tasks[j] # Nothing}}
  /\ task_fifo' = <<>>
  /\ finished_tasks' = [k \in DOMAIN finished_tasks |-> Nothing]

(* ... and free the frames and the packets that are left. *)
Discard ==
  /\ freed' = freed
       \cup {<<"discarded", task_fifo[k].frame>> : k \in DOMAIN task_fifo}
       \cup {<<"packet", finished_tasks[k].frame>> :
               k \in {j \in DOMAIN finished_tasks : finished_tasks[j] # Nothing}}
  /\ task_fifo' = <<>>
  /\ finished_tasks' = [k \in DOMAIN finished_tasks |-> Nothing]

Join ==
  /\ call = "join" /\ \A w \in Workers : w < threads => wpc[w] = "gone"
  /\ Discard /\ call' = "freed"
  /\ UNCHANGED <<api, threads, draining, buffer_pkt, ret, submitted, delivered, workerVars,
                 taskWait, exit, finWait, indices>>

SpuriousWake ==
  /\ \/ \E w \in taskWait : taskWait' = taskWait \ {w} /\ UNCHANGED finWait
     \/ finWait /\ finWait' = FALSE /\ UNCHANGED taskWait
  /\ UNCHANGED <<callerVars, workerVars, task_fifo, exit, finished_tasks, indices, freed>>

Freed == call = "freed" /\ UNCHANGED vars

Call == SendRefused \/ SendNull \/ ReceiveAtOnce \/ SendFrame \/ ReceiveDraining \/ Free
Continue == Create \/ TakeNothing \/ TakeWaits \/ Take \/ (call = "free" /\ Free) \/ Join

Next == Call \/ Continue \/ (\E w \in Workers : WorkerStep(w)) \/ SpuriousWake \/ Freed

-----------------------------------------------------------------------------
(* Whatever the order in which the workers finish, the results leave in    *)
(* the order of the frames, one for each frame; the task FIFO and the ring *)
(* are never asked to hold more than BUFFER_SIZE tasks, which nothing      *)
(* tests, since between two calls no more frames than workers are under    *)
(* way.                                                                    *)
Underway == submitted - Len(delivered)
ResultsInOrder ==
  /\ delivered = [k \in 1 .. Len(delivered) |-> k]
  /\ Len(task_fifo) <= BUFFER_SIZE
  /\ Underway <= (IF call = "take" THEN threads + 1 ELSE threads)

(* The caller is told that the stream has ended when every frame has been  *)
(* delivered, or right after a frame for which the encoder made no packet. *)
(* Errors of the encoder do not end the stream.                            *)
EndAfterAll ==
  call = "take" /\ api = "receive" /\ call' = "idle" /\ ret' = "EOF" =>
    Len(delivered') = submitted \/ Oldest.outcome = "none"

(* When the encoder is closed, every frame that was submitted has been     *)
(* freed once, by the worker that encoded it or by free, and every packet  *)
(* has been delivered or freed; no worker is left that could touch what is *)
(* destroyed.  The same holds after an incomplete init.                    *)
NothingLeaked ==
  call = "freed" =>
    /\ \A w \in Workers : wpc[w] \in {"none", "gone"}
    /\ \A k \in 1 .. submitted :
         /\ <<"encoded", k>> \in freed <=> <<"discarded", k>> \notin freed
         /\ (k <= Len(delivered) \/ <<"packet", k>> \in freed) <=> <<"encoded", k>> \in freed
         /\ ~(k <= Len(delivered) /\ <<"packet", k>> \in freed)

(* In send, receive, init or free. *)
Calling == call \notin {"idle", "freed"}
=============================================================================
