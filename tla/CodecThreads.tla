---------------------------- MODULE CodecThreads ----------------------------
(***************************************************************************)
(* The threads that avcodec_open2 gives a codec which is not decoded       *)
(* frame by frame: those of an encoder that encodes several frames at      *)
(* once, or else those that run the slices of a picture.  A codec has one  *)
(* kind; the threads of the other never start.  Filters and other codecs   *)
(* use the pools of SliceThread as well.                                   *)
(***************************************************************************)
EXTENDS Wavefront

CONSTANTS BUFFER_SIZE, ThreadCounts, MaxFrames   \* those of FrameThreadEncoder

ASSUME EncoderAssumption ==
  /\ BUFFER_SIZE \in Nat /\ BUFFER_SIZE % 2 = 0
  /\ ThreadCounts \subseteq 2 .. BUFFER_SIZE \div 2 /\ ThreadCounts # {}
  /\ MaxFrames \in Nat

VARIABLES call, api, threads, wpc, task, task_fifo, taskWait, exit, finished_tasks,
          task_index, finished_task_index, finWait, draining, buffer_pkt, ret,
          submitted, delivered, freed,   \* those of FrameThreadEncoder
          kind                           \* "slices" or "encoder"

E == INSTANCE FrameThreadEncoder

encoder == <<call, api, threads, wpc, task, task_fifo, taskWait, exit, finished_tasks,
             task_index, finished_task_index, finWait, draining, buffer_pkt, ret,
             submitted, delivered, freed>>
all == <<kind, allVars, encoder>>

CodecInit ==
  /\ kind \in {"slices", "encoder"}
  /\ WaveInit /\ E!Init
  /\ kind = "slices" => threads = CHOOSE n \in ThreadCounts : TRUE
  /\ kind = "encoder" => ~rows /\ ctx.main_func

Slices(A) == kind = "slices" /\ A /\ UNCHANGED <<kind, encoder>>
Encoder(A) == kind = "encoder" /\ A /\ UNCHANGED <<kind, allVars>>

CodecNext == Slices(WaveNext) \/ Encoder(E!Next)

(* Calls that have begun go on, and every worker that can run does; jobs   *)
(* and encoding end.  Nothing obliges the caller to make a call.           *)
CodecSpec ==
  /\ CodecInit /\ [][CodecNext]_all
  /\ WF_all(Slices(Owner) \/ Encoder(E!Continue))
  /\ \A t \in Workers : WF_all(Slices(Worker(t)) \/ Encoder(t \in E!Workers /\ E!WorkerStep(t)))
-----------------------------------------------------------------------------
(* create, execute and free of a pool return, and so do init, send,        *)
(* receive and free of an encoder: the signals, one for each task and one  *)
(* for each result, suffice, whatever the other threads do.                *)
Calling == IF kind = "slices" THEN pc[Main] \notin {"idle", "freed"} ELSE E!Calling
CodecReturns == []<>~Calling

(* The results of an encoder leave in the order of the frames, one for     *)
(* each frame, no more are under way than it has room for, and the end of  *)
(* the stream is told after the last.                                      *)
ResultsInOrder == [][kind = "encoder" => E!ResultsInOrder' /\ E!EndAfterAll]_all

(* Closing an encoder frees every frame and every packet once. *)
NothingLeaked == E!NothingLeaked
=============================================================================
