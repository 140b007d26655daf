----------------------------- MODULE QueueUsers -----------------------------
(***************************************************************************)
(* The two pairs of threads that pass packets through a thread message     *)
(* queue: those of the fifo muxer, and an input thread with the main       *)
(* thread of ffmpeg.  A queue has one pair; user says which one the queue  *)
(* of this behaviour has.  The other pair never starts.                    *)
(***************************************************************************)
EXTENDS FifoMuxer

CONSTANT MaxLoops   \* bound: restarts of the input

(* What a call of the queue returns besides messages and errors: the code  *)
(* keeps messages and return values apart, the model has ret for both.     *)
Words == {"none", "ok", "EAGAIN"}

ASSUME UsersAssumption ==
  /\ MaxLoops \in Nat
  /\ Words \cap (Msg \cup Errors) = {} /\ Msg \cap Errors = {}
  /\ "free_func" \notin Threads    \* not a thread, but a receiver of messages

VARIABLES user, ipc, main, pkt, flags, ending, loops, read, got, drained, non_blocking

I == INSTANCE InputThread WITH Input <- Writer, mpc <- main

input == <<ipc, main, pkt, flags, ending, loops, read, got, drained, non_blocking>>
all == <<user, allVars, input>>

UsersInit ==
  /\ user \in {"fifo", "input"}
  /\ FifoInit /\ I!InputInit
  /\ user = "fifo" => ~non_blocking
  /\ user = "input" => opt = CHOOSE o \in OptionSets : TRUE

Fifo(A) == user = "fifo" /\ A /\ UNCHANGED <<user, input>>
Input(A) == user = "input" /\ A /\ UNCHANGED <<user, app>>

UsersNext == Fifo(FifoNext) \/ Input(I!InputNext)

(* The threads of either pair run when they can and time passes: the       *)
(* underlying muxer returns from its functions, and so does av_read_frame, *)
(* whose interrupt callback sees to that when the program ends.  Nobody    *)
(* need call the fifo muxer; the main thread goes on asking for packets.   *)
UsersSpec ==
  /\ UsersInit /\ [][UsersNext]_all
  /\ WF_all(Fifo(MainStep) \/ Input(I!MainStep))
  /\ WF_all(Fifo(WriterStep) \/ Input(I!InputStep))
  /\ WF_all(Fifo(TimePasses))
-----------------------------------------------------------------------------
(* Every packet is in one place or dealt with once, in order: between an   *)
(* input thread and the main thread, and behind the fifo muxer, whatever   *)
(* fails there; and without drop_pkts_on_overflow the muxer loses none.    *)
EveryPacket ==
  IF user = "fifo" THEN PacketsAccounted /\ NoneLostWhenBlocking ELSE I!PacketsOwnedOnce

(* The end of an input is the demuxer's own, and after every packet. *)
EndAfterPackets == [][I!EndAfterPackets]_all

(* Writing and closing the fifo muxer, and stopping an input, return,      *)
(* whatever the other thread is doing.                                     *)
UsersReturn == CallsReturn /\ I!FreeReturns
=============================================================================
