--------------------------- MODULE DelayedDecoder ---------------------------
(***************************************************************************)
(* What frame threading promises to the caller of the decoder              *)
(* (doc/multithreading.txt): a serial decoder with a delay.  Packets enter *)
(* a pipeline and their results leave it in the order of submission; a     *)
(* result leaves only when the pipeline is full or is being drained, the   *)
(* end of the stream is announced when it is empty, and a flush empties it.*)
(***************************************************************************)
EXTENDS Integers, Sequences, FiniteSets

CONSTANTS MaxDepth, \* the longest pipeline
          MaxSub    \* bound: submitted packets

VARIABLES queue,      \* the packets in the pipeline
          delivered,  \* the packets whose results have left it, in order
          submitted,  \* the number of packets submitted
          draining,   \* the caller has announced the end of the stream
          ended,      \* the decoder has answered that there is no more
          depth       \* packets in the pipeline, the last one included

vars == <<queue, delivered, submitted, draining, ended, depth>>

Init == /\ queue = {} /\ delivered = <<>> /\ submitted = 0
        /\ draining = FALSE /\ ended = FALSE
        /\ depth \in 1 .. MaxDepth

Submit == /\ submitted < MaxSub /\ ~ended
          /\ ~draining => Cardinality(queue) < depth
          /\ submitted' = submitted + 1
          /\ queue' = queue \cup {submitted + 1}
          /\ UNCHANGED <<delivered, draining, ended, depth>>

(* The oldest packet's result leaves. *)
Deliver == /\ draining \/ Cardinality(queue) = depth
           /\ \E k \in queue : /\ \A j \in queue : k <= j
                               /\ queue' = queue \ {k}
                               /\ delivered' = Append(delivered, k)
           /\ UNCHANGED <<submitted, draining, ended, depth>>

Drain == draining' = TRUE /\ UNCHANGED <<queue, delivered, submitted, ended, depth>>

End == /\ draining /\ queue = {} /\ ended' = TRUE
       /\ UNCHANGED <<queue, delivered, submitted, draining, depth>>

Flush == /\ queue' = {} /\ draining' = FALSE /\ ended' = FALSE
         /\ UNCHANGED <<delivered, submitted, depth>>

Next == Submit \/ Deliver \/ Drain \/ End \/ Flush

Spec == Init /\ [][Next]_vars
=============================================================================
