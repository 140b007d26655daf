---------------------------- MODULE ParallelLoop ----------------------------
(***************************************************************************)
(* What a slice-threaded caller relies on (libavutil/slicethread.h): one   *)
(* call runs each of its jobs exactly once, in any order and in parallel,  *)
(* and returns when all of them have been run.                             *)
(***************************************************************************)
EXTENDS Integers

CONSTANT MaxJobs   \* bound: jobs of one call

VARIABLES todo,    \* the jobs of the call that have not been run
          open     \* a call is being executed

vars == <<todo, open>>

Init == todo = {} /\ open = FALSE

Start == /\ ~open
         /\ \E n \in 1 .. MaxJobs : todo' = 0 .. n - 1
         /\ open' = TRUE

Run == /\ open
       /\ \E job \in todo : todo' = todo \ {job}
       /\ UNCHANGED open

Return == open /\ todo = {} /\ open' = FALSE /\ UNCHANGED todo

Next == Start \/ Run \/ Return

(* That a call returns is not stated here but of the pool, where it also   *)
(* covers the creation and the end of the threads.                         *)
Spec == Init /\ [][Next]_vars
=============================================================================
