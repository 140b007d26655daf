--------------------------- MODULE MCFrameThread ---------------------------
(* Small instances of FrameThread for TLC: two threads with every feature  *)
(* that costs waiting, three threads that make the ring go around.         *)
EXTENDS FrameThread

Plain == [hasUpdate |-> TRUE, capDelay |-> FALSE, ffv1 |-> 0,
          unsafeBuffer |-> FALSE, unsafeFormat |-> FALSE, formats |-> {FALSE},
          asyncSafe |-> FALSE, rows |-> 1, mayFail |-> TRUE]

(* A hwaccel that is not async safe: a setup may still be running, and     *)
(* wait for the async lock, when the caller has its thread back.           *)
Hardware == [Plain EXCEPT !.formats = {TRUE, FALSE}]

(* Both callbacks on the calling thread, one of which selects a hwaccel,   *)
(* and a codec with a delay of its own.                                    *)
Delayed == [Plain EXCEPT !.formats = {TRUE, FALSE}, !.unsafeBuffer = TRUE,
                         !.unsafeFormat = TRUE, !.capDelay = TRUE]

(* No update_thread_context: the setup ends with the first buffer. *)
Intra == [Plain EXCEPT !.hasUpdate = FALSE, !.unsafeBuffer = TRUE, !.capDelay = TRUE]

(* An async safe hwaccel, and frames of two rows that wait for one another. *)
HardwareSafe == [Plain EXCEPT !.formats = {TRUE}, !.asyncSafe = TRUE,
                              !.rows = 2, !.mayFail = FALSE]
Ffv1 == [Plain EXCEPT !.ffv1 = 1]

TwoThreadCodecs == {Hardware, Delayed, Intra}
ThreeThreadCodecs == {HardwareSafe, Ffv1}
=============================================================================
