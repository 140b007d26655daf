---------------------------- MODULE MCFifoMuxer ----------------------------
(* Small instances of FifoMuxer for TLC: sets of options. *)
EXTENDS FifoMuxer

CONSTANTS m1, m2, m3

MCThreads == {Main, Writer}
MCMsg == {m1, m2, m3}
Three == <<m1, m2, m3>>
MCErrors == {EOF, EIO, EINVAL, EXIT}

Defaults == [drop |-> FALSE, keyframe |-> FALSE, recover |-> FALSE, max |-> 0,
             any |-> FALSE, streamtime |-> FALSE, wait |-> 2, pts |-> TRUE]
Retrying == [Defaults EXCEPT !.recover = TRUE]
Limited == [Retrying EXCEPT !.max = 2, !.any = TRUE]
Dropping == [Retrying EXCEPT !.drop = TRUE, !.keyframe = TRUE]
Streaming == [Dropping EXCEPT !.streamtime = TRUE, !.max = 2]
Untimed == [Streaming EXCEPT !.pts = FALSE]

PassOptions == {Defaults, Retrying, Limited, Dropping, Streaming, Untimed}
RetryOptions == {Retrying}
=============================================================================
