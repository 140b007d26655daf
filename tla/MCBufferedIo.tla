----------------------------- MODULE MCBufferedIo ---------------------------
(* Small instances of BufferedIo for TLC.                                  *)
EXTENDS BufferedIo

(* Files, opened directly or not, streams whose seek callback fails or is  *)
(* missing, a stream that can be sought although it says it cannot, and    *)
(* one that is opened directly.                                            *)
File == [seek |-> "works", seekable |-> TRUE, direct |-> FALSE]
Stream == [seek |-> "fails", seekable |-> FALSE, direct |-> FALSE]
AllSources == {File, [File EXCEPT !.direct = TRUE], Stream,
               [Stream EXCEPT !.seek = "null"], [Stream EXCEPT !.seek = "works"],
               [Stream EXCEPT !.direct = TRUE]}

(* Files, opened directly or not, that can always be sought or not, pipes. *)
AllSinks == [seek : {"null", "may fail", "works"}, direct : BOOLEAN]

(* The cache over a file and over a stream that cannot be sought. *)
InnerFile == [seekable |-> TRUE, sized |-> TRUE, read_ahead_limit |-> 1]
InnerStream == [seekable |-> FALSE, sized |-> FALSE, read_ahead_limit |-> -1]
AllProts == {InnerFile, InnerStream}
=============================================================================
