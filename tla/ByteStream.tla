----------------------------- MODULE ByteStream -----------------------------
(***************************************************************************)
(* What a protocol promises to its one user (libavformat/url.h): the bytes *)
(* of a resource from the current position on, the end of file at its end  *)
(* and nowhere else, errors, and seeks.  A byte is named by its position.  *)
(***************************************************************************)
EXTENDS Integers

CONSTANT Size        \* length of the resource

VARIABLES pos,       \* current position
          call,      \* the call being served: "read", "seek", "close" or none
          target,    \* position asked for by a seek
          result     \* of the last call: its kind, and the bytes it delivered

vars == <<pos, call, target, result>>

Result(kind, first, count) == [kind |-> kind, first |-> first, count |-> count]

Init == pos = 0 /\ call = "none" /\ target = 0 /\ result = Result("none", 0, 0)

Start == /\ call = "none"
         /\ \/ call' = "read" /\ target' = 0
            \/ call' = "seek" /\ target' \in Nat
            \/ call' = "close" /\ target' = 0
         /\ UNCHANGED <<pos, result>>

Return(r) == call' = "none" /\ target' = 0 /\ result' = r

(* A read returns at least one byte, the end of file, or an error. *)
Data == /\ call = "read"
        /\ pos' \in pos + 1 .. Size
        /\ Return(Result("data", pos, pos' - pos))

EndOfFile == call = "read" /\ pos = Size /\ Return(Result("EOF", 0, 0)) /\ UNCHANGED pos

Fail == call \in {"read", "seek"} /\ Return(Result("error", 0, 0)) /\ UNCHANGED pos

(* A seek may skip what is in between, and end where the data does; it     *)
(* then returns where it is.                                               *)
Skip == /\ call = "seek" /\ pos' \in pos + 1 .. Size /\ pos' <= target
        /\ UNCHANGED <<call, target, result>>

Seek == /\ call = "seek"
        /\ \/ pos' = target
           \/ pos' = pos /\ pos < target
        /\ Return(Result("at", pos', 0))

Next == Start \/ Data \/ EndOfFile \/ Fail \/ Skip \/ Seek

(* No call is served for ever. *)
Spec == Init /\ [][Next]_vars
=============================================================================
