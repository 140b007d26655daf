--------------------------- MODULE MessageChannel ---------------------------
(***************************************************************************)
(* What libavutil/threadmessage.h promises to the threads that share an    *)
(* AVThreadMessageQueue: a bounded FIFO of messages with a sticky error    *)
(* for each side.  There are no locks, condition variables or wake-ups     *)
(* here; a call that cannot be served is just pending, and the fairness    *)
(* says that a channel on which some pending call can be served does not   *)
(* stay that way.                                                          *)
(***************************************************************************)
EXTENDS Integers, Sequences

CONSTANTS Threads,   \* the threads that call the API
          Msg,       \* message payloads
          Errors,    \* non-zero error codes given to the set_err functions
          nelem      \* capacity

VARIABLES fifo,      \* queued messages, oldest first
          err_send,  \* 0 or an error
          err_recv,  \* 0 or an error
          pend,      \* pend[t]: "none", "send" or "recv"
          arg,       \* arg[t]: the set of messages a pending send holds
          ret,       \* ret[t]: result of the last call of t
          live       \* FALSE once the queue is freed

vars == <<fifo, err_send, err_recv, pend, arg, ret, live>>

Init == /\ fifo = <<>>
        /\ err_send = 0 /\ err_recv = 0
        /\ pend = [t \in Threads |-> "none"]
        /\ arg  = [t \in Threads |-> {}]
        /\ ret  = [t \in Threads |-> "none"]
        /\ live = TRUE

(* A call of t returns r; the thread has no pending call any more. *)
Return(t, r) == /\ pend' = [pend EXCEPT ![t] = "none"]
                /\ arg'  = [arg EXCEPT ![t] = {}]
                /\ ret'  = [ret EXCEPT ![t] = r]

(* A send that finds the channel full and may block stays pending. *)
BlockSend(t, m) == /\ pend[t] = "none" /\ err_send = 0 /\ Len(fifo) = nelem
                   /\ pend' = [pend EXCEPT ![t] = "send"]
                   /\ arg'  = [arg EXCEPT ![t] = {m}]
                   /\ UNCHANGED <<fifo, err_send, err_recv, ret, live>>

BlockRecv(t) == /\ pend[t] = "none" /\ err_recv = 0 /\ fifo = <<>>
                /\ pend' = [pend EXCEPT ![t] = "recv"]
                /\ UNCHANGED <<fifo, err_send, err_recv, arg, ret, live>>

(* A non-blocking call that cannot be served. *)
Refuse(t) == /\ pend[t] = "none"
             /\ \/ err_send = 0 /\ Len(fifo) = nelem
                \/ err_recv = 0 /\ fifo = <<>>
             /\ Return(t, "EAGAIN")
             /\ UNCHANGED <<fifo, err_send, err_recv, live>>

(* The send of m by t takes effect, at once or after having been pending. *)
Deliver(t, m) == /\ \/ err_send = 0 /\ Len(fifo) < nelem
                       /\ fifo' = Append(fifo, m) /\ Return(t, "ok")
                    \/ err_send # 0 /\ Return(t, err_send) /\ UNCHANGED fifo
                 /\ UNCHANGED <<err_send, err_recv, live>>

(* A receive of t takes effect: queued messages come before the error. *)
Take(t) == /\ \/ fifo # <<>> /\ fifo' = Tail(fifo) /\ Return(t, Head(fifo))
              \/ fifo = <<>> /\ err_recv # 0 /\ Return(t, err_recv) /\ UNCHANGED fifo
           /\ UNCHANGED <<err_send, err_recv, live>>

SetErr == /\ \/ err_send' \in Errors \cup {0} /\ UNCHANGED err_recv
             \/ err_recv' \in Errors \cup {0} /\ UNCHANGED err_send
          /\ UNCHANGED <<fifo, pend, arg, ret, live>>

Flush == fifo' = <<>> /\ UNCHANGED <<err_send, err_recv, pend, arg, ret, live>>

Free == /\ \A t \in Threads : pend[t] = "none"
        /\ live' = FALSE /\ fifo' = <<>>
        /\ UNCHANGED <<err_send, err_recv, pend, arg, ret>>

CallStep(t) == \/ \E m \in Msg : BlockSend(t, m)
               \/ BlockRecv(t)
               \/ Refuse(t)
               \/ pend[t] = "none" /\ (Take(t) \/ \E m \in Msg : Deliver(t, m))

CompleteSend == \E t \in Threads : pend[t] = "send" /\ \E m \in arg[t] : Deliver(t, m)
CompleteRecv == \E t \in Threads : pend[t] = "recv" /\ Take(t)

Next == live /\ \/ \E t \in Threads : CallStep(t)
                \/ CompleteSend \/ CompleteRecv
                \/ SetErr \/ Flush \/ Free

(* As long as some pending send (receive) can be served, one will be: a    *)
(* wake-up is never lost.  Which of the callers is served is not promised. *)
Fairness == WF_vars(live /\ CompleteSend) /\ WF_vars(live /\ CompleteRecv)

Spec == Init /\ [][Next]_vars /\ Fairness
=============================================================================
