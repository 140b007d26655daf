------------------------- MODULE ThreadMessageQueue -------------------------
(***************************************************************************)
(* libavutil/threadmessage.c: the bounded message queue that ffmpeg.c's    *)
(* input threads, libavformat/fifo.c and android_camera.c put between a    *)
(* producer and a consumer thread.                                         *)
(*                                                                         *)
(* Everything a function does between two points where it may give up      *)
(* mq->lock is one step.  pthread_cond_wait splits a call: the thread      *)
(* moves to cond_send's or cond_recv's wait set, a signal or broadcast (or *)
(* a spurious wake-up) moves it out, and when it gets the lock again it    *)
(* re-evaluates the while condition.                                       *)
(***************************************************************************)
EXTENDS Integers, Sequences, FiniteSets

CONSTANTS Threads,   \* the threads that call the API
          Msg,       \* message payloads; every send carries a fresh one
          Errors,    \* the non-zero codes passed to the set_err functions
          nelem      \* capacity given to av_thread_message_queue_alloc

ASSUME QueueAssumption == /\ IsFiniteSet(Threads)
                          /\ nelem \in Nat \ {0}
                          /\ 0 \notin Errors

VARIABLES fifo,      \* mq->fifo
          err_send,  \* mq->err_send
          err_recv,  \* mq->err_recv
          status,    \* status[t]: where thread t is
          arg,       \* arg[t]: the messages held by the blocked send of t
          ret,       \* ret[t]: what the last call of t returned
          live,      \* FALSE once av_thread_message_queue_free has run
          sent,      \* history: messages written to the FIFO, in order
          gone       \* history: <<message, taker>> removed from it, in order

vars == <<fifo, err_send, err_recv, status, arg, ret, live, sent, gone>>

Status == {"idle",
           "send_wait", "send_woken",   \* in pthread_cond_wait(&mq->cond_send)
           "recv_wait", "recv_woken"}   \* in pthread_cond_wait(&mq->cond_recv)

At(st) == {t \in Threads : status[t] = st}
Full  == Len(fifo) = nelem
Empty == fifo = <<>>

Init == /\ fifo = <<>>
        /\ err_send = 0 /\ err_recv = 0
        /\ status = [t \in Threads |-> "idle"]
        /\ arg = [t \in Threads |-> {}]
        /\ ret = [t \in Threads |-> "none"]
        /\ live = TRUE
        /\ sent = <<>> /\ gone = <<>>

-----------------------------------------------------------------------------
(* Mutant of Signal: the pthread_cond_signal call is missing. *)
SignalForgotten(st, wait, woken) == {st}

(* pthread_cond_signal: one of the threads in wait, if there is one, moves *)
(* to woken.  The value is the set of possible results.                    *)
Signal(st, wait, woken) ==
  LET waiters == {w \in Threads : st[w] = wait}
  IN  IF waiters = {} THEN {st} ELSE {[st EXCEPT ![w] = woken] : w \in waiters}

(* pthread_cond_broadcast: all of them do. *)
Broadcast(wait, woken) ==
  [t \in Threads |-> IF status[t] = wait THEN woken ELSE status[t]]

Leave(t) == [status EXCEPT ![t] = "idle"]

Return(t, r) == /\ arg' = [arg EXCEPT ![t] = {}]
                /\ ret' = [ret EXCEPT ![t] = r]

(* av_thread_message_queue_send_locked from the while condition on: wait,  *)
(* refuse or fail, or write the message and signal one receiver.           *)
SendWaits(t, m) == /\ err_send = 0 /\ Full
                   /\ status' = [status EXCEPT ![t] = "send_wait"]
                   /\ arg' = [arg EXCEPT ![t] = {m}]
                   /\ UNCHANGED <<fifo, ret, sent>>

SendReturns(t, r) == /\ Return(t, r) /\ status' = Leave(t)
                     /\ UNCHANGED <<fifo, sent>>

WriteMessage(t, m) == /\ fifo' = Append(fifo, m)
                      /\ sent' = Append(sent, m)
                      /\ status' \in Signal(Leave(t), "recv_wait", "recv_woken")
                      /\ Return(t, "ok")

SendWrites(t, m) == err_send = 0 /\ ~Full /\ WriteMessage(t, m)

SendLocked(t, m, nonblock) ==
  /\ \/ nonblock /\ err_send = 0 /\ Full /\ SendReturns(t, "EAGAIN")
     \/ ~nonblock /\ SendWaits(t, m)
     \/ err_send # 0 /\ SendReturns(t, err_send)
     \/ SendWrites(t, m)
  /\ UNCHANGED <<err_send, err_recv, live, gone>>

(* av_thread_message_queue_recv_locked from the while condition on. *)
RecvWaits(t) == /\ err_recv = 0 /\ Empty
                /\ status' = [status EXCEPT ![t] = "recv_wait"]
                /\ UNCHANGED <<fifo, arg, ret, gone>>

RecvReturns(t, r) == /\ Return(t, r) /\ status' = Leave(t)
                     /\ UNCHANGED <<fifo, gone>>

RecvReads(t) == /\ ~Empty
                /\ fifo' = Tail(fifo)
                /\ gone' = Append(gone, <<Head(fifo), t>>)
                /\ status' \in Signal(Leave(t), "send_wait", "send_woken")
                /\ Return(t, Head(fifo))

(* Mutant of RecvFails: err_recv is returned although messages are queued. *)
RecvFailsEarly(t) == err_recv # 0 /\ RecvReturns(t, err_recv)

RecvFails(t) == err_recv # 0 /\ Empty /\ RecvReturns(t, err_recv)

RecvLocked(t, nonblock) ==
  /\ \/ nonblock /\ err_recv = 0 /\ Empty /\ RecvReturns(t, "EAGAIN")
     \/ ~nonblock /\ RecvWaits(t)
     \/ RecvFails(t)
     \/ RecvReads(t)
  /\ UNCHANGED <<err_send, err_recv, live, sent>>

-----------------------------------------------------------------------------
(* av_thread_message_queue_send and _recv, up to their return or their     *)
(* first wait ...                                                          *)
Send(t, m, nonblock) == live /\ status[t] = "idle" /\ SendLocked(t, m, nonblock)
Recv(t, nonblock) == live /\ status[t] = "idle" /\ RecvLocked(t, nonblock)

(* ... and from a wake-up to their return or their next wait. *)
ResumeSend(t) == status[t] = "send_woken" /\ \E m \in arg[t] : SendLocked(t, m, FALSE)
ResumeRecv(t) == status[t] = "recv_woken" /\ RecvLocked(t, FALSE)

SpuriousWake(t) ==
  /\ \/ status[t] = "send_wait" /\ status' = [status EXCEPT ![t] = "send_woken"]
     \/ status[t] = "recv_wait" /\ status' = [status EXCEPT ![t] = "recv_woken"]
  /\ UNCHANGED <<fifo, err_send, err_recv, arg, ret, live, sent, gone>>

(* Mutant of SetErrSend: the broadcast is missing. *)
SetErrSendQuietly(err) ==
  /\ live
  /\ err_send' = err
  /\ UNCHANGED <<fifo, err_recv, status, arg, ret, live, sent, gone>>

(* av_thread_message_queue_set_err_send and _set_err_recv. *)
SetErrSend(err) ==
  /\ live
  /\ err_send' = err
  /\ status' = Broadcast("send_wait", "send_woken")
  /\ UNCHANGED <<fifo, err_recv, arg, ret, live, sent, gone>>

SetErrRecv(err) ==
  /\ live
  /\ err_recv' = err
  /\ status' = Broadcast("recv_wait", "recv_woken")
  /\ UNCHANGED <<fifo, err_send, arg, ret, live, sent, gone>>

(* Mutant of Discard: the first message of the FIFO escapes free_func. *)
DiscardAllButFirst ==
  /\ gone' = gone \o [i \in 1..(Len(fifo) - 1) |-> <<fifo[i + 1], "free_func">>]
  /\ fifo' = <<>>

(* av_thread_message_flush: every queued message goes to free_func. *)
Discard == /\ gone' = gone \o [i \in 1..Len(fifo) |-> <<fifo[i], "free_func">>]
           /\ fifo' = <<>>

Flush == /\ live
         /\ Discard
         /\ status' = Broadcast("send_wait", "send_woken")
         /\ UNCHANGED <<err_send, err_recv, arg, ret, live, sent>>

(* av_thread_message_queue_free: its callers have joined every other user. *)
QueueFree == /\ live
             /\ At("idle") = Threads
             /\ Discard
             /\ live' = FALSE
             /\ UNCHANGED <<err_send, err_recv, status, arg, ret, sent>>

(* Messages that have been handed to the API so far. *)
Used == {sent[i] : i \in DOMAIN sent} \cup UNION {arg[t] : t \in Threads}

Next == \/ \E t \in Threads :
             \/ \E m \in Msg \ Used, nonblock \in BOOLEAN : Send(t, m, nonblock)
             \/ \E nonblock \in BOOLEAN : Recv(t, nonblock)
             \/ ResumeSend(t)
             \/ ResumeRecv(t)
             \/ SpuriousWake(t)
        \/ \E err \in Errors \cup {0} : SetErrSend(err) \/ SetErrRecv(err)
        \/ Flush
        \/ QueueFree

(* A thread that has been woken gets the mutex and runs; nothing obliges   *)
(* a thread to call the API, and a thread in a wait set stays there until  *)
(* it is woken.                                                            *)
Fairness == \A t \in Threads : WF_vars(ResumeSend(t)) /\ WF_vars(ResumeRecv(t))

Spec == Init /\ [][Next]_vars /\ Fairness
-----------------------------------------------------------------------------
TypeOK == /\ fifo \in Seq(Msg) /\ Len(fifo) <= nelem
          /\ err_send \in Errors \cup {0} /\ err_recv \in Errors \cup {0}
          /\ status \in [Threads -> Status]
          /\ arg \in [Threads -> {{}} \cup {{m} : m \in Msg}]
          /\ \A t \in Threads : status[t] \in {"send_wait", "send_woken"} <=> arg[t] # {}
          /\ live \in BOOLEAN
          /\ sent \in Seq(Msg)
          /\ gone \in Seq(Msg \X (Threads \cup {"free_func"}))

(* No wake-up is lost on the sending side.  A thread stays in cond_send's  *)
(* wait set only while there is no error to return, and there is never     *)
(* more free room than senders already woken to use it: one signal per     *)
(* message read (recv_locked), although the room may be stolen by a sender *)
(* that never waited, and the broadcasts of flush and set_err_send, are    *)
(* together enough.                                                        *)
NoLostSendWakeup ==
  At("send_wait") # {} => /\ err_send = 0
                          /\ nelem - Len(fifo) <= Cardinality(At("send_woken"))

(* The same for receivers: the comment in av_thread_message_flush says     *)
(* they need not be notified there; this holds without that notification.  *)
NoLostRecvWakeup ==
  At("recv_wait") # {} => /\ err_recv = 0
                          /\ Len(fifo) <= Cardinality(At("recv_woken"))

NoLostWakeup == NoLostSendWakeup /\ NoLostRecvWakeup

(* Messages leave in the order in which they were accepted, each exactly   *)
(* once, whether a receiver takes them or flush or free hands them to      *)
(* free_func, with any number of senders, receivers and flushers.          *)
FifoExactlyOnce == sent = [i \in DOMAIN gone |-> gone[i][1]] \o fifo

(* Nobody is inside the queue once it is freed. *)
QuietWhenFreed == ~live => At("idle") = Threads

(* Every call blocked on one side returns when that side's error is set,   *)
(* unless the error is reset first: this is how fifo.c and ffmpeg.c stop   *)
(* their threads before joining them.                                      *)
Blocked(t) == status[t] # "idle"
Sending(t) == status[t] \in {"send_wait", "send_woken"}
ErrorsRelease ==
  \A t \in Threads :
    /\ (Blocked(t) /\ Sending(t) /\ err_send # 0) ~> (~Blocked(t) \/ err_send = 0)
    /\ (Blocked(t) /\ ~Sending(t) /\ err_recv # 0) ~> (~Blocked(t) \/ err_recv = 0)

(* The queue implements the abstract channel, including its fairness: the  *)
(* condition variables and their wake-ups are an implementation detail.    *)
Pend == [t \in Threads |-> IF status[t] = "idle" THEN "none"
                           ELSE IF status[t] \in {"send_wait", "send_woken"} THEN "send"
                           ELSE "recv"]
Channel == INSTANCE MessageChannel WITH pend <- Pend
ImplementsChannel == Channel!Spec
=============================================================================
