--------------------------- MODULE QueueUsersProofs ---------------------------
(***************************************************************************)
(* Theorems about the queue, for any finite set of threads, any messages   *)
(* and any capacity, and about the two pairs of threads that use it.       *)
(***************************************************************************)
EXTENDS QueueUsers, FiniteSetTheorems, SequenceTheorems, TLAPS

(* A step of the queue, whatever message a thread sends: the users of      *)
(* QueueUsers need not be shown to send each message once for what follows.*)
QueueNext ==
  \/ \E t \in Threads :
       \/ \E m \in Msg, nonblock \in BOOLEAN : Send(t, m, nonblock)
       \/ \E nonblock \in BOOLEAN : Recv(t, nonblock)
       \/ ResumeSend(t) \/ ResumeRecv(t) \/ SpuriousWake(t)
  \/ \E err \in Errors \cup {0} : SetErrSend(err) \/ SetErrRecv(err)
  \/ Flush \/ QueueFree

LEMMA QueueSteps == [Next]_vars => [QueueNext]_vars
BY DEF Next, QueueNext

(* Signal moves at most one waiting thread, and moves one if one waits. *)
LEMMA SignalEffect ==
  ASSUME NEW st \in [Threads -> Status], NEW wait \in Status, NEW woken \in Status,
         NEW s \in Signal(st, wait, woken)
  PROVE  /\ s \in [Threads -> Status]
         /\ \/ s = st /\ \A t \in Threads : st[t] # wait
            \/ \E v \in Threads : st[v] = wait /\ s = [st EXCEPT ![v] = woken]
  BY DEF Signal

(* Every set of threads is finite. *)
LEMMA AtFinite ==
  ASSUME NEW S \in SUBSET Threads
  PROVE  IsFiniteSet(S) /\ Cardinality(S) \in Nat
  BY QueueAssumption, FS_Subset, FS_CardinalityType DEF QueueAssumption

(* A blocked send holds exactly one message. *)
LEMMA HeldMessage ==
  ASSUME TypeOK, NEW t \in Threads, NEW m \in arg[t]
  PROVE  m \in Msg /\ arg[t] = {m}
<1>1. arg[t] \in {{}} \cup {{x} : x \in Msg}
  BY DEF TypeOK
<1>2. PICK x \in Msg : arg[t] = {x}
  BY <1>1
<1> QED BY <1>2

-----------------------------------------------------------------------------
(* The type invariant, one step per action. *)
THEOREM TypeInductive == TypeOK /\ [QueueNext]_vars => TypeOK'
<1> SUFFICES ASSUME TypeOK, [QueueNext]_vars PROVE TypeOK'
  OBVIOUS
<1> USE QueueAssumption DEF QueueAssumption, Status
<1>1. ASSUME NEW t \in Threads, NEW m \in Msg, NEW nonblock \in BOOLEAN,
             status[t] \in {"idle", "send_woken"}, SendLocked(t, m, nonblock)
      PROVE  TypeOK'
  <2>1. CASE SendReturns(t, "EAGAIN") \/ SendReturns(t, err_send)
    BY <1>1, <2>1 DEF SendReturns, TypeOK, Return, Leave, SendLocked
  <2>2. CASE SendWaits(t, m)
    BY <1>1, <2>2 DEF SendWaits, TypeOK, SendLocked
  <2>3. CASE SendWrites(t, m)
    <3>1. fifo' \in Seq(Msg) /\ sent' \in Seq(Msg) /\ Len(fifo') = Len(fifo) + 1
      BY <2>3, AppendProperties DEF SendWrites, WriteMessage, TypeOK
    <3>2. Len(fifo') <= nelem
      BY <2>3, <3>1, LenProperties DEF SendWrites, Full, TypeOK
    <3>3. Leave(t) \in [Threads -> Status] /\ status' \in Signal(Leave(t), "recv_wait", "recv_woken")
      BY <2>3 DEF Leave, TypeOK, SendWrites, WriteMessage
    <3>4. status' \in [Threads -> Status]
          /\ \A u \in Threads : status'[u] \in {"send_wait", "send_woken"}
                                  <=> u # t /\ status[u] \in {"send_wait", "send_woken"}
      <4>1. /\ status' \in [Threads -> Status]
            /\ \/ status' = Leave(t)
               \/ \E v \in Threads : Leave(t)[v] = "recv_wait"
                                     /\ status' = [Leave(t) EXCEPT ![v] = "recv_woken"]
        BY <3>3, SignalEffect
      <4> QED BY <4>1 DEF Leave, TypeOK
    <3>5. arg' = [arg EXCEPT ![t] = {}]
      BY <2>3 DEF SendWrites, WriteMessage, Return
    <3> QED BY <1>1, <3>1, <3>2, <3>4, <3>5 DEF TypeOK, SendLocked
  <2> QED BY <1>1, <2>1, <2>2, <2>3 DEF SendLocked
<1>2. ASSUME NEW t \in Threads, NEW nonblock \in BOOLEAN,
             status[t] \in {"idle", "recv_woken"}, RecvLocked(t, nonblock)
      PROVE  TypeOK'
  <2>1. CASE RecvReturns(t, "EAGAIN") \/ RecvFails(t)
    BY <1>2, <2>1 DEF RecvReturns, RecvFails, TypeOK, Return, Leave, RecvLocked
  <2>2. CASE RecvWaits(t)
    BY <1>2, <2>2 DEF RecvWaits, TypeOK, RecvLocked
  <2>3. CASE RecvReads(t)
    <3>1. /\ Head(fifo) \in Msg /\ fifo' \in Seq(Msg) /\ Len(fifo') = Len(fifo) - 1
          /\ gone' \in Seq(Msg \X (Threads \cup {"free_func"}))
      BY <2>3, AppendProperties, HeadTailProperties DEF RecvReads, TypeOK, Empty
    <3>2. Len(fifo') <= nelem
      BY <3>1, LenProperties DEF TypeOK
    <3>3. Leave(t) \in [Threads -> Status] /\ status' \in Signal(Leave(t), "send_wait", "send_woken")
      BY <2>3 DEF Leave, TypeOK, RecvReads
    <3>4. status' \in [Threads -> Status]
          /\ \A u \in Threads : status'[u] \in {"send_wait", "send_woken"}
                                  <=> u # t /\ status[u] \in {"send_wait", "send_woken"}
      <4>1. /\ status' \in [Threads -> Status]
            /\ \/ status' = Leave(t)
               \/ \E v \in Threads : Leave(t)[v] = "send_wait"
                                     /\ status' = [Leave(t) EXCEPT ![v] = "send_woken"]
        BY <3>3, SignalEffect
      <4> QED BY <4>1 DEF Leave, TypeOK
    <3>5. arg' = [arg EXCEPT ![t] = {}]
      BY <2>3 DEF RecvReads, Return
    <3> QED BY <1>2, <3>1, <3>2, <3>4, <3>5 DEF TypeOK, RecvLocked
  <2> QED BY <1>2, <2>1, <2>2, <2>3 DEF RecvLocked
<1>3. ASSUME NEW t \in Threads, SpuriousWake(t) PROVE TypeOK'
  BY <1>3 DEF SpuriousWake, TypeOK
<1>4. ASSUME NEW err \in Errors \cup {0}, SetErrSend(err) \/ SetErrRecv(err) PROVE TypeOK'
  BY <1>4 DEF SetErrSend, SetErrRecv, Broadcast, TypeOK
<1>5. ASSUME Discard
      PROVE  fifo' = <<>> /\ gone' \in Seq(Msg \X (Threads \cup {"free_func"}))
  <2> DEFINE freed == [i \in 1..Len(fifo) |-> <<fifo[i], "free_func">>]
  <2>1. freed \in Seq(Msg \X (Threads \cup {"free_func"}))
    <3>1. Len(fifo) \in Nat /\ \A i \in 1..Len(fifo) : fifo[i] \in Msg
      BY LenProperties, ElementOfSeq DEF TypeOK
    <3>2. freed \in [1..Len(fifo) -> Msg \X (Threads \cup {"free_func"})]
      BY <3>1
    <3> QED BY <3>1, <3>2, SeqDef
  <2> QED BY <1>5, <2>1, ConcatProperties DEF Discard, TypeOK
<1>6. CASE Flush
  <2>1. fifo' = <<>> /\ gone' \in Seq(Msg \X (Threads \cup {"free_func"}))
    BY <1>5, <1>6 DEF Flush
  <2>2. /\ status' \in [Threads -> Status]
        /\ \A u \in Threads : status'[u] \in {"send_wait", "send_woken"}
                                <=> status[u] \in {"send_wait", "send_woken"}
    BY <1>6 DEF Flush, Broadcast, TypeOK
  <2>3. UNCHANGED <<err_send, err_recv, arg, live, sent>>
    BY <1>6 DEF Flush
  <2> QED BY <2>1, <2>2, <2>3, EmptySeq DEF TypeOK
<1>7. CASE QueueFree
  <2>1. live' \in BOOLEAN
    BY <1>7, Zenon DEF QueueFree
  <2>2. UNCHANGED <<err_send, err_recv, status, arg, sent>>
    BY <1>7 DEF QueueFree
  <2>3. fifo' = <<>> /\ gone' \in Seq(Msg \X (Threads \cup {"free_func"}))
    BY <1>5, <1>7 DEF QueueFree
  <2> QED BY <2>1, <2>2, <2>3, EmptySeq DEF TypeOK
<1>8. CASE UNCHANGED vars
  BY <1>8 DEF vars, TypeOK
<1>9. ASSUME NEW t \in Threads, ResumeSend(t) PROVE TypeOK'
  <2>1. PICK m \in arg[t] : SendLocked(t, m, FALSE)
    BY <1>9 DEF ResumeSend
  <2>2. m \in Msg /\ FALSE \in BOOLEAN /\ status[t] = "send_woken"
    BY <1>9, HeldMessage DEF ResumeSend
  <2> QED BY <1>1, <2>1, <2>2
<1> QED BY <1>1, <1>2, <1>3, <1>4, <1>6, <1>7, <1>8, <1>9 DEF QueueNext, Send, Recv, ResumeRecv

THEOREM TypeCorrect == Spec => []TypeOK
<1>1. Init => TypeOK
  BY QueueAssumption, EmptySeq DEF Init, TypeOK, Status, QueueAssumption
<1> QED BY <1>1, TypeInductive, QueueSteps, PTL DEF Spec

-----------------------------------------------------------------------------
(* Wake-ups. *)
(* A thread that gives up its place and wakes at most one thread: what     *)
(* becomes of the wait sets.                                               *)
LEMMA WaitSetsAfterSignal ==
  ASSUME NEW t \in Threads, NEW wait \in {"send_wait", "recv_wait"},
         NEW woken \in {"send_woken", "recv_woken"},
         TypeOK, status[t] \notin {"send_wait", "recv_wait"},
         status' \in Signal(Leave(t), wait, woken)
  PROVE  \/ /\ At(wait) = {}
            /\ \A st \in Status \ {"idle"} : At(st)' = At(st) \ {t}
         \/ \E v \in At(wait) :
              /\ v # t
              /\ At(wait)' = At(wait) \ {v}
              /\ At(woken)' = (At(woken) \ {t}) \cup {v}
              /\ \A st \in Status \ {"idle", wait, woken} : At(st)' = At(st) \ {t}
<1> USE DEF Status
<1>1. Leave(t) \in [Threads -> Status]
  BY DEF Leave, TypeOK
<1>2. CASE status' = Leave(t) /\ \A u \in Threads : Leave(t)[u] # wait
  BY <1>2 DEF Leave, At, TypeOK
<1>3. ASSUME NEW v \in Threads, Leave(t)[v] = wait, status' = [Leave(t) EXCEPT ![v] = woken]
      PROVE  \E x \in At(wait) :
              /\ x # t
              /\ At(wait)' = At(wait) \ {x}
              /\ At(woken)' = (At(woken) \ {t}) \cup {x}
              /\ \A st \in Status \ {"idle", wait, woken} : At(st)' = At(st) \ {t}
  <2>1. v # t /\ v \in At(wait)
    BY <1>3 DEF Leave, At, TypeOK
  <2>2. \A u \in Threads : status'[u] = IF u = t THEN "idle" ELSE IF u = v THEN woken ELSE status[u]
    BY <1>3, <2>1 DEF Leave, TypeOK
  <2> QED BY <2>1, <2>2 DEF At
<1>4. \/ status' = Leave(t) /\ \A u \in Threads : Leave(t)[u] # wait
      \/ \E v \in Threads : Leave(t)[v] = wait /\ status' = [Leave(t) EXCEPT ![v] = woken]
  BY <1>1, SignalEffect
<1> QED BY <1>2, <1>3, <1>4

(* A thread that returns without a signal leaves the wait sets alone. *)
LEMMA WaitSetsAfterReturn ==
  ASSUME NEW t \in Threads, TypeOK, status' = Leave(t)
  PROVE  \A st \in Status \ {"idle"} : At(st)' = At(st) \ {t}
BY DEF Leave, At, TypeOK, Status

(* Taking t out of a set of threads takes away one element at most. *)
LEMMA RemoveOne ==
  ASSUME NEW S \in SUBSET Threads, NEW t
  PROVE  /\ Cardinality(S) \in Nat
         /\ Cardinality(S \ {t}) \in Nat
         /\ Cardinality(S \ {t}) >= Cardinality(S) - 1
         /\ t \notin S => Cardinality(S \ {t}) = Cardinality(S)
BY AtFinite, FS_RemoveElement

(* Putting one more thread into a set adds one element. *)
LEMMA AddOne ==
  ASSUME NEW S \in SUBSET Threads, NEW v \in Threads, v \notin S
  PROVE  Cardinality(S \cup {v}) = Cardinality(S) + 1
BY AtFinite, FS_AddElement

LEMMA SendKeepsWakeups ==
  ASSUME NEW t \in Threads, NEW m \in Msg, NEW nonblock \in BOOLEAN,
         status[t] \in {"idle", "send_woken"}, SendLocked(t, m, nonblock),
         TypeOK, NoLostWakeup
  PROVE  NoLostWakeup'
<1> USE QueueAssumption DEF QueueAssumption, Status
<1>0. /\ Len(fifo) \in Nat /\ nelem \in Nat /\ Len(fifo) <= nelem
      /\ \A st \in Status : At(st) \in SUBSET Threads
      /\ t \notin At("recv_woken") /\ t \notin At("recv_wait") /\ t \notin At("send_wait")
      /\ UNCHANGED <<err_send, err_recv>>
  BY LenProperties DEF TypeOK, At, SendLocked
<1>1. ASSUME \E r : SendReturns(t, r), Full \/ err_send # 0
      PROVE  NoLostWakeup'
  <2>1. UNCHANGED fifo /\ status' = Leave(t)
    BY <1>1 DEF SendReturns
  <2>2. At("recv_wait")' = At("recv_wait") /\ At("recv_woken")' = At("recv_woken")
        /\ At("send_wait")' = At("send_wait")
    BY <1>0, <2>1, WaitSetsAfterReturn DEF At
  <2>3. NoLostRecvWakeup'
    BY <1>0, <2>1, <2>2 DEF NoLostRecvWakeup, NoLostWakeup
  <2>4. NoLostSendWakeup'
    <3>1. Cardinality(At("send_woken"))' \in Nat
      BY AtFinite DEF At
    <3> QED BY <1>0, <1>1, <2>1, <2>2, <3>1 DEF NoLostSendWakeup, NoLostWakeup, Full
  <2> QED BY <2>3, <2>4 DEF NoLostWakeup
<1>2. CASE SendWaits(t, m)
  <2>1. UNCHANGED fifo /\ err_send = 0 /\ Full
        /\ status' = [status EXCEPT ![t] = "send_wait"]
    BY <1>2 DEF SendWaits
  <2>2. At("recv_wait")' = At("recv_wait") /\ At("recv_woken")' = At("recv_woken")
    BY <1>0, <2>1 DEF At, TypeOK
  <2>3. Cardinality(At("send_woken"))' \in Nat
    BY AtFinite DEF At
  <2> QED BY <1>0, <2>1, <2>2, <2>3 DEF NoLostSendWakeup, NoLostRecvWakeup, NoLostWakeup, Full
<1>3. CASE SendWrites(t, m)
  <2>1. /\ err_send = 0 /\ Len(fifo) < nelem /\ Len(fifo') = Len(fifo) + 1
        /\ status' \in Signal(Leave(t), "recv_wait", "recv_woken")
    BY <1>0, <1>3, AppendProperties DEF SendWrites, WriteMessage, Full, TypeOK
  <2>2. \/ /\ At("recv_wait") = {}
           /\ \A st \in Status \ {"idle"} : At(st)' = At(st) \ {t}
        \/ \E v \in At("recv_wait") :
             /\ v # t
             /\ At("recv_wait")' = At("recv_wait") \ {v}
             /\ At("recv_woken")' = (At("recv_woken") \ {t}) \cup {v}
             /\ \A st \in Status \ {"idle", "recv_wait", "recv_woken"} : At(st)' = At(st) \ {t}
    BY <2>1, WaitSetsAfterSignal
  <2>3. At("send_wait")' = At("send_wait") /\ At("send_woken")' = At("send_woken") \ {t}
    BY <1>0, <2>2 DEF At
  <2>4. NoLostSendWakeup'
    BY <1>0, <2>1, <2>3, RemoveOne DEF NoLostSendWakeup, NoLostWakeup
  <2>5. NoLostRecvWakeup'
    <3>1. CASE At("recv_wait") = {} /\ \A st \in Status \ {"idle"} : At(st)' = At(st) \ {t}
      BY <3>1 DEF NoLostRecvWakeup
    <3>2. ASSUME NEW v \in At("recv_wait"), v # t,
                 At("recv_woken")' = (At("recv_woken") \ {t}) \cup {v}
          PROVE  NoLostRecvWakeup'
      <4>1. At("recv_woken") \ {t} = At("recv_woken") /\ v \notin At("recv_woken") /\ v \in Threads
        BY <1>0 DEF At
      <4>2. Cardinality(At("recv_woken")') = Cardinality(At("recv_woken")) + 1
        BY <1>0, <3>2, <4>1, AddOne
      <4>3. Cardinality(At("recv_woken")) \in Nat
        BY <1>0, AtFinite
      <4> QED BY <1>0, <2>1, <4>2, <4>3 DEF NoLostRecvWakeup, NoLostWakeup
    <3> QED BY <2>2, <3>1, <3>2
  <2> QED BY <2>4, <2>5 DEF NoLostWakeup
<1> QED BY <1>1, <1>2, <1>3 DEF SendLocked

LEMMA RecvKeepsWakeups ==
  ASSUME NEW t \in Threads, NEW nonblock \in BOOLEAN,
         status[t] \in {"idle", "recv_woken"}, RecvLocked(t, nonblock),
         TypeOK, NoLostWakeup
  PROVE  NoLostWakeup'
<1> USE QueueAssumption DEF QueueAssumption, Status
<1>0. /\ Len(fifo) \in Nat /\ nelem \in Nat /\ Len(fifo) <= nelem
      /\ \A st \in Status : At(st) \in SUBSET Threads
      /\ t \notin At("send_woken") /\ t \notin At("recv_wait") /\ t \notin At("send_wait")
      /\ UNCHANGED <<err_send, err_recv>>
  BY LenProperties DEF TypeOK, At, RecvLocked
<1>1. ASSUME \E r : RecvReturns(t, r), Empty \/ err_recv # 0
      PROVE  NoLostWakeup'
  <2>1. UNCHANGED fifo /\ status' = Leave(t)
    BY <1>1 DEF RecvReturns
  <2>2. At("recv_wait")' = At("recv_wait") /\ At("send_woken")' = At("send_woken")
        /\ At("send_wait")' = At("send_wait")
    BY <1>0, <2>1, WaitSetsAfterReturn DEF At
  <2>3. NoLostSendWakeup'
    BY <1>0, <2>1, <2>2 DEF NoLostSendWakeup, NoLostWakeup
  <2>4. NoLostRecvWakeup'
    <3>1. Cardinality(At("recv_woken"))' \in Nat
      BY AtFinite DEF At
    <3>2. Empty => Len(fifo) = 0
      BY EmptySeq DEF Empty
    <3> QED BY <1>0, <1>1, <2>1, <2>2, <3>1, <3>2 DEF NoLostRecvWakeup, NoLostWakeup
  <2> QED BY <2>3, <2>4 DEF NoLostWakeup
<1>2. CASE RecvWaits(t)
  <2>1. UNCHANGED fifo /\ err_recv = 0 /\ Len(fifo) = 0
        /\ status' = [status EXCEPT ![t] = "recv_wait"]
    BY <1>2, EmptySeq DEF RecvWaits, Empty
  <2>2. At("send_wait")' = At("send_wait") /\ At("send_woken")' = At("send_woken")
    BY <1>0, <2>1 DEF At, TypeOK
  <2>3. Cardinality(At("recv_woken"))' \in Nat
    BY AtFinite DEF At
  <2> QED BY <1>0, <2>1, <2>2, <2>3 DEF NoLostSendWakeup, NoLostRecvWakeup, NoLostWakeup
<1>3. CASE RecvReads(t)
  <2>1. /\ Len(fifo) > 0 /\ Len(fifo') = Len(fifo) - 1
        /\ status' \in Signal(Leave(t), "send_wait", "send_woken")
    BY <1>0, <1>3, HeadTailProperties, EmptySeq DEF RecvReads, Empty, TypeOK
  <2>2. \/ /\ At("send_wait") = {}
           /\ \A st \in Status \ {"idle"} : At(st)' = At(st) \ {t}
        \/ \E v \in At("send_wait") :
             /\ v # t
             /\ At("send_wait")' = At("send_wait") \ {v}
             /\ At("send_woken")' = (At("send_woken") \ {t}) \cup {v}
             /\ \A st \in Status \ {"idle", "send_wait", "send_woken"} : At(st)' = At(st) \ {t}
    BY <2>1, WaitSetsAfterSignal
  <2>3. At("recv_wait")' = At("recv_wait") /\ At("recv_woken")' = At("recv_woken") \ {t}
    BY <1>0, <2>2 DEF At
  <2>4. NoLostRecvWakeup'
    <3>1. At("recv_woken") \in SUBSET Threads
      BY <1>0
    <3>2. /\ Cardinality(At("recv_woken") \ {t}) \in Nat /\ Cardinality(At("recv_woken")) \in Nat
          /\ Cardinality(At("recv_woken") \ {t}) >= Cardinality(At("recv_woken")) - 1
      BY <3>1, RemoveOne
    <3>3. SUFFICES ASSUME At("recv_wait")' # {}
                   PROVE  err_recv' = 0 /\ Len(fifo') <= Cardinality(At("recv_woken")')
      BY DEF NoLostRecvWakeup
    <3>4. At("recv_wait") # {}
      BY <2>3, <3>3
    <3>5. err_recv = 0 /\ Len(fifo) <= Cardinality(At("recv_woken"))
      BY <3>4 DEF NoLostRecvWakeup, NoLostWakeup
    <3>6. Len(fifo') <= Cardinality(At("recv_woken") \ {t})
      BY <1>0, <2>1, <3>2, <3>5
    <3> QED BY <1>0, <2>3, <3>5, <3>6
  <2>5. NoLostSendWakeup'
    <3>1. CASE At("send_wait") = {} /\ \A st \in Status \ {"idle"} : At(st)' = At(st) \ {t}
      BY <3>1 DEF NoLostSendWakeup
    <3>2. ASSUME NEW v \in At("send_wait"), v # t,
                 At("send_woken")' = (At("send_woken") \ {t}) \cup {v}
          PROVE  NoLostSendWakeup'
      <4>1. At("send_woken") \ {t} = At("send_woken") /\ v \notin At("send_woken") /\ v \in Threads
        BY <1>0 DEF At
      <4>2. Cardinality(At("send_woken")') = Cardinality(At("send_woken")) + 1
        BY <1>0, <3>2, <4>1, AddOne
      <4>3. Cardinality(At("send_woken")) \in Nat
        BY <1>0, AtFinite
      <4> QED BY <1>0, <2>1, <4>2, <4>3 DEF NoLostSendWakeup, NoLostWakeup
    <3> QED BY <2>2, <3>1, <3>2
  <2> QED BY <2>4, <2>5 DEF NoLostWakeup
<1> QED BY <1>1, <1>2, <1>3 DEF RecvLocked, RecvFails

THEOREM WakeInductive == TypeOK /\ NoLostWakeup /\ [QueueNext]_vars => NoLostWakeup'
<1> SUFFICES ASSUME TypeOK, NoLostWakeup, [QueueNext]_vars PROVE NoLostWakeup'
  OBVIOUS
<1> USE QueueAssumption DEF QueueAssumption, Status
<1>0. /\ Len(fifo) \in Nat /\ nelem \in Nat
      /\ \A st \in Status : At(st) \in SUBSET Threads /\ At(st)' \in SUBSET Threads
      /\ \A st \in Status : Cardinality(At(st)) \in Nat /\ Cardinality(At(st)') \in Nat
  BY LenProperties, AtFinite DEF TypeOK, At
<1>1. ASSUME NEW t \in Threads, SpuriousWake(t) PROVE NoLostWakeup'
  <2>1. UNCHANGED <<fifo, err_send, err_recv>>
    BY <1>1 DEF SpuriousWake
  <2>2. CASE status[t] = "send_wait" /\ status' = [status EXCEPT ![t] = "send_woken"]
    <3>1. /\ At("send_woken")' = At("send_woken") \cup {t} /\ t \notin At("send_woken")
          /\ At("send_wait") # {}
          /\ At("recv_wait")' = At("recv_wait") /\ At("recv_woken")' = At("recv_woken")
      BY <2>2 DEF At, TypeOK
    <3>2. Cardinality(At("send_woken")') = Cardinality(At("send_woken")) + 1
      BY <1>0, <3>1, AddOne
    <3> QED BY <1>0, <2>1, <3>1, <3>2 DEF NoLostWakeup, NoLostSendWakeup, NoLostRecvWakeup
  <2>3. CASE status[t] = "recv_wait" /\ status' = [status EXCEPT ![t] = "recv_woken"]
    <3>1. /\ At("recv_woken")' = At("recv_woken") \cup {t} /\ t \notin At("recv_woken")
          /\ At("recv_wait") # {}
          /\ At("send_wait")' = At("send_wait") /\ At("send_woken")' = At("send_woken")
      BY <2>3 DEF At, TypeOK
    <3>2. Cardinality(At("recv_woken")') = Cardinality(At("recv_woken")) + 1
      BY <1>0, <3>1, AddOne
    <3> QED BY <1>0, <2>1, <3>1, <3>2 DEF NoLostWakeup, NoLostSendWakeup, NoLostRecvWakeup
  <2> QED BY <1>1, <2>2, <2>3 DEF SpuriousWake
<1>2. ASSUME status' = Broadcast("send_wait", "send_woken")
      PROVE  At("send_wait")' = {} /\ At("recv_wait")' = At("recv_wait")
             /\ At("recv_woken")' = At("recv_woken")
  BY <1>2 DEF Broadcast, At, TypeOK
<1>3. ASSUME status' = Broadcast("recv_wait", "recv_woken")
      PROVE  At("recv_wait")' = {} /\ At("send_wait")' = At("send_wait")
             /\ At("send_woken")' = At("send_woken")
  BY <1>3 DEF Broadcast, At, TypeOK
<1>4. ASSUME NEW err \in Errors \cup {0}, SetErrSend(err) PROVE NoLostWakeup'
  BY <1>2, <1>4 DEF SetErrSend, NoLostWakeup, NoLostSendWakeup, NoLostRecvWakeup
<1>5. ASSUME NEW err \in Errors \cup {0}, SetErrRecv(err) PROVE NoLostWakeup'
  BY <1>3, <1>5 DEF SetErrRecv, NoLostWakeup, NoLostSendWakeup, NoLostRecvWakeup
<1>6. CASE Flush
  <2>1. Len(fifo') = 0 /\ err_recv' = err_recv
    BY <1>6, EmptySeq DEF Flush, Discard
  <2> QED BY <1>0, <1>2, <1>6, <2>1 DEF Flush, NoLostWakeup, NoLostSendWakeup, NoLostRecvWakeup
<1>7. CASE QueueFree
  <2>1. status' = status /\ At("send_wait") = {} /\ At("recv_wait") = {}
    BY <1>7 DEF QueueFree, At
  <2>2. At("send_wait")' = {} /\ At("recv_wait")' = {}
    BY <2>1 DEF At
  <2> QED BY <2>2 DEF NoLostWakeup, NoLostSendWakeup, NoLostRecvWakeup
<1>8. CASE UNCHANGED vars
  BY <1>8 DEF vars, NoLostWakeup, NoLostSendWakeup, NoLostRecvWakeup, At
<1>9. ASSUME NEW t \in Threads, ResumeSend(t) PROVE NoLostWakeup'
  <2>1. PICK m \in arg[t] : SendLocked(t, m, FALSE)
    BY <1>9 DEF ResumeSend
  <2>2. m \in Msg /\ FALSE \in BOOLEAN /\ status[t] = "send_woken"
    BY <1>9, HeldMessage DEF ResumeSend
  <2> QED BY <2>1, <2>2, SendKeepsWakeups
<1>10. ASSUME NEW t \in Threads, NEW m \in Msg, NEW nonblock \in BOOLEAN, Send(t, m, nonblock)
       PROVE  NoLostWakeup'
  BY <1>10, SendKeepsWakeups DEF Send
<1>11. ASSUME NEW t \in Threads, ResumeRecv(t) \/ \E nonblock \in BOOLEAN : Recv(t, nonblock)
       PROVE  NoLostWakeup'
  BY <1>11, RecvKeepsWakeups DEF Recv, ResumeRecv
<1> QED BY <1>1, <1>4, <1>5, <1>6, <1>7, <1>8, <1>9, <1>10, <1>11 DEF QueueNext

(* No wake-up is lost on either side of the queue: with any number of      *)
(* senders, receivers and flushers, a sender sleeps in cond_send only      *)
(* while at most as many slots are free as senders are already on their    *)
(* way, and a receiver in cond_recv only while at most as many messages    *)
(* are queued as receivers are on their way.                               *)
THEOREM NoLostWakeups == Spec => []NoLostWakeup
<1>1. Init => NoLostWakeup
  BY DEF Init, NoLostWakeup, NoLostSendWakeup, NoLostRecvWakeup, At
<1> QED BY <1>1, TypeCorrect, WakeInductive, QueueSteps, PTL DEF Spec

-----------------------------------------------------------------------------
(* Order and conservation of the messages. *)
Gone == Seq(Msg \X (Threads \cup {"free_func"}))
Messages(g) == [i \in DOMAIN g |-> g[i][1]]

LEMMA MessagesType ==
  ASSUME NEW g \in Gone
  PROVE  /\ Messages(g) \in Seq(Msg) /\ Len(Messages(g)) = Len(g)
         /\ \A i \in 1..Len(g) : Messages(g)[i] = g[i][1]
<1>1. Len(g) \in Nat /\ DOMAIN g = 1..Len(g) /\ \A i \in 1..Len(g) : g[i][1] \in Msg
  BY LenProperties, ElementOfSeq DEF Gone
<1>2. Messages(g) \in [1..Len(g) -> Msg]
  BY <1>1 DEF Messages
<1>3. Messages(g) \in Seq(Msg)
  BY <1>1, <1>2, SeqDef
<1>4. Len(Messages(g)) = Len(g)
  BY <1>1, <1>2, <1>3, LenProperties
<1> QED BY <1>1, <1>3, <1>4 DEF Messages

(* Removing messages appends them to what has been taken. *)
LEMMA MessagesConcat ==
  ASSUME NEW g \in Gone, NEW h \in Gone
  PROVE  Messages(g \o h) = Messages(g) \o Messages(h)
<1>1. /\ g \o h \in Gone /\ Len(g \o h) = Len(g) + Len(h)
      /\ \A i \in 1..(Len(g) + Len(h)) :
            (g \o h)[i] = IF i <= Len(g) THEN g[i] ELSE h[i - Len(g)]
  BY ConcatProperties DEF Gone
<1>2. /\ Messages(g) \o Messages(h) \in Seq(Msg) /\ Len(Messages(g) \o Messages(h)) = Len(g) + Len(h)
      /\ \A i \in 1..(Len(g) + Len(h)) :
            (Messages(g) \o Messages(h))[i] = IF i <= Len(g) THEN Messages(g)[i] ELSE Messages(h)[i - Len(g)]
  <2>1. Messages(g) \in Seq(Msg) /\ Len(Messages(g)) = Len(g)
        /\ Messages(h) \in Seq(Msg) /\ Len(Messages(h)) = Len(h)
    BY MessagesType
  <2>2. /\ Messages(g) \o Messages(h) \in Seq(Msg)
        /\ Len(Messages(g) \o Messages(h)) = Len(Messages(g)) + Len(Messages(h))
        /\ \A i \in 1..Len(Messages(g)) + Len(Messages(h)) : (Messages(g) \o Messages(h))[i] =
              IF i <= Len(Messages(g)) THEN Messages(g)[i] ELSE Messages(h)[i - Len(Messages(g))]
    BY <2>1, ConcatProperties
  <2> QED BY <2>1, <2>2
<1>3. /\ Messages(g \o h) \in Seq(Msg) /\ Len(Messages(g \o h)) = Len(g) + Len(h)
      /\ \A i \in 1..(Len(g) + Len(h)) : Messages(g \o h)[i] = (g \o h)[i][1]
  BY <1>1, MessagesType
<1>4. Len(g) \in Nat /\ Len(h) \in Nat
  BY LenProperties DEF Gone
<1>5. ASSUME NEW i \in 1..(Len(g) + Len(h))
      PROVE  Messages(g \o h)[i] = (Messages(g) \o Messages(h))[i]
  <2>1. CASE i <= Len(g)
    BY <1>1, <1>2, <1>3, <1>4, <2>1, MessagesType
  <2>2. CASE ~(i <= Len(g))
    <3>1. i - Len(g) \in 1..Len(h)
      BY <1>4, <2>2
    <3> QED BY <1>1, <1>2, <1>3, <1>4, <2>2, <3>1, MessagesType
  <2> QED BY <2>1, <2>2
<1> QED BY <1>2, <1>3, <1>5, SeqEqual

(* Concatenation may be regrouped. *)
LEMMA Regroup ==
  ASSUME NEW a \in Seq(Msg), NEW b \in Seq(Msg), NEW c \in Seq(Msg)
  PROVE  (a \o b) \o c = a \o (b \o c)
BY ConcatAssociative, SMT

LEMMA FifoInductive == TypeOK /\ FifoExactlyOnce /\ [QueueNext]_vars => FifoExactlyOnce'
<1> SUFFICES ASSUME TypeOK, FifoExactlyOnce, [QueueNext]_vars PROVE FifoExactlyOnce'
  OBVIOUS
<1>0. /\ fifo \in Seq(Msg) /\ gone \in Gone /\ Messages(gone) \in Seq(Msg)
      /\ sent = Messages(gone) \o fifo
  BY MessagesType DEF TypeOK, Gone, FifoExactlyOnce, Messages
<1>1. ASSUME sent' = Messages(gone') \o fifo' PROVE FifoExactlyOnce'
  BY <1>1 DEF FifoExactlyOnce, Messages
<1>2. ASSUME NEW m \in Msg, sent' = Append(sent, m), fifo' = Append(fifo, m), gone' = gone
      PROVE  FifoExactlyOnce'
  <2>1. <<m>> \in Seq(Msg) /\ sent \in Seq(Msg)
    BY DEF TypeOK
  <2>2. sent' = (Messages(gone) \o fifo) \o <<m>>
    BY <1>0, <1>2, <2>1, AppendIsConcat
  <2>3. sent' = Messages(gone) \o (fifo \o <<m>>)
    BY <1>0, <2>1, <2>2, ConcatAssociative
  <2> QED BY <1>0, <1>1, <1>2, <2>3, AppendIsConcat
<1>3. ASSUME NEW h \in Gone, sent' = sent, gone' = gone \o h, fifo' \in Seq(Msg),
             fifo = Messages(h) \o fifo'
      PROVE  FifoExactlyOnce'
  <2>1. Messages(h) \in Seq(Msg)
    BY MessagesType
  <2>2. sent' = (Messages(gone) \o Messages(h)) \o fifo'
    <3>1. sent' = Messages(gone) \o (Messages(h) \o fifo')
      BY <1>0, <1>3
    <3>2. Messages(gone) \in Seq(Msg) /\ fifo' \in Seq(Msg)
      BY <1>0, <1>3
    <3> QED BY <2>1, <3>1, <3>2, Regroup
  <2> QED BY <1>0, <1>1, <1>3, <2>2, MessagesConcat
<1>4. ASSUME UNCHANGED <<sent, gone, fifo>> PROVE FifoExactlyOnce'
  BY <1>4 DEF FifoExactlyOnce
<1>5. ASSUME NEW t \in Threads, NEW m \in Msg, NEW nonblock \in BOOLEAN, SendLocked(t, m, nonblock)
      PROVE  FifoExactlyOnce'
  BY <1>2, <1>4, <1>5 DEF SendLocked, SendReturns, SendWaits, SendWrites, WriteMessage
<1>6. ASSUME NEW t \in Threads, NEW nonblock \in BOOLEAN, RecvLocked(t, nonblock)
      PROVE  FifoExactlyOnce'
  <2>1. CASE RecvReads(t)
    <3> DEFINE h == << <<Head(fifo), t>> >>
    <3>1. fifo # <<>> /\ fifo' = Tail(fifo) /\ gone' = Append(gone, <<Head(fifo), t>>)
          /\ sent' = sent /\ Head(fifo) \in Msg /\ fifo' \in Seq(Msg)
      BY <1>0, <1>6, <2>1, HeadTailProperties DEF RecvReads, RecvLocked, Empty
    <3>2. h \in Gone /\ gone' = gone \o h
      <4>1. <<Head(fifo), t>> \in Msg \X (Threads \cup {"free_func"})
        BY <3>1
      <4>2. gone' = gone \o h
        BY <1>0, <3>1, <4>1, AppendIsConcat DEF Gone
      <4> QED BY <4>1, <4>2 DEF Gone
    <3>3. Messages(h) = <<Head(fifo)>>
      BY <3>1 DEF Messages
    <3>4. fifo = <<Head(fifo)>> \o Tail(fifo)
      <4>1. /\ Len(fifo) \in Nat \ {0} /\ Len(Tail(fifo)) = Len(fifo) - 1
            /\ \A i \in 1..Len(Tail(fifo)) : Tail(fifo)[i] = fifo[i + 1]
        BY <1>0, <3>1, HeadTailProperties, EmptySeq
      <4>2. <<Head(fifo)>> \in Seq(Msg) /\ Len(<<Head(fifo)>>) = 1
            /\ <<Head(fifo)>>[1] = fifo[1]
        BY <1>0, <3>1
      <4>3. /\ <<Head(fifo)>> \o Tail(fifo) \in Seq(Msg)
            /\ Len(<<Head(fifo)>> \o Tail(fifo)) = Len(fifo)
            /\ \A i \in 1..Len(fifo) : (<<Head(fifo)>> \o Tail(fifo))[i] =
                  IF i <= 1 THEN <<Head(fifo)>>[i] ELSE Tail(fifo)[i - 1]
        BY <3>1, <4>1, <4>2, ConcatProperties
      <4>4. \A i \in 1..Len(fifo) : fifo[i] = (<<Head(fifo)>> \o Tail(fifo))[i]
        BY <4>1, <4>2, <4>3
      <4> QED BY <1>0, <4>3, <4>4, SeqEqual
    <3> HIDE DEF h
    <3> QED BY <1>3, <3>1, <3>2, <3>3, <3>4
  <2> QED BY <1>4, <1>6, <2>1 DEF RecvLocked, RecvReturns, RecvWaits, RecvFails
<1>7. ASSUME Discard, UNCHANGED sent PROVE FifoExactlyOnce'
  <2> DEFINE h == [i \in 1..Len(fifo) |-> <<fifo[i], "free_func">>]
  <2>1. Len(fifo) \in Nat /\ \A i \in 1..Len(fifo) : fifo[i] \in Msg
    BY <1>0, LenProperties, ElementOfSeq
  <2>2. h \in [1..Len(fifo) -> Msg \X (Threads \cup {"free_func"})]
    BY <2>1
  <2>3. h \in Gone /\ Len(h) = Len(fifo)
    BY <2>1, <2>2, SeqDef, LenProperties DEF Gone
  <2>4. \A i \in 1..Len(fifo) : h[i][1] = fifo[i]
    BY <2>1
  <2> HIDE DEF h
  <2>5. Messages(h) = fifo
    BY <1>0, <2>3, <2>4, MessagesType, SeqEqual
  <2>6. gone' = gone \o h /\ fifo' = <<>> /\ fifo' \in Seq(Msg)
    BY <1>7, EmptySeq DEF Discard, h
  <2>7. fifo = Messages(h) \o fifo'
    BY <1>0, <2>5, <2>6, ConcatEmptySeq
  <2> QED BY <1>3, <1>7, <2>3, <2>6, <2>7
<1>8. ASSUME NEW t \in Threads, ResumeSend(t) PROVE FifoExactlyOnce'
  <2>1. PICK m \in arg[t] : SendLocked(t, m, FALSE)
    BY <1>8 DEF ResumeSend
  <2> QED BY <1>5, <2>1, HeldMessage
<1> QED BY <1>4, <1>5, <1>6, <1>7, <1>8
        DEF QueueNext, Send, Recv, ResumeRecv, SpuriousWake, SetErrSend, SetErrRecv, Flush, QueueFree, vars

LEMMA StartsInOrder == Init => FifoExactlyOnce
<1> SUFFICES ASSUME Init PROVE FifoExactlyOnce
  OBVIOUS
<1>1. gone \in Gone /\ Len(gone) = 0 /\ fifo = <<>> /\ sent = <<>>
  BY EmptySeq DEF Init, Gone
<1>2. Messages(gone) \in Seq(Msg) /\ Len(Messages(gone)) = 0
  BY <1>1, MessagesType
<1>3. Messages(gone) = <<>>
  BY <1>2, EmptySeq
<1>4. sent = Messages(gone) \o fifo
  BY <1>1, <1>3, ConcatEmptySeq, EmptySeq
<1> QED BY <1>4 DEF FifoExactlyOnce, Messages

(* Messages leave the queue in the order in which they were accepted, each *)
(* exactly once, however many threads send, receive and flush.             *)
THEOREM FifoCorrect == Spec => []FifoExactlyOnce
BY StartsInOrder, TypeCorrect, FifoInductive, QueueSteps, PTL DEF Spec

-----------------------------------------------------------------------------
(* The queue implements the abstract channel (its safety part). *)
LEMMA QuietInductive == TypeOK /\ QuietWhenFreed /\ [Next]_vars => QuietWhenFreed'
<1> SUFFICES ASSUME TypeOK, QuietWhenFreed, [Next]_vars PROVE QuietWhenFreed'
  OBVIOUS
<1>1. CASE live /\ UNCHANGED live
  BY <1>1 DEF QuietWhenFreed
<1>2. CASE ~live
  <2>1. \A t \in Threads : status[t] = "idle"
    BY <1>2 DEF QuietWhenFreed, At
  <2>2. UNCHANGED <<status, live>>
    BY <1>2, <2>1 DEF Next, Send, Recv, ResumeSend, ResumeRecv, SpuriousWake, SetErrSend,
                      SetErrRecv, Flush, QueueFree, vars
  <2> QED BY <2>2 DEF QuietWhenFreed, At
<1>3. CASE live /\ ~UNCHANGED live
  <2>1. QueueFree
    BY <1>3 DEF Next, Send, Recv, ResumeSend, ResumeRecv, SendLocked, RecvLocked, SpuriousWake,
                SetErrSend, SetErrRecv, Flush, vars
  <2> QED BY <2>1 DEF QueueFree, QuietWhenFreed, At
<1> QED BY <1>1, <1>2, <1>3

LEMMA PendReturn ==
  ASSUME NEW t \in Threads, TypeOK, status' = Leave(t)
  PROVE  Pend' = [Pend EXCEPT ![t] = "none"]
BY DEF Pend, TypeOK, Leave, Status

LEMMA PendSignal ==
  ASSUME NEW t \in Threads, TypeOK,
         \/ status' \in Signal(Leave(t), "recv_wait", "recv_woken")
         \/ status' \in Signal(Leave(t), "send_wait", "send_woken")
  PROVE  Pend' = [Pend EXCEPT ![t] = "none"]
<1>1. Leave(t) \in [Threads -> Status]
  BY DEF Leave, TypeOK, Status
<1>2. CASE status' = Leave(t)
  BY <1>2, PendReturn
<1>3. ASSUME NEW v \in Threads,
             \/ Leave(t)[v] = "recv_wait" /\ status' = [Leave(t) EXCEPT ![v] = "recv_woken"]
             \/ Leave(t)[v] = "send_wait" /\ status' = [Leave(t) EXCEPT ![v] = "send_woken"]
      PROVE  Pend' = [Pend EXCEPT ![t] = "none"]
  BY <1>3 DEF Pend, TypeOK, Leave, Status
<1> QED BY <1>1, <1>2, <1>3, SignalEffect DEF Status

LEMMA PendUnchanged ==
  ASSUME TypeOK, \/ status' = Broadcast("send_wait", "send_woken")
                 \/ status' = Broadcast("recv_wait", "recv_woken")
                 \/ \E t \in Threads : SpuriousWake(t)
  PROVE  Pend' = Pend
BY DEF Pend, TypeOK, Broadcast, SpuriousWake, Status

LEMMA RefinementStep == TypeOK /\ QuietWhenFreed /\ [Next]_vars => [Channel!Next]_(Channel!vars)
<1> SUFFICES ASSUME TypeOK, QuietWhenFreed, [Next]_vars PROVE [Channel!Next]_(Channel!vars)
  OBVIOUS
<1> USE DEF Channel!vars, Status
<1>1. ASSUME NEW t \in Threads, NEW m \in Msg, NEW nonblock \in BOOLEAN, live,
             \/ status[t] = "idle"
             \/ status[t] = "send_woken" /\ m \in arg[t] /\ nonblock = FALSE,
             SendLocked(t, m, nonblock)
      PROVE  [Channel!Next]_(Channel!vars)
  <2>0. /\ Pend[t] = IF status[t] = "idle" THEN "none" ELSE "send"
        /\ UNCHANGED <<err_send, err_recv, live>>
    BY <1>1 DEF Pend, SendLocked, TypeOK
  <2>1. ASSUME nonblock, err_send = 0, Full, SendReturns(t, "EAGAIN")
        PROVE  Channel!Next
    <3>1. Channel!Refuse(t)
      BY <1>1, <2>0, <2>1, PendReturn
         DEF Channel!Refuse, Channel!Return, SendReturns, Return, Full, Pend
    <3> QED BY <1>1, <3>1 DEF Channel!Next, Channel!CallStep
  <2>2. CASE SendWaits(t, m)
    <3>1. status' = [status EXCEPT ![t] = "send_wait"]
          /\ arg' = [arg EXCEPT ![t] = {m}] /\ UNCHANGED <<fifo, ret>>
          /\ err_send = 0 /\ Len(fifo) = nelem
      BY <2>2 DEF SendWaits, Full
    <3>2. CASE status[t] = "idle"
      <4>1. Pend' = [Pend EXCEPT ![t] = "send"]
        BY <3>1 DEF Pend, TypeOK
      <4>2. Channel!BlockSend(t, m)
        BY <2>0, <3>1, <3>2, <4>1 DEF Channel!BlockSend, Pend
      <4> QED BY <1>1, <4>2 DEF Channel!Next, Channel!CallStep
    <3>3. CASE status[t] = "send_woken"
      <4>0. arg' = arg
        BY <1>1, <3>1, <3>3, HeldMessage DEF TypeOK
      <4>1. Pend' = Pend
        BY <3>1, <3>3 DEF Pend, TypeOK
      <4> QED BY <2>0, <3>1, <4>0, <4>1
    <3> QED BY <1>1, <3>1, <3>2, <3>3
  <2>3. ASSUME Channel!Deliver(t, m) PROVE Channel!Next
    <3>1. CASE status[t] = "idle"
      BY <1>1, <2>0, <2>3, <3>1 DEF Channel!Next, Channel!CallStep, Pend
    <3>2. CASE status[t] = "send_woken"
      <4>1. Channel!CompleteSend
        BY <1>1, <2>0, <2>3, <3>2 DEF Channel!CompleteSend, Pend
      <4> QED BY <1>1, <4>1 DEF Channel!Next
    <3> QED BY <1>1, <3>1, <3>2
  <2>4. ASSUME err_send # 0, SendReturns(t, err_send) PROVE Channel!Deliver(t, m)
    BY <2>0, <2>4, PendReturn DEF Channel!Deliver, Channel!Return, SendReturns, Return, Pend
  <2>5. CASE SendWrites(t, m)
    <3>1. Len(fifo) < nelem
      BY <2>5, LenProperties, QueueAssumption DEF SendWrites, Full, TypeOK, QueueAssumption
    <3> QED BY <2>0, <2>3, <2>5, <3>1, PendSignal
            DEF Channel!Deliver, Channel!Return, SendWrites, WriteMessage, Return, Pend
  <2> QED BY <1>1, <2>1, <2>2, <2>3, <2>4, <2>5 DEF SendLocked
<1>2. ASSUME NEW t \in Threads, NEW nonblock \in BOOLEAN, live,
             \/ status[t] = "idle"
             \/ status[t] = "recv_woken" /\ nonblock = FALSE,
             RecvLocked(t, nonblock)
      PROVE  [Channel!Next]_(Channel!vars)
  <2>0. /\ Pend[t] = IF status[t] = "idle" THEN "none" ELSE "recv"
        /\ UNCHANGED <<err_send, err_recv, live>>
    BY <1>2 DEF Pend, RecvLocked, TypeOK
  <2>1. ASSUME nonblock, err_recv = 0, Empty, RecvReturns(t, "EAGAIN")
        PROVE  Channel!Next
    <3>1. Channel!Refuse(t)
      BY <1>2, <2>0, <2>1, PendReturn
         DEF Channel!Refuse, Channel!Return, RecvReturns, Return, Empty, Pend
    <3> QED BY <1>2, <3>1 DEF Channel!Next, Channel!CallStep
  <2>2. CASE RecvWaits(t)
    <3>1. status' = [status EXCEPT ![t] = "recv_wait"] /\ UNCHANGED <<fifo, arg, ret>>
          /\ err_recv = 0 /\ fifo = <<>>
      BY <2>2 DEF RecvWaits, Empty
    <3>2. CASE status[t] = "idle"
      <4>1. Pend' = [Pend EXCEPT ![t] = "recv"]
        BY <3>1 DEF Pend, TypeOK
      <4>2. Channel!BlockRecv(t)
        BY <2>0, <3>1, <3>2, <4>1 DEF Channel!BlockRecv, Pend
      <4> QED BY <1>2, <4>2 DEF Channel!Next, Channel!CallStep
    <3>3. CASE status[t] = "recv_woken"
      <4>1. Pend' = Pend
        BY <3>1, <3>3 DEF Pend, TypeOK
      <4> QED BY <2>0, <3>1, <4>1
    <3> QED BY <1>2, <3>2, <3>3
  <2>3. ASSUME Channel!Take(t) PROVE Channel!Next
    <3>1. CASE status[t] = "idle"
      BY <1>2, <2>0, <2>3, <3>1 DEF Channel!Next, Channel!CallStep, Pend
    <3>2. CASE status[t] = "recv_woken"
      <4>1. Channel!CompleteRecv
        BY <1>2, <2>0, <2>3, <3>2 DEF Channel!CompleteRecv, Pend
      <4> QED BY <1>2, <4>1 DEF Channel!Next
    <3> QED BY <1>2, <3>1, <3>2
  <2>4. CASE RecvFails(t)
    <3>1. Channel!Take(t)
      BY <2>0, <2>4, PendReturn
         DEF Channel!Take, Channel!Return, RecvFails, RecvReturns, Return, Empty, Pend
    <3> QED BY <2>3, <3>1
  <2>5. CASE RecvReads(t)
    <3>1. Channel!Take(t)
      BY <2>0, <2>5, PendSignal DEF Channel!Take, Channel!Return, RecvReads, Return, Empty, Pend
    <3> QED BY <2>3, <3>1
  <2> QED BY <1>2, <2>1, <2>2, <2>3, <2>4, <2>5 DEF RecvLocked
<1>3. ASSUME NEW t \in Threads, SpuriousWake(t) PROVE UNCHANGED Channel!vars
  BY <1>3, PendUnchanged DEF SpuriousWake, Pend
<1>4. ASSUME NEW err \in Errors \cup {0}, SetErrSend(err) \/ SetErrRecv(err)
      PROVE  Channel!Next
  <2>1. Channel!SetErr
    BY <1>4, PendUnchanged DEF SetErrSend, SetErrRecv, Channel!SetErr, Pend
  <2> QED BY <1>4, <2>1 DEF Channel!Next, SetErrSend, SetErrRecv
<1>5. CASE Flush
  <2>1. Channel!Flush
    BY <1>5, PendUnchanged DEF Flush, Discard, Channel!Flush, Pend
  <2> QED BY <1>5, <2>1 DEF Channel!Next, Flush
<1>6. CASE QueueFree
  <2>1. \A t \in Threads : Pend[t] = "none"
    BY <1>6 DEF QueueFree, At, Pend
  <2>2. Channel!Free
    BY <1>6, <2>1 DEF QueueFree, Discard, Channel!Free, Pend
  <2> QED BY <1>6, <2>2 DEF Channel!Next, QueueFree
<1>7. CASE UNCHANGED vars
  BY <1>7 DEF vars, Pend
<1>8. ASSUME NEW t \in Threads, status[t] # "idle" PROVE live
  BY <1>8 DEF QuietWhenFreed, At
<1>9. ASSUME NEW t \in Threads, ResumeSend(t) PROVE [Channel!Next]_(Channel!vars)
  <2>1. PICK m \in arg[t] : SendLocked(t, m, FALSE)
    BY <1>9 DEF ResumeSend
  <2>2. m \in Msg /\ status[t] = "send_woken" /\ live
    BY <1>8, <1>9, HeldMessage DEF ResumeSend
  <2> QED BY <1>1, <2>1, <2>2
<1>10. ASSUME NEW t \in Threads, ResumeRecv(t) PROVE [Channel!Next]_(Channel!vars)
  <2>1. status[t] = "recv_woken" /\ live /\ RecvLocked(t, FALSE)
    BY <1>8, <1>10 DEF ResumeRecv
  <2> QED BY <1>2, <2>1
<1>11. ASSUME NEW t \in Threads, NEW m \in Msg, NEW nonblock \in BOOLEAN, Send(t, m, nonblock)
       PROVE  [Channel!Next]_(Channel!vars)
  BY <1>1, <1>11 DEF Send
<1>12. ASSUME NEW t \in Threads, NEW nonblock \in BOOLEAN, Recv(t, nonblock)
       PROVE  [Channel!Next]_(Channel!vars)
  BY <1>2, <1>12 DEF Recv
<1> QED
  <2> HIDE DEF Channel!vars
  <2> QED BY <1>3, <1>4, <1>5, <1>6, <1>7, <1>9, <1>10, <1>11, <1>12 DEF Next

(* Every behaviour of the queue is a behaviour of the abstract channel: no *)
(* interleaving of locks, waits and wake-ups is visible to its users.      *)
THEOREM QueueImplementsChannel == Spec => Channel!Init /\ [][Channel!Next]_(Channel!vars)
<1>1. Init => QuietWhenFreed
  BY DEF Init, QuietWhenFreed
<1>2. Init => Channel!Init
  BY DEF Init, Channel!Init, Pend
<1> QED BY <1>1, <1>2, TypeCorrect, QuietInductive, RefinementStep, PTL DEF Spec
-----------------------------------------------------------------------------
(* What a call of the queue does, as its caller sees it. *)
Idle(t) == Pend[t] = "none"
Returns(t, r) == /\ Pend' = [Pend EXCEPT ![t] = "none"]
                 /\ arg' = [arg EXCEPT ![t] = {}] /\ ret' = [ret EXCEPT ![t] = r]

SendOutcome(t, m, nonblock) ==
  /\ UNCHANGED <<err_send, err_recv, live, gone>>
  /\ \/ /\ ~nonblock /\ err_send = 0
        /\ Pend' = [Pend EXCEPT ![t] = "send"] /\ arg' = [arg EXCEPT ![t] = {m}]
        /\ UNCHANGED <<fifo, ret, sent>>
     \/ nonblock /\ err_send = 0 /\ Returns(t, "EAGAIN") /\ UNCHANGED <<fifo, sent>>
     \/ err_send # 0 /\ Returns(t, err_send) /\ UNCHANGED <<fifo, sent>>
     \/ err_send = 0 /\ Returns(t, "ok") /\ fifo' = Append(fifo, m) /\ sent' = Append(sent, m)

RecvOutcome(t, nonblock) ==
  /\ UNCHANGED <<err_send, err_recv, live, sent>>
  /\ \/ /\ ~nonblock /\ Pend' = [Pend EXCEPT ![t] = "recv"]
        /\ UNCHANGED <<fifo, arg, ret, gone>>
     \/ nonblock /\ err_recv = 0 /\ Returns(t, "EAGAIN") /\ UNCHANGED <<fifo, gone>>
     \/ err_recv # 0 /\ fifo = <<>> /\ Returns(t, err_recv) /\ UNCHANGED <<fifo, gone>>
     \/ /\ fifo # <<>> /\ Returns(t, Head(fifo))
        /\ fifo' = Tail(fifo) /\ gone' = Append(gone, <<Head(fifo), t>>)

LEMMA IdleStatus ==
  ASSUME TypeOK, NEW t \in Threads
  PROVE  /\ Idle(t) <=> status[t] = "idle"
         /\ Pend[t] = "send" <=> status[t] \in {"send_wait", "send_woken"}
         /\ Pend[t] = "recv" <=> status[t] \in {"recv_wait", "recv_woken"}
         /\ Pend[t] \in {"none", "send", "recv"} /\ Pend \in [Threads -> {"none", "send", "recv"}]
         /\ Pend[t] = "send" <=> arg[t] # {}
BY DEF Idle, Pend, TypeOK, Status

LEMMA SendsDo ==
  ASSUME TypeOK, NEW t \in Threads, NEW m \in Msg, NEW nonblock \in BOOLEAN,
         status[t] \in {"idle", "send_woken"}, SendLocked(t, m, nonblock)
  PROVE  SendOutcome(t, m, nonblock)
<1>1. UNCHANGED <<err_send, err_recv, live, gone>>
  BY DEF SendLocked
<1>2. CASE nonblock /\ err_send = 0 /\ Full /\ SendReturns(t, "EAGAIN")
  BY <1>1, <1>2, PendReturn DEF SendReturns, Return, Returns, SendOutcome
<1>3. CASE ~nonblock /\ SendWaits(t, m)
  <2>1. status' = [status EXCEPT ![t] = "send_wait"]
    BY <1>3 DEF SendWaits
  <2>2. Pend' = [Pend EXCEPT ![t] = "send"]
    BY <2>1 DEF Pend, TypeOK
  <2> QED BY <1>1, <1>3, <2>2 DEF SendWaits, SendOutcome
<1>4. CASE err_send # 0 /\ SendReturns(t, err_send)
  BY <1>1, <1>4, PendReturn DEF SendReturns, Return, Returns, SendOutcome
<1>5. CASE SendWrites(t, m)
  BY <1>1, <1>5, PendSignal DEF SendWrites, WriteMessage, Return, Returns, SendOutcome
<1> QED BY <1>2, <1>3, <1>4, <1>5 DEF SendLocked

LEMMA RecvsDo ==
  ASSUME TypeOK, NEW t \in Threads, NEW nonblock \in BOOLEAN,
         status[t] \in {"idle", "recv_woken"}, RecvLocked(t, nonblock)
  PROVE  RecvOutcome(t, nonblock)
<1>1. UNCHANGED <<err_send, err_recv, live, sent>>
  BY DEF RecvLocked
<1>2. CASE nonblock /\ err_recv = 0 /\ Empty /\ RecvReturns(t, "EAGAIN")
  BY <1>1, <1>2, PendReturn DEF RecvReturns, Return, Returns, RecvOutcome
<1>3. CASE ~nonblock /\ RecvWaits(t)
  <2>1. status' = [status EXCEPT ![t] = "recv_wait"]
    BY <1>3 DEF RecvWaits
  <2>2. Pend' = [Pend EXCEPT ![t] = "recv"]
    BY <2>1 DEF Pend, TypeOK
  <2> QED BY <1>1, <1>3, <2>2 DEF RecvWaits, RecvOutcome
<1>4. CASE RecvFails(t)
  BY <1>1, <1>4, PendReturn DEF RecvFails, Empty, RecvReturns, Return, Returns, RecvOutcome
<1>5. CASE RecvReads(t)
  BY <1>1, <1>5, PendSignal DEF RecvReads, Empty, Return, Returns, RecvOutcome
<1> QED BY <1>2, <1>3, <1>4, <1>5 DEF RecvLocked

LEMMA SendDoes ==
  ASSUME TypeOK, NEW t \in Threads, NEW m \in Msg, NEW nonblock \in BOOLEAN, Send(t, m, nonblock)
  PROVE  live /\ Idle(t) /\ SendOutcome(t, m, nonblock) /\ QueueNext
BY IdleStatus, SendsDo DEF Send, QueueNext

LEMMA RecvDoes ==
  ASSUME TypeOK, NEW t \in Threads, NEW nonblock \in BOOLEAN, Recv(t, nonblock)
  PROVE  live /\ Idle(t) /\ RecvOutcome(t, nonblock) /\ QueueNext
BY IdleStatus, RecvsDo DEF Recv, QueueNext

LEMMA ResumeSendDoes ==
  ASSUME TypeOK, NEW t \in Threads, ResumeSend(t)
  PROVE  /\ Pend[t] = "send" /\ QueueNext
         /\ \E m \in Msg : arg[t] = {m} /\ SendOutcome(t, m, FALSE)
<1>1. PICK m \in arg[t] : SendLocked(t, m, FALSE)
  BY DEF ResumeSend
<1>2. m \in Msg /\ arg[t] = {m} /\ status[t] = "send_woken"
  BY HeldMessage DEF ResumeSend
<1>3. SendOutcome(t, m, FALSE)
  BY <1>1, <1>2, SendsDo
<1> QED BY <1>2, <1>3, IdleStatus DEF QueueNext

LEMMA ResumeRecvDoes ==
  ASSUME TypeOK, NEW t \in Threads, ResumeRecv(t)
  PROVE  Pend[t] = "recv" /\ QueueNext /\ RecvOutcome(t, FALSE)
BY RecvsDo, IdleStatus DEF ResumeRecv, QueueNext

(* Wake-ups, setting an error, flushing and freeing are not seen by the    *)
(* threads that wait.                                                      *)
LEMMA OthersDo ==
  ASSUME TypeOK
  PROVE  /\ \A t \in Threads : SpuriousWake(t) =>
              QueueNext /\ Pend' = Pend
              /\ UNCHANGED <<fifo, err_send, err_recv, arg, ret, live, sent, gone>>
         /\ \A err \in Errors \cup {0} : SetErrSend(err) =>
              QueueNext /\ Pend' = Pend /\ err_send' = err
              /\ UNCHANGED <<fifo, err_recv, arg, ret, live, sent, gone>>
         /\ \A err \in Errors \cup {0} : SetErrRecv(err) =>
              QueueNext /\ Pend' = Pend /\ err_recv' = err
              /\ UNCHANGED <<fifo, err_send, arg, ret, live, sent, gone>>
         /\ Flush => QueueNext /\ Pend' = Pend /\ Discard
                     /\ UNCHANGED <<err_send, err_recv, arg, ret, live, sent>>
         /\ QueueFree => QueueNext /\ Pend' = Pend /\ Discard
                         /\ UNCHANGED <<err_send, err_recv, arg, ret, sent>>
         /\ UNCHANGED vars =>
              Pend' = Pend /\ UNCHANGED <<fifo, err_send, err_recv, arg, ret, live, sent, gone>>
<1>1. ASSUME NEW t \in Threads, SpuriousWake(t)
      PROVE  QueueNext /\ Pend' = Pend
             /\ UNCHANGED <<fifo, err_send, err_recv, arg, ret, live, sent, gone>>
  <2>1. Pend' = Pend
    BY <1>1, PendUnchanged
  <2> QED BY <1>1, <2>1 DEF QueueNext, SpuriousWake
<1>2. ASSUME NEW err \in Errors \cup {0}, SetErrSend(err)
      PROVE  QueueNext /\ Pend' = Pend /\ err_send' = err
             /\ UNCHANGED <<fifo, err_recv, arg, ret, live, sent, gone>>
  <2>1. Pend' = Pend
    BY <1>2, PendUnchanged DEF SetErrSend
  <2> QED BY <1>2, <2>1 DEF QueueNext, SetErrSend
<1>3. ASSUME NEW err \in Errors \cup {0}, SetErrRecv(err)
      PROVE  QueueNext /\ Pend' = Pend /\ err_recv' = err
             /\ UNCHANGED <<fifo, err_send, arg, ret, live, sent, gone>>
  <2>1. Pend' = Pend
    BY <1>3, PendUnchanged DEF SetErrRecv
  <2> QED BY <1>3, <2>1 DEF QueueNext, SetErrRecv
<1>4. ASSUME Flush
      PROVE  QueueNext /\ Pend' = Pend /\ Discard
             /\ UNCHANGED <<err_send, err_recv, arg, ret, live, sent>>
  <2>1. Pend' = Pend
    BY <1>4, PendUnchanged DEF Flush
  <2> QED BY <1>4, <2>1 DEF QueueNext, Flush
<1>5. ASSUME QueueFree
      PROVE  QueueNext /\ Pend' = Pend /\ Discard
             /\ UNCHANGED <<err_send, err_recv, arg, ret, sent>>
  <2>1. Pend' = Pend
    BY <1>5 DEF QueueFree, Pend
  <2> QED BY <1>5, <2>1 DEF QueueNext, QueueFree
<1>6. ASSUME UNCHANGED vars
      PROVE  Pend' = Pend /\ UNCHANGED <<fifo, err_send, err_recv, arg, ret, live, sent, gone>>
  BY <1>6 DEF vars, Pend
<1> QED BY <1>1, <1>2, <1>3, <1>4, <1>5, <1>6

(* The calls of the input's threads are those of the queue. *)
LEMMA SameCalls ==
  ASSUME NEW t, NEW m, NEW b
  PROVE  /\ I!Send(t, m, b) <=> Send(t, m, b)
         /\ I!Recv(t, b) <=> Recv(t, b)
         /\ I!ResumeSend(t) <=> ResumeSend(t)
         /\ I!ResumeRecv(t) <=> ResumeRecv(t)
         /\ I!SpuriousWake(t) <=> SpuriousWake(t)
         /\ I!SetErrSend(m) <=> SetErrSend(m)
         /\ I!SetErrRecv(m) <=> SetErrRecv(m)
         /\ I!QueueFree <=> QueueFree
         /\ I!Init <=> Init
<1>1. ASSUME NEW x, NEW c PROVE I!SendLocked(t, x, c) <=> SendLocked(t, x, c)
  BY DEF I!SendLocked, SendLocked, I!SendReturns, SendReturns, I!Full, Full, I!SendWaits, SendWaits,
     I!SendWrites, SendWrites, I!WriteMessage, WriteMessage, I!Return, Return, I!Leave, Leave,
     I!Signal, Signal
<1>2. ASSUME NEW c PROVE I!RecvLocked(t, c) <=> RecvLocked(t, c)
  BY DEF I!RecvLocked, RecvLocked, I!RecvReturns, RecvReturns, I!Empty, Empty, I!RecvWaits, RecvWaits,
     I!RecvReads, RecvReads, I!RecvFails, RecvFails, I!Return, Return, I!Leave, Leave,
     I!Signal, Signal
<1>3. I!Send(t, m, b) <=> Send(t, m, b)
  BY <1>1 DEF I!Send, Send
<1>4. I!Recv(t, b) <=> Recv(t, b)
  BY <1>2 DEF I!Recv, Recv
<1>5. I!ResumeSend(t) <=> ResumeSend(t)
  BY <1>1 DEF I!ResumeSend, ResumeSend
<1>6. I!ResumeRecv(t) <=> ResumeRecv(t)
  BY <1>2 DEF I!ResumeRecv, ResumeRecv
<1>7. I!SpuriousWake(t) <=> SpuriousWake(t)
  BY DEF I!SpuriousWake, SpuriousWake
<1>8. /\ I!SetErrSend(m) <=> SetErrSend(m)
      /\ I!SetErrRecv(m) <=> SetErrRecv(m)
  BY DEF I!SetErrSend, SetErrSend, I!SetErrRecv, SetErrRecv, I!Broadcast, Broadcast
<1>9. I!QueueFree <=> QueueFree
  BY DEF I!QueueFree, QueueFree, I!At, At, I!Discard, Discard
<1>10. I!Init <=> Init
  BY DEF I!Init, Init
<1> QED BY <1>3, <1>4, <1>5, <1>6, <1>7, <1>8, <1>9, <1>10
-----------------------------------------------------------------------------
(* The same for each of two threads: what becomes of the caller t, and     *)
(* that the other thread u is left alone.                                  *)
Alone(u) == /\ Pend'[u] = Pend[u] /\ arg'[u] = arg[u] /\ ret'[u] = ret[u]
            /\ DOMAIN ret' = Threads /\ TypeOK'

SendAt(t, u, m, nonblock) ==
  /\ Alone(u) /\ UNCHANGED <<err_send, err_recv, live, gone>>
  /\ \/ /\ ~nonblock /\ err_send = 0 /\ Pend'[t] = "send" /\ arg'[t] = {m}
        /\ UNCHANGED <<fifo, ret, sent>>
     \/ /\ Pend'[t] = "none" /\ UNCHANGED <<fifo, sent>>
        /\ \/ nonblock /\ err_send = 0 /\ ret'[t] = "EAGAIN"
           \/ err_send # 0 /\ ret'[t] = err_send
     \/ /\ err_send = 0 /\ Pend'[t] = "none" /\ ret'[t] = "ok"
        /\ fifo' = Append(fifo, m) /\ sent' = Append(sent, m)

RecvAt(t, u, nonblock) ==
  /\ Alone(u) /\ UNCHANGED <<err_send, err_recv, live, sent>>
  /\ \/ ~nonblock /\ Pend'[t] = "recv" /\ UNCHANGED <<fifo, ret, gone>>
     \/ /\ Pend'[t] = "none" /\ UNCHANGED <<fifo, gone>>
        /\ \/ nonblock /\ err_recv = 0 /\ ret'[t] = "EAGAIN"
           \/ err_recv # 0 /\ fifo = <<>> /\ ret'[t] = err_recv
     \/ /\ Pend'[t] = "none" /\ fifo # <<>> /\ ret'[t] = Head(fifo)
        /\ fifo' = Tail(fifo) /\ gone' = Append(gone, <<Head(fifo), t>>)

LEMMA ReturnsAt ==
  ASSUME TypeOK, DOMAIN ret = Threads, NEW t \in Threads, NEW u \in Threads, u # t,
         NEW r, Returns(t, r)
  PROVE  /\ Pend'[t] = "none" /\ ret'[t] = r /\ DOMAIN ret' = Threads
         /\ Pend'[u] = Pend[u] /\ arg'[u] = arg[u] /\ ret'[u] = ret[u]
<1>1. /\ Pend' = [Pend EXCEPT ![t] = "none"] /\ DOMAIN Pend = Threads
      /\ arg' = [arg EXCEPT ![t] = {}] /\ DOMAIN arg = Threads
      /\ ret' = [ret EXCEPT ![t] = r]
  BY DEF Returns, Pend, TypeOK
<1> HIDE DEF Pend
<1> QED BY <1>1

LEMMA TypeKept ==
  TypeOK /\ QueueNext => TypeOK'
BY TypeInductive

LEMMA SendsAt ==
  ASSUME TypeOK, TypeOK', DOMAIN ret = Threads, NEW t \in Threads, NEW u \in Threads, u # t,
         NEW m, NEW nonblock, SendOutcome(t, m, nonblock)
  PROVE  SendAt(t, u, m, nonblock)
<1>1. CASE ~nonblock /\ err_send = 0 /\ Pend' = [Pend EXCEPT ![t] = "send"]
           /\ arg' = [arg EXCEPT ![t] = {m}] /\ UNCHANGED <<fifo, ret, sent>>
  <2>1. DOMAIN Pend = Threads /\ DOMAIN arg = Threads
    BY DEF Pend, TypeOK
  <2>2. /\ Pend'[t] = "send" /\ Pend'[u] = Pend[u]
        /\ arg'[t] = {m} /\ arg'[u] = arg[u]
    BY <1>1, <2>1
  <2> QED BY <1>1, <2>2 DEF SendOutcome, SendAt, Alone
<1>2. ASSUME NEW r, Returns(t, r)
      PROVE  Alone(u) /\ Pend'[t] = "none" /\ ret'[t] = r
  BY <1>2, ReturnsAt DEF Alone
<1> QED BY <1>1, <1>2 DEF SendOutcome, SendAt

LEMMA RecvsAt ==
  ASSUME TypeOK, TypeOK', DOMAIN ret = Threads, NEW t \in Threads, NEW u \in Threads, u # t,
         NEW nonblock, RecvOutcome(t, nonblock)
  PROVE  RecvAt(t, u, nonblock)
<1>1. CASE ~nonblock /\ Pend' = [Pend EXCEPT ![t] = "recv"] /\ UNCHANGED <<fifo, arg, ret, gone>>
  <2>1. DOMAIN Pend = Threads
    BY DEF Pend
  <2>2. Pend'[t] = "recv" /\ Pend'[u] = Pend[u]
    BY <1>1, <2>1
  <2> QED BY <1>1, <2>2 DEF RecvOutcome, RecvAt, Alone
<1>2. ASSUME NEW r, Returns(t, r)
      PROVE  Alone(u) /\ Pend'[t] = "none" /\ ret'[t] = r
  BY <1>2, ReturnsAt DEF Alone
<1> QED BY <1>1, <1>2 DEF RecvOutcome, RecvAt

(* Main and Writer are two threads. *)
LEMMA TwoThreads ==
  Main \in Threads /\ Writer \in Threads /\ Main # Writer
BY FifoAssumption DEF FifoAssumption

-----------------------------------------------------------------------------
(* An input thread and the main thread. *)
Getting == {"getting", "draining", "loop_draining"}
Wanted == {"run", "getting", "loop", "ended"}      \* Main still wants packets
Emptied == {"join", "loop_join", "seek", "freed"}   \* Main has emptied the queue
Ended == ipc \in {"exit", "done"}

InputControl ==
  /\ ipc \in {"read", "send", "sending", "exit", "done"}
  /\ main \in Wanted \cup Getting \cup Emptied \cup {"drain", "loop_drain"}
  /\ read \in Seq(Msg) /\ got \in Seq(Msg) /\ drained \in Seq(Msg)
  /\ ending \in Errors \cup {0} /\ flags \in BOOLEAN /\ non_blocking \in BOOLEAN
  /\ ipc \in {"send", "sending"} => \E m \in Msg : pkt = <<m>>
  /\ ipc \notin {"send", "sending"} => pkt = <<>>
  /\ Pend[Writer] # "none" =>
       Pend[Writer] = "send" /\ ipc = "sending" /\ arg[Writer] = {Head(pkt)}
  /\ Pend[Main] # "none" => Pend[Main] = "recv" /\ main \in Getting

(* Each side's error is set by the other thread, and what the calls return *)
(* depends on it: the queue is empty when Main has got the error, and      *)
(* stays empty, since Input has ended or its sends fail.                   *)
InputEnds ==
  /\ ~Ended => err_recv = 0 /\ ending = 0
  /\ main \in Wanted => err_send = 0 /\ drained = <<>>
  /\ main \notin Wanted \cup {"seek", "freed"} => err_send # 0
  /\ Ended /\ main \in Wanted => ending # 0 /\ err_recv = ending
  /\ ipc = "sending" /\ Pend[Writer] = "none" /\ ret[Writer] \in Errors => err_send # 0
  /\ main = "getting" /\ Pend[Main] = "none" /\ ret[Main] \in Errors =>
       Ended /\ ret[Main] = ending /\ fifo = <<>>
  /\ main \in Getting /\ Pend[Main] = "none" /\ ret[Main] \in Errors => fifo = <<>>
  /\ main \in Emptied => fifo = <<>>
  /\ main \in {"seek", "freed"} => ipc = "done"

InputInv ==
  TypeOK /\ DOMAIN ret = Threads /\ InputControl /\ InputEnds /\ I!PacketsOwnedOnce

(* What the threads hold, in terms of what has become of their calls. *)
LEMMA HandsAre ==
  /\ I!Received = IF main \in Getting /\ Pend[Main] = "none" /\ ret[Main] \in Msg
                  THEN <<ret[Main]>> ELSE <<>>
  /\ I!Unsent = IF ipc = "sending" /\ Pend[Writer] = "none" /\ ret[Writer] = "ok"
                THEN <<>> ELSE pkt
  /\ I!Refused = IF Ended /\ ending = 0 THEN 1 ELSE 0
<1>1. /\ status[Main] = "idle" <=> Pend[Main] = "none"
      /\ status[Writer] = "idle" <=> Pend[Writer] = "none"
  BY TwoThreads DEF Pend
<1> HIDE DEF Pend
<1> QED BY <1>1 DEF I!Received, I!Unsent, I!Refused, I!Idle, Getting, Ended

LEMMA HandsWillBe ==
  /\ I!Received' = IF main' \in Getting /\ Pend'[Main] = "none" /\ ret'[Main] \in Msg
                   THEN <<ret'[Main]>> ELSE <<>>
  /\ I!Unsent' = IF ipc' = "sending" /\ Pend'[Writer] = "none" /\ ret'[Writer] = "ok"
                 THEN <<>> ELSE pkt'
  /\ I!Refused' = IF Ended' /\ ending' = 0 THEN 1 ELSE 0
<1>1. /\ status'[Main] = "idle" <=> Pend'[Main] = "none"
      /\ status'[Writer] = "idle" <=> Pend'[Writer] = "none"
  BY TwoThreads DEF Pend
<1> HIDE DEF Pend
<1> QED BY <1>1 DEF I!Received, I!Unsent, I!Refused, I!Idle, Getting, Ended

(* Where the packets are, oldest first: g processed, d thrown away, r in   *)
(* Main's hands, f in the queue, u in Input's.                             *)
Owned(g, d, r, f, u) == g \o d \o r \o f \o u
AllBut(q, n) == SubSeq(q, 1, Len(q) - n)

LEMMA OwnedIs ==
  /\ I!PacketsOwnedOnce <=>
       Owned(got, drained, I!Received, fifo, I!Unsent) = AllBut(read, I!Refused)
  /\ I!PacketsOwnedOnce' <=>
       Owned(got', drained', I!Received', fifo', I!Unsent') = AllBut(read', I!Refused')
BY DEF I!PacketsOwnedOnce, Owned, AllBut

(* Sequences: what the five steps of a packet do to the whole. *)
LEMMA Joined ==
  ASSUME NEW a \in Seq(Msg), NEW b \in Seq(Msg)
  PROVE  a \o b \in Seq(Msg) /\ a \o <<>> = a /\ <<>> \o a = a /\ <<>> \in Seq(Msg)
<1>1. <<>> \in Seq(Msg)
  OBVIOUS
<1>2. a \o b \in Seq(Msg)
  BY ConcatProperties
<1>3. a \o <<>> = a /\ <<>> \o a = a
  BY ConcatEmptySeq
<1> QED BY <1>1, <1>2, <1>3

LEMMA AllButNone ==
  ASSUME NEW q \in Seq(Msg)
  PROVE  AllBut(q, 0) = q
<1>1. Len(q) - 0 = Len(q) /\ Len(q) \in Nat
  OBVIOUS
<1>2. SubSeq(q, 1, Len(q)) = q
  OBVIOUS
<1> QED BY <1>1, <1>2 DEF AllBut

LEMMA AllButLast ==
  ASSUME NEW q \in Seq(Msg), NEW m \in Msg, NEW a \in Seq(Msg), a \o <<m>> = q
  PROVE  AllBut(q, 1) = a
<1>1. <<m>> \in Seq(Msg) /\ Len(<<m>>) = 1 /\ Len(a) \in Nat
  OBVIOUS
<1>2. /\ Len(q) = Len(a) + 1
      /\ \A i \in 1 .. Len(a) + 1 : q[i] = IF i <= Len(a) THEN a[i] ELSE <<m>>[i - Len(a)]
  BY <1>1, ConcatProperties
<1>3. Len(q) - 1 = Len(a)
  BY <1>1, <1>2
<1>4. SubSeq(q, 1, Len(a)) = a
  <2>1. SubSeq(q, 1, Len(a)) \in Seq(Msg) /\ Len(SubSeq(q, 1, Len(a))) = Len(a)
        /\ \A i \in 1 .. Len(a) : SubSeq(q, 1, Len(a))[i] = q[i]
    BY <1>1, <1>2
  <2>2. \A i \in 1 .. Len(a) : q[i] = a[i]
    BY <1>1, <1>2
  <2> QED BY <2>1, <2>2, SeqEqual
<1> QED BY <1>3, <1>4 DEF AllBut

LEMMA HeadAndTail ==
  ASSUME NEW f \in Seq(Msg), f # <<>>
  PROVE  Head(f) \in Msg /\ Tail(f) \in Seq(Msg) /\ f = <<Head(f)>> \o Tail(f)
<1>1. /\ Head(f) \in Msg /\ Tail(f) \in Seq(Msg) /\ Len(f) \in Nat \ {0}
      /\ Len(Tail(f)) = Len(f) - 1 /\ Head(f) = f[1]
      /\ \A i \in 1 .. Len(Tail(f)) : Tail(f)[i] = f[i + 1]
  BY HeadTailProperties, EmptySeq
<1>0. <<Head(f)>> \in Seq(Msg)
  BY <1>1
<1>2. PICK h \in Seq(Msg), b \in Seq(Msg) : h = <<Head(f)>> /\ b = Tail(f)
  BY <1>0, <1>1, Zenon
<1>3. Len(h) = 1 /\ h[1] = f[1] /\ Len(b) \in Nat /\ Len(f) = 1 + Len(b)
      /\ \A i \in 1 .. Len(b) : b[i] = f[i + 1]
  BY <1>1, <1>2
<1>4. /\ h \o b \in Seq(Msg) /\ Len(h \o b) = Len(h) + Len(b)
      /\ \A i \in 1 .. Len(h) + Len(b) : (h \o b)[i] = IF i <= Len(h) THEN h[i] ELSE b[i - Len(h)]
  BY ConcatProperties
<1>5. ASSUME NEW i \in 1 .. Len(f) PROVE f[i] = (h \o b)[i]
  <2>1. i \in Nat /\ i >= 1 /\ i \in 1 .. Len(h) + Len(b)
    BY <1>3
  <2>2. CASE i = 1
    BY <1>3, <1>4, <2>1, <2>2
  <2>3. CASE i > 1
    <3>1. i - 1 \in 1 .. Len(b) /\ (i - 1) + 1 = i
      BY <1>3, <2>1, <2>3
    <3>2. (h \o b)[i] = b[i - 1]
      BY <1>3, <1>4, <2>1, <2>3
    <3>3. b[i - 1] = f[i]
      BY <1>3, <3>1
    <3> QED BY <3>2, <3>3
  <2> QED BY <2>1, <2>2, <2>3
<1>6. f = h \o b
  BY <1>3, <1>4, <1>5, SeqEqual
<1> QED BY <1>1, <1>2, <1>6

LEMMA OwnedParts ==
  ASSUME NEW g \in Seq(Msg), NEW d \in Seq(Msg), NEW r \in Seq(Msg), NEW f \in Seq(Msg),
         NEW u \in Seq(Msg)
  PROVE  /\ g \o d \in Seq(Msg) /\ g \o d \o r \in Seq(Msg) /\ g \o d \o r \o f \in Seq(Msg)
         /\ Owned(g, d, r, f, u) \in Seq(Msg)
         /\ Owned(g, d, r, f, <<>>) = g \o d \o r \o f
         /\ Owned(g, d, r, f, u) = Owned(g, d, r, f, <<>>) \o u
<1>1. g \o d \in Seq(Msg)
  BY Joined
<1>2. g \o d \o r \in Seq(Msg)
  BY <1>1, Joined
<1>3. g \o d \o r \o f \in Seq(Msg)
  BY <1>2, Joined
<1>4. (g \o d \o r \o f) \o u \in Seq(Msg) /\ (g \o d \o r \o f) \o <<>> = g \o d \o r \o f
  BY <1>3, Joined
<1> QED BY <1>1, <1>2, <1>3, <1>4 DEF Owned

LEMMA OwnedRead ==
  ASSUME NEW g \in Seq(Msg), NEW d \in Seq(Msg), NEW r \in Seq(Msg), NEW f \in Seq(Msg),
         NEW m \in Msg, NEW q \in Seq(Msg), Owned(g, d, r, f, <<>>) = q
  PROVE  Owned(g, d, r, f, <<m>>) = Append(q, m)
<1>1. g \o d \in Seq(Msg)
  BY Joined
<1>2. g \o d \o r \in Seq(Msg)
  BY <1>1, Joined
<1>3. g \o d \o r \o f \in Seq(Msg)
  BY <1>2, Joined
<1>4. (g \o d \o r \o f) \o <<>> = g \o d \o r \o f
  BY <1>3, Joined
<1>5. g \o d \o r \o f = q
  BY <1>4 DEF Owned
<1>6. Append(q, m) = q \o <<m>>
  BY AppendIsConcat
<1> QED BY <1>5, <1>6 DEF Owned

LEMMA OwnedRefused ==
  ASSUME NEW g \in Seq(Msg), NEW d \in Seq(Msg), NEW r \in Seq(Msg), NEW f \in Seq(Msg),
         NEW m \in Msg, NEW q \in Seq(Msg), Owned(g, d, r, f, <<m>>) = q
  PROVE  Owned(g, d, r, f, <<>>) = AllBut(q, 1)
<1>1. g \o d \o r \o f \in Seq(Msg)
  BY OwnedParts
<1>2. (g \o d \o r \o f) \o <<>> = g \o d \o r \o f
  BY <1>1, Joined
<1>3. (g \o d \o r \o f) \o <<m>> = q
  BY DEF Owned
<1> QED BY <1>1, <1>2, <1>3, AllButLast DEF Owned

(* Concatenation under a name, for uses of its associativity in which the  *)
(* provers need not look into it.                                          *)
Cat(a, b) == a \o b

LEMMA CatRegroups ==
  ASSUME NEW a \in Seq(Msg), NEW b \in Seq(Msg), NEW c \in Seq(Msg)
  PROVE  Cat(Cat(a, b), c) = Cat(a, Cat(b, c))
BY ConcatAssociative, SMT DEF Cat

LEMMA OwnedSent ==
  ASSUME NEW g \in Seq(Msg), NEW d \in Seq(Msg), NEW r \in Seq(Msg), NEW f \in Seq(Msg),
         NEW m \in Msg
  PROVE  Owned(g, d, r, Append(f, m), <<>>) = Owned(g, d, r, f, <<m>>)
<1>1. <<m>> \in Seq(Msg) /\ Append(f, m) = f \o <<m>> /\ Append(f, m) \in Seq(Msg)
  BY AppendIsConcat
<1>2. g \o d \o r \in Seq(Msg)
  BY OwnedParts
<1>3. (g \o d \o r) \o (f \o <<m>>) = ((g \o d \o r) \o f) \o <<m>>
  <2>1. PICK p \in Seq(Msg), s \in Seq(Msg) : p = g \o d \o r /\ s = <<m>>
    BY <1>1, <1>2
  <2>2. Cat(Cat(p, f), s) = Cat(p, Cat(f, s))
    BY CatRegroups
  <2> QED BY <2>1, <2>2 DEF Cat
<1>4. ASSUME NEW q \in Seq(Msg) PROVE Owned(g, d, r, q, <<>>) = (g \o d \o r) \o q
  <2>1. (g \o d \o r) \o q \in Seq(Msg)
    BY <1>2, Joined
  <2> QED BY <2>1, Joined DEF Owned
<1>5. Owned(g, d, r, Append(f, m), <<>>) = (g \o d \o r) \o Append(f, m)
  BY <1>1, <1>4
<1> QED BY <1>1, <1>3, <1>5 DEF Owned

LEMMA OwnedTaken ==
  ASSUME NEW g \in Seq(Msg), NEW d \in Seq(Msg), NEW f \in Seq(Msg), f # <<>>,
         NEW u \in Seq(Msg)
  PROVE  Owned(g, d, <<Head(f)>>, Tail(f), u) = Owned(g, d, <<>>, f, u)
<1> DEFINE h == <<Head(f)>>
<1>1. Head(f) \in Msg /\ Tail(f) \in Seq(Msg) /\ f = h \o Tail(f)
  BY HeadAndTail
<1>2. h \in Seq(Msg)
  BY <1>1
<1> HIDE DEF h
<1>3. g \o d \in Seq(Msg) /\ (g \o d) \o <<>> = g \o d
  BY Joined
<1>4. ((g \o d) \o h) \o Tail(f) = (g \o d) \o (h \o Tail(f))
  <2>1. Cat(Cat(g \o d, h), Tail(f)) = Cat(g \o d, Cat(h, Tail(f)))
    BY <1>1, <1>2, <1>3, CatRegroups
  <2> QED BY <2>1 DEF Cat
<1>5. ((g \o d) \o h) \o Tail(f) = ((g \o d) \o <<>>) \o f
  BY <1>1, <1>3, <1>4
<1> QED BY <1>5 DEF Owned, h

LEMMA OwnedGot ==
  ASSUME NEW g \in Seq(Msg), NEW m \in Msg, NEW f \in Seq(Msg), NEW u \in Seq(Msg)
  PROVE  Owned(Append(g, m), <<>>, <<>>, f, u) = Owned(g, <<>>, <<m>>, f, u)
<1>1. <<m>> \in Seq(Msg) /\ Append(g, m) = g \o <<m>> /\ Append(g, m) \in Seq(Msg)
  BY AppendIsConcat
<1>2. g \o <<>> = g /\ Append(g, m) \o <<>> = Append(g, m)
  BY <1>1, Joined
<1>3. (Append(g, m) \o <<>>) \o <<>> = (g \o <<>>) \o <<m>>
  BY <1>1, <1>2
<1> QED BY <1>3 DEF Owned

LEMMA OwnedDrained ==
  ASSUME NEW g \in Seq(Msg), NEW d \in Seq(Msg), NEW m \in Msg, NEW f \in Seq(Msg),
         NEW u \in Seq(Msg)
  PROVE  Owned(g, Append(d, m), <<>>, f, u) = Owned(g, d, <<m>>, f, u)
<1>1. <<m>> \in Seq(Msg) /\ Append(d, m) = d \o <<m>> /\ Append(d, m) \in Seq(Msg)
  BY AppendIsConcat
<1>2. g \o (d \o <<m>>) = (g \o d) \o <<m>>
  <2>1. PICK s \in Seq(Msg) : s = <<m>>
    BY <1>1
  <2>2. Cat(Cat(g, d), s) = Cat(g, Cat(d, s))
    BY CatRegroups
  <2> QED BY <2>1, <2>2 DEF Cat
<1>3. g \o Append(d, m) \in Seq(Msg)
  BY <1>1, Joined
<1>4. (g \o Append(d, m)) \o <<>> = (g \o d) \o <<m>>
  BY <1>1, <1>2, <1>3, Joined
<1> QED BY <1>4 DEF Owned

-----------------------------------------------------------------------------
(* The steps of an input thread and of its main thread. *)
QueueStays == /\ TypeOK' /\ Pend' = Pend
              /\ UNCHANGED <<fifo, err_send, err_recv, arg, ret, live, sent, gone>>

LEMMA NoCallMade ==
  ASSUME TypeOK, UNCHANGED vars
  PROVE  QueueStays
<1>1. TypeOK'
  BY TypeInductive
<1> QED BY <1>1, OthersDo DEF QueueStays

LEMMA Codes ==
  /\ 0 \notin Errors /\ EOF \in Errors
  /\ "ok" \notin Errors /\ "EAGAIN" \notin Errors
  /\ "ok" \notin Msg /\ "EAGAIN" \notin Msg
  /\ \A m \in Msg : m \notin Errors
BY QueueAssumption, FifoAssumption, UsersAssumption
   DEF QueueAssumption, FifoAssumption, UsersAssumption, Words

LEMMA InputParts ==
  ASSUME InputInv
  PROVE  /\ TypeOK /\ DOMAIN ret = Threads /\ fifo \in Seq(Msg)
         /\ read \in Seq(Msg) /\ got \in Seq(Msg) /\ drained \in Seq(Msg)
         /\ I!Received \in Seq(Msg) /\ I!Unsent \in Seq(Msg) /\ pkt \in Seq(Msg)
         /\ Owned(got, drained, I!Received, fifo, I!Unsent) = AllBut(read, I!Refused)
<1>1. /\ TypeOK /\ DOMAIN ret = Threads /\ fifo \in Seq(Msg)
      /\ read \in Seq(Msg) /\ got \in Seq(Msg) /\ drained \in Seq(Msg)
  BY DEF InputInv, InputControl, TypeOK
<1>2. <<>> \in Seq(Msg) /\ \A m \in Msg : <<m>> \in Seq(Msg)
  OBVIOUS
<1>3. pkt \in Seq(Msg)
  BY <1>2 DEF InputInv, InputControl
<1>4. I!Received \in Seq(Msg) /\ I!Unsent \in Seq(Msg)
  BY <1>2, <1>3, HandsAre
<1> QED BY <1>1, <1>3, <1>4, OwnedIs DEF InputInv

(* The part of the invariant about packets needs no proof where neither    *)
(* they nor the hands they are in change.                                  *)
LEMMA MainIdles ==
  ASSUME Pend'[Main] = Pend[Main], ret'[Main] = ret[Main], main' = main
  PROVE  I!Received' = I!Received
BY HandsAre, HandsWillBe

LEMMA InputIdles ==
  ASSUME Pend'[Writer] = Pend[Writer], ret'[Writer] = ret[Writer], ipc' = ipc, pkt' = pkt
  PROVE  I!Unsent' = I!Unsent
BY HandsAre, HandsWillBe

LEMMA RefusesAsBefore ==
  ASSUME Ended' <=> Ended, ending' = ending
  PROVE  I!Refused' = I!Refused
BY HandsAre, HandsWillBe

LEMMA OwnsAsBefore ==
  ASSUME InputInv, I!Received' = I!Received, I!Unsent' = I!Unsent, I!Refused' = I!Refused,
         UNCHANGED <<got, drained, fifo, read>>
  PROVE  I!PacketsOwnedOnce'
BY OwnedIs DEF InputInv

LEMMA ReadFrameKeeps ==
  ASSUME InputInv, I!ReadFrame
  PROVE  InputInv'
<1>1. PICK m \in Msg : pkt' = <<m>> /\ read' = Append(read, m)
  BY DEF I!ReadFrame
<1>2. /\ QueueStays /\ ipc = "read" /\ ipc' = "send"
      /\ UNCHANGED <<main, flags, ending, loops, got, drained, non_blocking>>
  BY NoCallMade DEF InputInv, I!ReadFrame, I!queue, I!vars, vars
<1>3. read' \in Seq(Msg) /\ pkt = <<>> /\ ending = 0
  BY <1>1, <1>2, InputParts DEF InputInv, InputControl, InputEnds, Ended
<1>4. InputControl'
  BY <1>1, <1>2, <1>3 DEF InputInv, InputControl, QueueStays
<1>5. InputEnds'
  BY <1>2 DEF InputInv, InputEnds, QueueStays, Ended
<1>6. I!PacketsOwnedOnce'
  <2>1. I!Received' = I!Received
    BY <1>2, MainIdles DEF QueueStays
  <2>2. I!Unsent = <<>> /\ I!Unsent' = <<m>> /\ I!Refused = 0 /\ I!Refused' = 0
    BY <1>1, <1>2, <1>3, HandsAre, HandsWillBe DEF Ended
  <2>3. <<m>> \in Seq(Msg) /\ read' = read \o <<m>>
    BY <1>1, InputParts, AppendIsConcat
  <2>4. Owned(got, drained, I!Received, fifo, <<>>) = read
    BY <2>2, InputParts, AllButNone
  <2>5. Owned(got, drained, I!Received, fifo, <<m>>) = read'
    <3>1. /\ got \in Seq(Msg) /\ drained \in Seq(Msg) /\ I!Received \in Seq(Msg)
          /\ fifo \in Seq(Msg)
      BY InputParts
    <3> QED BY <1>1, <2>4, <3>1, InputParts, OwnedRead
  <2>6. AllBut(read', 0) = read'
    BY <1>3, AllButNone
  <2> QED BY <1>2, <2>1, <2>2, <2>5, <2>6, OwnedIs DEF QueueStays
<1> QED BY <1>2, <1>4, <1>5, <1>6 DEF InputInv, QueueStays

LEMMA ReadFailsKeeps ==
  ASSUME InputInv, I!ReadFails
  PROVE  InputInv'
<1>1. PICK err \in Errors : SetErrRecv(err) /\ ending' = err
  BY SameCalls DEF I!ReadFails
<1>2. /\ ipc = "read" /\ ipc' = "exit" /\ TypeOK
      /\ UNCHANGED <<main, pkt, flags, loops, read, got, drained, non_blocking>>
  BY DEF I!ReadFails, InputInv
<1>3. /\ TypeOK' /\ Pend' = Pend /\ err_recv' = err
      /\ UNCHANGED <<fifo, err_send, arg, ret, live, sent, gone>>
  BY <1>1, <1>2, OthersDo, TypeKept
<1>4. InputControl'
  BY <1>1, <1>2, <1>3 DEF InputInv, InputControl
<1>5. InputEnds'
  <2>1. main \in Getting /\ Pend[Main] = "none" => ret[Main] \notin Errors \/ main # "getting"
    BY <1>2 DEF InputInv, InputEnds, Ended
  <2> QED BY <1>1, <1>2, <1>3, <2>1, Codes DEF InputInv, InputEnds, Ended, Getting
<1>6. I!PacketsOwnedOnce'
  <2>1. I!Received' = I!Received
    BY <1>2, <1>3, MainIdles
  <2>2. I!Unsent = pkt /\ I!Unsent' = pkt /\ I!Refused = 0 /\ I!Refused' = 0
    BY <1>1, <1>2, Codes, HandsAre, HandsWillBe DEF Ended
  <2> QED BY <1>2, <1>3, <2>1, <2>2, OwnsAsBefore
<1> QED BY <1>3, <1>4, <1>5, <1>6 DEF InputInv

(* A send that ends or waits: the packet is in the queue, or still with    *)
(* Input.                                                                  *)
LEMMA InputSends ==
  ASSUME InputInv, NEW m \in Msg, pkt = <<m>>, NEW nonblock, SendAt(Writer, Main, m, nonblock),
         ipc \in {"send", "sending"}, ipc' = "sending",
         ipc = "send" \/ Pend[Writer] = "send",
         UNCHANGED <<main, pkt, flags, ending, read, got, drained, non_blocking>>
  PROVE  InputInv'
<1>1. /\ Pend'[Main] = Pend[Main] /\ ret'[Main] = ret[Main]
      /\ DOMAIN ret' = Threads /\ TypeOK' /\ UNCHANGED <<err_send, err_recv>>
  BY DEF SendAt, Alone
<1>2. \/ Pend'[Writer] = "send" /\ arg'[Writer] = {m} /\ UNCHANGED fifo
      \/ /\ Pend'[Writer] = "none" /\ UNCHANGED fifo
         /\ ret'[Writer] = "EAGAIN" \/ (err_send # 0 /\ ret'[Writer] = err_send)
      \/ /\ err_send = 0 /\ Pend'[Writer] = "none" /\ ret'[Writer] = "ok"
         /\ fifo' = Append(fifo, m)
  BY DEF SendAt
<1>3. InputControl'
  BY <1>1, <1>2 DEF InputInv, InputControl
<1>4. InputEnds'
  <2>1. fifo' = fifo \/ (err_send = 0 /\ fifo' = Append(fifo, m))
    BY <1>2
  <2>2. ~Ended /\ ~Ended'
    BY DEF Ended
  <2>3. Pend'[Writer] = "none" /\ ret'[Writer] \in Errors => err_send # 0
    BY <1>2, Codes
  <2>4. fifo' = fifo \/ main \in Wanted
    BY <2>1, <2>2 DEF InputInv, InputEnds, Ended
  <2>5. ~(main = "getting" /\ Pend[Main] = "none" /\ ret[Main] \in Errors)
    BY <2>2 DEF InputInv, InputEnds
  <2>6. main \in Getting /\ main \in Wanted => main = "getting"
    BY DEF Getting, Wanted
  <2>7. main \in Emptied => main \notin Wanted
    BY DEF Emptied, Wanted
  <2>8. main \notin {"seek", "freed"}
    BY <2>2 DEF InputInv, InputEnds, Ended
  <2>9. main \in Getting /\ Pend[Main] = "none" /\ ret[Main] \in Errors => fifo' = <<>>
    BY <2>4, <2>5, <2>6 DEF InputInv, InputEnds
  <2>10. main \in Emptied => fifo' = <<>>
    BY <2>4, <2>7 DEF InputInv, InputEnds
  <2> QED BY <1>1, <2>2, <2>3, <2>5, <2>8, <2>9, <2>10 DEF InputInv, InputEnds
<1>5. I!PacketsOwnedOnce'
  <2>1. I!Received' = I!Received
    BY <1>1, MainIdles
  <2>2. I!Refused' = I!Refused
    BY RefusesAsBefore DEF Ended
  <2>3. I!Unsent = <<m>>
    BY HandsAre
  <2>4. CASE UNCHANGED fifo /\ I!Unsent' = <<m>>
    BY <2>1, <2>2, <2>3, <2>4, OwnsAsBefore
  <2>5. CASE fifo' = Append(fifo, m) /\ I!Unsent' = <<>>
    <3>1. Owned(got, drained, I!Received, Append(fifo, m), <<>>)
            = Owned(got, drained, I!Received, fifo, <<m>>)
      BY InputParts, OwnedSent
    <3> QED BY <2>1, <2>2, <2>3, <2>5, <3>1, OwnedIs DEF InputInv
  <2>6. I!Unsent' = IF Pend'[Writer] = "none" /\ ret'[Writer] = "ok" THEN <<>> ELSE <<m>>
    BY HandsWillBe
  <2>7. CASE Pend'[Writer] = "send" /\ UNCHANGED fifo
    BY <2>4, <2>6, <2>7
  <2>8. CASE Pend'[Writer] = "none" /\ UNCHANGED fifo /\ ret'[Writer] # "ok"
    BY <2>4, <2>6, <2>8
  <2>9. CASE Pend'[Writer] = "none" /\ ret'[Writer] = "ok" /\ fifo' = Append(fifo, m)
    BY <2>5, <2>6, <2>9
  <2>10. err_send # 0 => err_send # "ok"
    BY Codes, InputParts DEF TypeOK
  <2>11. "EAGAIN" # "ok"
    OBVIOUS
  <2> QED BY <1>2, <2>7, <2>8, <2>9, <2>10, <2>11
<1> QED BY <1>1, <1>3, <1>4, <1>5 DEF InputInv


LEMMA SendPacketKeeps ==
  ASSUME InputInv, I!SendPacket
  PROVE  InputInv'
<1>1. /\ ipc = "send" /\ ipc' = "sending" /\ Send(Writer, Head(pkt), flags)
      /\ UNCHANGED <<main, pkt, flags, ending, read, got, drained, non_blocking>>
  BY SameCalls DEF I!SendPacket
<1>2. PICK m \in Msg : pkt = <<m>>
  BY <1>1 DEF InputInv, InputControl
<1>3. Send(Writer, m, flags)
  BY <1>1, <1>2
<1>4. TypeOK /\ DOMAIN ret = Threads /\ flags \in BOOLEAN
  BY DEF InputInv, InputControl
<1>5. SendOutcome(Writer, m, flags) /\ QueueNext
  BY <1>3, <1>4, TwoThreads, SendDoes
<1>6. SendAt(Writer, Main, m, flags)
  BY <1>4, <1>5, TwoThreads, TypeKept, SendsAt
<1> QED BY <1>1, <1>2, <1>6, InputSends

LEMMA InputResumesKeeps ==
  ASSUME InputInv, I!InQueue(Writer)
  PROVE  InputInv'
<1>1. TypeOK /\ DOMAIN ret = Threads /\ (Pend[Writer] # "none" =>
        Pend[Writer] = "send" /\ ipc = "sending" /\ arg[Writer] = {Head(pkt)})
  BY DEF InputInv, InputControl
<1>2. UNCHANGED <<ipc, main, pkt, flags, ending, read, got, drained, non_blocking>>
  BY DEF I!InQueue, I!app
<1>3. Pend[Writer] # "recv"
  BY <1>1
<1>4. ResumeSend(Writer)
  BY <1>1, <1>3, SameCalls, ResumeRecvDoes, TwoThreads DEF I!InQueue
<1>5. PICK m \in Msg : arg[Writer] = {m} /\ SendOutcome(Writer, m, FALSE)
  BY <1>1, <1>4, ResumeSendDoes, TwoThreads
<1>6. Pend[Writer] = "send" /\ QueueNext
  BY <1>1, <1>4, ResumeSendDoes, TwoThreads
<1>7. SendAt(Writer, Main, m, FALSE)
  BY <1>1, <1>5, <1>6, TwoThreads, TypeKept, SendsAt
<1>8. pkt = <<m>>
  <2>1. PICK x \in Msg : pkt = <<x>>
    BY <1>1, <1>6 DEF InputInv, InputControl
  <2> QED BY <1>1, <1>5, <1>6, <2>1
<1> QED BY <1>1, <1>2, <1>5, <1>6, <1>7, <1>8, InputSends

LEMMA SentKeeps ==
  ASSUME InputInv, I!Sent
  PROVE  InputInv'
<1>1. /\ QueueStays /\ ipc = "sending" /\ ipc' = "read" /\ pkt' = <<>> /\ ret[Writer] = "ok"
      /\ Pend[Writer] = "none"
      /\ UNCHANGED <<main, flags, ending, loops, read, got, drained, non_blocking>>
  BY NoCallMade, IdleStatus, TwoThreads
     DEF InputInv, I!Sent, I!queue, I!vars, vars, I!Idle, Idle
<1>2. InputControl'
  BY <1>1 DEF InputInv, InputControl, QueueStays
<1>3. InputEnds'
  BY <1>1 DEF InputInv, InputEnds, QueueStays, Ended
<1>4. I!PacketsOwnedOnce'
  <2>1. I!Received' = I!Received /\ I!Refused' = I!Refused
    BY <1>1, MainIdles, RefusesAsBefore DEF QueueStays, Ended
  <2>2. I!Unsent = <<>> /\ I!Unsent' = <<>>
    BY <1>1, HandsAre, HandsWillBe
  <2> QED BY <1>1, <2>1, <2>2, OwnsAsBefore DEF QueueStays
<1> QED BY <1>1, <1>2, <1>3, <1>4 DEF InputInv, QueueStays

LEMMA SendFullKeeps ==
  ASSUME InputInv, I!SendFull
  PROVE  InputInv'
<1>1. /\ QueueStays /\ ipc = "sending" /\ ipc' = "send" /\ flags' = FALSE
      /\ ret[Writer] = "EAGAIN" /\ Pend[Writer] = "none"
      /\ UNCHANGED <<main, pkt, ending, loops, read, got, drained, non_blocking>>
  BY NoCallMade, IdleStatus, TwoThreads
     DEF InputInv, I!SendFull, I!queue, I!vars, vars, I!Idle, Idle
<1>2. InputControl'
  BY <1>1 DEF InputInv, InputControl, QueueStays
<1>3. InputEnds'
  BY <1>1 DEF InputInv, InputEnds, QueueStays, Ended
<1>4. I!PacketsOwnedOnce'
  <2>1. I!Received' = I!Received /\ I!Refused' = I!Refused
    BY <1>1, MainIdles, RefusesAsBefore DEF QueueStays, Ended
  <2>2. I!Unsent = pkt /\ I!Unsent' = pkt
    BY <1>1, HandsAre, HandsWillBe
  <2> QED BY <1>1, <2>1, <2>2, OwnsAsBefore DEF QueueStays
<1> QED BY <1>1, <1>2, <1>3, <1>4 DEF InputInv, QueueStays

(* The packet that could not be sent is the one that was read last. *)
LEMMA SendFailsKeeps ==
  ASSUME InputInv, I!SendFails
  PROVE  InputInv'
<1>1. /\ ipc = "sending" /\ ipc' = "exit" /\ pkt' = <<>> /\ TypeOK
      /\ Pend[Writer] = "none" /\ ret[Writer] \in Errors /\ SetErrRecv(ret[Writer])
      /\ UNCHANGED <<main, flags, ending, loops, read, got, drained, non_blocking>>
  BY SameCalls, IdleStatus, TwoThreads DEF I!SendFails, InputInv, I!Idle, Idle
<1>2. /\ TypeOK' /\ Pend' = Pend /\ err_recv' = ret[Writer]
      /\ UNCHANGED <<fifo, err_send, arg, ret, live, sent, gone>>
  BY <1>1, OthersDo, TypeKept
<1>3. InputControl'
  BY <1>1, <1>2 DEF InputInv, InputControl
<1>4. err_send # 0 /\ main \notin Wanted /\ ending = 0
  BY <1>1 DEF InputInv, InputEnds, Ended
<1>5. InputEnds'
  <2>1. main \notin {"seek", "freed"} /\ main # "getting"
    BY <1>1, <1>4 DEF InputInv, InputEnds, Wanted
  <2> QED BY <1>1, <1>2, <1>4, <2>1 DEF InputInv, InputEnds, Ended
<1>6. I!PacketsOwnedOnce'
  <2>1. I!Received' = I!Received
    BY <1>1, <1>2, MainIdles
  <2>2. I!Unsent = pkt /\ I!Unsent' = <<>> /\ I!Refused = 0 /\ I!Refused' = 1
    BY <1>1, <1>4, Codes, HandsAre, HandsWillBe DEF Ended
  <2>3. PICK m \in Msg : pkt = <<m>>
    BY <1>1 DEF InputInv, InputControl
  <2>4. /\ got \in Seq(Msg) /\ drained \in Seq(Msg) /\ I!Received \in Seq(Msg)
        /\ fifo \in Seq(Msg) /\ read \in Seq(Msg)
    BY InputParts
  <2>5. Owned(got, drained, I!Received, fifo, <<m>>) = read
    BY <2>2, <2>3, <2>4, InputParts, AllButNone
  <2>6. Owned(got, drained, I!Received, fifo, <<>>) = AllBut(read, 1)
    BY <2>3, <2>4, <2>5, OwnedRefused
  <2> QED BY <1>1, <1>2, <2>1, <2>2, <2>6, OwnedIs
<1> QED BY <1>2, <1>3, <1>5, <1>6 DEF InputInv

LEMMA ExitKeeps ==
  ASSUME InputInv, I!Exit
  PROVE  InputInv'
<1>1. /\ QueueStays /\ ipc = "exit" /\ ipc' = "done"
      /\ UNCHANGED <<main, pkt, flags, ending, loops, read, got, drained, non_blocking>>
  BY NoCallMade DEF InputInv, I!Exit, I!queue, I!vars, vars
<1>2. InputControl'
  BY <1>1 DEF InputInv, InputControl, QueueStays
<1>3. InputEnds'
  BY <1>1 DEF InputInv, InputEnds, QueueStays, Ended
<1>4. I!PacketsOwnedOnce'
  <2>1. I!Received' = I!Received /\ I!Refused' = I!Refused
    BY <1>1, MainIdles, RefusesAsBefore DEF QueueStays, Ended
  <2>2. I!Unsent = pkt /\ I!Unsent' = pkt
    BY <1>1, HandsAre, HandsWillBe
  <2> QED BY <1>1, <2>1, <2>2, OwnsAsBefore DEF QueueStays
<1> QED BY <1>1, <1>2, <1>3, <1>4 DEF InputInv, QueueStays

(* A receive of Main that ends or waits: the packet is in its hands, or    *)
(* the queue is empty and what it returns is the error.                    *)
LEMMA MainReceives ==
  ASSUME InputInv, NEW nonblock, RecvAt(Main, Writer, nonblock),
         main \in Getting \cup {"run", "drain", "loop_drain"},
         main \in Getting => Pend[Main] = "recv",
         main' \in Getting, main' = "getting" <=> main \in Wanted,
         UNCHANGED <<ipc, pkt, flags, ending, read, got, drained, non_blocking>>
  PROVE  InputInv'
<1>1. /\ Pend'[Writer] = Pend[Writer] /\ ret'[Writer] = ret[Writer] /\ arg'[Writer] = arg[Writer]
      /\ DOMAIN ret' = Threads /\ TypeOK' /\ UNCHANGED <<err_send, err_recv>>
  BY DEF RecvAt, Alone
<1>2. \/ Pend'[Main] = "recv" /\ UNCHANGED fifo
      \/ Pend'[Main] = "none" /\ ret'[Main] = "EAGAIN" /\ UNCHANGED fifo
      \/ /\ Pend'[Main] = "none" /\ err_recv # 0 /\ fifo = <<>> /\ ret'[Main] = err_recv
         /\ UNCHANGED fifo
      \/ Pend'[Main] = "none" /\ fifo # <<>> /\ ret'[Main] = Head(fifo) /\ fifo' = Tail(fifo)
  BY DEF RecvAt
<1>3. fifo \in Seq(Msg) /\ (fifo # <<>> => Head(fifo) \in Msg)
  BY InputParts, HeadAndTail
<1>4. err_recv # 0 => err_recv \in Errors
  BY DEF InputInv, TypeOK
<1>5. InputControl'
  BY <1>1, <1>2 DEF InputInv, InputControl
<1>6. main' \in Wanted <=> main \in Wanted
  BY DEF Getting, Wanted
<1>7. /\ main' \notin {"seek", "freed"} /\ main \notin {"seek", "freed"}
      /\ main' \notin Emptied
  BY DEF Getting, Emptied
<1>8. Pend'[Main] = "none" /\ ret'[Main] \in Errors =>
        err_recv # 0 /\ ret'[Main] = err_recv /\ fifo' = <<>>
  BY <1>2, <1>3, Codes
<1>9. err_recv # 0 => Ended
  BY DEF InputInv, InputEnds
<1>10. InputEnds'
  BY <1>1, <1>6, <1>7, <1>8, <1>9 DEF InputInv, InputEnds, Ended
<1>11. I!PacketsOwnedOnce'
  <2>1. I!Unsent' = I!Unsent /\ I!Refused' = I!Refused
    BY <1>1, InputIdles, RefusesAsBefore DEF Ended
  <2>2. I!Received = <<>>
    BY HandsAre
  <2>3. CASE UNCHANGED fifo /\ I!Received' = <<>>
    BY <2>1, <2>2, <2>3, OwnsAsBefore
  <2>4. CASE fifo # <<>> /\ fifo' = Tail(fifo) /\ I!Received' = <<Head(fifo)>>
    <3>1. Owned(got, drained, <<Head(fifo)>>, Tail(fifo), I!Unsent)
            = Owned(got, drained, <<>>, fifo, I!Unsent)
      BY <2>4, InputParts, OwnedTaken
    <3> QED BY <2>1, <2>2, <2>4, <3>1, OwnedIs DEF InputInv
  <2>5. I!Received' = IF Pend'[Main] = "none" /\ ret'[Main] \in Msg THEN <<ret'[Main]>> ELSE <<>>
    BY HandsWillBe
  <2>6. CASE Pend'[Main] = "recv" /\ UNCHANGED fifo
    BY <2>3, <2>5, <2>6
  <2>7. CASE Pend'[Main] = "none" /\ ret'[Main] \notin Msg /\ UNCHANGED fifo
    BY <2>3, <2>5, <2>7
  <2>8. CASE Pend'[Main] = "none" /\ fifo # <<>> /\ ret'[Main] = Head(fifo) /\ fifo' = Tail(fifo)
    BY <1>3, <2>4, <2>5, <2>8
  <2>9. "EAGAIN" \notin Msg /\ (err_recv # 0 => err_recv \notin Msg)
    BY <1>4, Codes
  <2> QED BY <1>2, <2>6, <2>7, <2>8, <2>9
<1> QED BY <1>1, <1>5, <1>10, <1>11 DEF InputInv

LEMMA GetPacketKeeps ==
  ASSUME InputInv, I!GetPacket
  PROVE  InputInv'
<1>1. /\ main = "run" /\ main' = "getting" /\ Recv(Main, non_blocking)
      /\ UNCHANGED <<ipc, pkt, flags, ending, read, got, drained, non_blocking>>
  BY SameCalls DEF I!GetPacket
<1>2. TypeOK /\ DOMAIN ret = Threads /\ non_blocking \in BOOLEAN
  BY DEF InputInv, InputControl
<1>3. RecvOutcome(Main, non_blocking) /\ QueueNext
  BY <1>1, <1>2, TwoThreads, RecvDoes
<1>4. RecvAt(Main, Writer, non_blocking)
  BY <1>2, <1>3, TwoThreads, TypeKept, RecvsAt
<1>5. main \in Wanted /\ main \notin Getting /\ main' \in Getting
  BY <1>1 DEF Wanted, Getting
<1> QED BY <1>1, <1>4, <1>5, MainReceives

LEMMA DrainKeeps ==
  ASSUME InputInv, I!Drain
  PROVE  InputInv'
<1>1. /\ main \in {"drain", "loop_drain"} /\ main' \in {"draining", "loop_draining"}
      /\ Recv(Main, FALSE)
      /\ UNCHANGED <<ipc, pkt, flags, ending, read, got, drained, non_blocking>>
  BY SameCalls DEF I!Drain, I!Draining
<1>2. TypeOK /\ DOMAIN ret = Threads
  BY DEF InputInv
<1>3. RecvOutcome(Main, FALSE) /\ QueueNext
  BY <1>1, <1>2, TwoThreads, RecvDoes
<1>4. RecvAt(Main, Writer, FALSE)
  BY <1>2, <1>3, TwoThreads, TypeKept, RecvsAt
<1>5. main \notin Wanted /\ main \notin Getting /\ main' \in Getting /\ main' # "getting"
  BY <1>1 DEF Wanted, Getting
<1> QED BY <1>1, <1>4, <1>5, MainReceives

LEMMA MainResumesKeeps ==
  ASSUME InputInv, I!InQueue(Main)
  PROVE  InputInv'
<1>1. TypeOK /\ DOMAIN ret = Threads /\ (Pend[Main] # "none" =>
        Pend[Main] = "recv" /\ main \in Getting)
  BY DEF InputInv, InputControl
<1>2. UNCHANGED <<ipc, main, pkt, flags, ending, read, got, drained, non_blocking>>
  BY DEF I!InQueue, I!app
<1>3. ResumeRecv(Main)
  BY <1>1, SameCalls, ResumeSendDoes, TwoThreads DEF I!InQueue
<1>4. Pend[Main] = "recv" /\ RecvOutcome(Main, FALSE) /\ QueueNext
  BY <1>1, <1>3, ResumeRecvDoes, TwoThreads
<1>5. RecvAt(Main, Writer, FALSE)
  BY <1>1, <1>4, TwoThreads, TypeKept, RecvsAt
<1>6. main \in Getting /\ (main = "getting" <=> main \in Wanted)
  BY <1>1, <1>4 DEF Getting, Wanted
<1> QED BY <1>1, <1>2, <1>4, <1>5, <1>6, MainReceives

LEMMA GotPacketKeeps ==
  ASSUME InputInv, I!GotPacket
  PROVE  InputInv'
<1>1. /\ QueueStays /\ main = "getting" /\ main' = "run" /\ ret[Main] \in Msg
      /\ Pend[Main] = "none" /\ got' = Append(got, ret[Main])
      /\ UNCHANGED <<ipc, pkt, flags, ending, loops, read, drained, non_blocking>>
  BY NoCallMade, IdleStatus, TwoThreads
     DEF InputInv, I!GotPacket, I!queue, I!vars, vars, I!Idle, Idle
<1>2. got' \in Seq(Msg)
  BY <1>1, InputParts
<1>3. InputControl'
  BY <1>1, <1>2 DEF InputInv, InputControl, QueueStays, Wanted
<1>4. InputEnds'
  BY <1>1 DEF InputInv, InputEnds, QueueStays, Ended, Wanted, Getting, Emptied
<1>5. I!PacketsOwnedOnce'
  <2>1. I!Unsent' = I!Unsent /\ I!Refused' = I!Refused
    BY <1>1, InputIdles, RefusesAsBefore DEF Ended, QueueStays
  <2>2. I!Received = <<ret[Main]>> /\ I!Received' = <<>>
    BY <1>1, HandsAre, HandsWillBe DEF Getting
  <2>3. drained = <<>>
    BY <1>1 DEF InputInv, InputEnds, Wanted
  <2>4. Owned(Append(got, ret[Main]), <<>>, <<>>, fifo, I!Unsent)
          = Owned(got, <<>>, <<ret[Main]>>, fifo, I!Unsent)
    BY <1>1, InputParts, OwnedGot
  <2> QED BY <1>1, <2>1, <2>2, <2>3, <2>4, OwnedIs DEF InputInv, QueueStays
<1> QED BY <1>1, <1>3, <1>4, <1>5 DEF InputInv, QueueStays

(* Steps of Main with nothing in its hands, before or after. *)
LEMMA MainMoves ==
  ASSUME InputInv, QueueStays, InputControl', InputEnds',
         I!Received = <<>>, I!Received' = <<>>,
         UNCHANGED <<ipc, pkt, flags, ending, read, got, drained, non_blocking>>
  PROVE  InputInv'
<1>1. I!Unsent' = I!Unsent /\ I!Refused' = I!Refused
  BY InputIdles, RefusesAsBefore DEF Ended, QueueStays
<1>2. I!PacketsOwnedOnce'
  BY <1>1, OwnsAsBefore DEF QueueStays
<1> QED BY <1>2 DEF InputInv, QueueStays

LEMMA GotNothingKeeps ==
  ASSUME InputInv, I!GotNothing
  PROVE  InputInv'
<1>1. /\ QueueStays /\ main = "getting" /\ main' = "run" /\ ret[Main] = "EAGAIN"
      /\ UNCHANGED <<ipc, pkt, flags, ending, loops, read, got, drained, non_blocking>>
  BY NoCallMade DEF InputInv, I!GotNothing, I!queue, I!vars, vars
<1>2. InputControl' /\ InputEnds'
  <2>1. Pend[Main] = "none"
    BY IdleStatus, TwoThreads DEF InputInv, I!GotNothing, I!Idle, Idle
  <2>2. InputControl'
    BY <1>1, <2>1 DEF InputInv, InputControl, QueueStays, Wanted
  <2>3. InputEnds'
    BY <1>1 DEF InputInv, InputEnds, QueueStays, Ended, Wanted, Getting, Emptied
  <2> QED BY <2>2, <2>3
<1>3. I!Received = <<>> /\ I!Received' = <<>>
  BY <1>1, Codes, HandsAre, HandsWillBe DEF Getting
<1> QED BY <1>1, <1>2, <1>3, MainMoves

LEMMA GotErrorKeeps ==
  ASSUME InputInv, I!GotError
  PROVE  InputInv'
<1>1. /\ QueueStays /\ main = "getting" /\ main' \in {"loop", "ended"} /\ ret[Main] \in Errors
      /\ UNCHANGED <<ipc, pkt, flags, ending, loops, read, got, drained, non_blocking>>
  BY NoCallMade DEF InputInv, I!GotError, I!queue, I!vars, vars
<1>2. InputControl' /\ InputEnds'
  <2>1. Pend[Main] = "none"
    BY IdleStatus, TwoThreads DEF InputInv, I!GotError, I!Idle, Idle
  <2>2. InputControl'
    BY <1>1, <2>1 DEF InputInv, InputControl, QueueStays, Wanted
  <2>3. InputEnds'
    BY <1>1 DEF InputInv, InputEnds, QueueStays, Ended, Wanted, Getting, Emptied
  <2> QED BY <2>2, <2>3
<1>3. I!Received = <<>> /\ I!Received' = <<>>
  BY <1>1, Codes, HandsAre, HandsWillBe DEF Getting
<1> QED BY <1>1, <1>2, <1>3, MainMoves

(* The end that Main is told of is the demuxer's, and everything read has  *)
(* been processed by then.                                                 *)
LEMMA EndsAfterPackets ==
  ASSUME InputInv, I!GotError
  PROVE  ending # 0 /\ ret[Main] = ending /\ got = read
<1>1. main = "getting" /\ ret[Main] \in Errors /\ Pend[Main] = "none"
  BY IdleStatus, TwoThreads DEF InputInv, I!GotError, I!Idle, Idle
<1>2. Ended /\ ret[Main] = ending /\ fifo = <<>> /\ drained = <<>> /\ ending # 0
  BY <1>1 DEF InputInv, InputEnds, Wanted
<1>3. pkt = <<>>
  BY <1>2 DEF InputInv, InputControl, Ended
<1>4. I!Received = <<>> /\ I!Unsent = <<>> /\ I!Refused = 0
  BY <1>1, <1>2, <1>3, Codes, HandsAre DEF Ended
<1>5. Owned(got, <<>>, <<>>, <<>>, <<>>) = AllBut(read, 0)
  BY <1>2, <1>4, InputParts
<1>6. got \in Seq(Msg) /\ read \in Seq(Msg)
  BY InputParts
<1>7. Owned(got, <<>>, <<>>, <<>>, <<>>) = got
  <2>1. got \o <<>> = got
    BY <1>6, Joined
  <2> QED BY <2>1 DEF Owned
<1> QED BY <1>2, <1>5, <1>6, <1>7, AllButNone

LEMMA FreeBeginKeeps ==
  ASSUME InputInv, I!FreeBegin
  PROVE  InputInv'
<1>1. /\ main \in {"run", "loop", "ended"} /\ main' \in {"drain", "loop_drain"}
      /\ SetErrSend(EOF) /\ TypeOK
      /\ UNCHANGED <<ipc, pkt, flags, ending, loops, read, got, drained, non_blocking>>
  BY SameCalls DEF I!FreeBegin, InputInv
<1>2. /\ TypeOK' /\ Pend' = Pend /\ err_send' = EOF
      /\ UNCHANGED <<fifo, err_recv, arg, ret, live, sent, gone>>
  BY <1>1, Codes, OthersDo, TypeKept
<1>3. EOF # 0
  BY Codes
<1>4. Pend[Main] = "none" /\ main \notin Getting
  BY <1>1 DEF InputInv, InputControl, Getting
<1>5. InputControl'
  BY <1>1, <1>2, <1>4 DEF InputInv, InputControl
<1>6. InputEnds'
  BY <1>1, <1>2, <1>3 DEF InputInv, InputEnds, Ended, Wanted, Getting, Emptied
<1>7. I!PacketsOwnedOnce'
  <2>1. I!Unsent' = I!Unsent /\ I!Refused' = I!Refused
    BY <1>1, <1>2, InputIdles, RefusesAsBefore DEF Ended
  <2>2. I!Received = <<>> /\ I!Received' = <<>>
    BY <1>1, HandsAre, HandsWillBe DEF Getting
  <2> QED BY <1>1, <1>2, <2>1, <2>2, OwnsAsBefore
<1> QED BY <1>2, <1>5, <1>6, <1>7 DEF InputInv

LEMMA DrainedKeeps ==
  ASSUME InputInv, I!Drained
  PROVE  InputInv'
<1>1. /\ QueueStays /\ main \in {"draining", "loop_draining"}
      /\ UNCHANGED <<ipc, pkt, flags, ending, loops, read, got, non_blocking>>
  BY NoCallMade DEF InputInv, I!Drained, I!queue, I!vars, vars
<1>2. Pend[Main] = "none"
  BY IdleStatus, TwoThreads DEF InputInv, I!Drained, I!Idle, Idle
<1>3. \/ /\ ret[Main] \in Msg /\ drained' = Append(drained, ret[Main])
         /\ main' \in {"drain", "loop_drain"}
      \/ ret[Main] \in Errors /\ main' \in {"join", "loop_join"} /\ drained' = drained
  BY DEF I!Drained
<1>4. drained' \in Seq(Msg)
  <2>1. drained \in Seq(Msg)
    BY InputParts
  <2> QED BY <1>3, <2>1
<1>5. InputControl'
  BY <1>1, <1>2, <1>3, <1>4 DEF InputInv, InputControl, QueueStays, Emptied
<1>6. main \notin Wanted /\ main' \notin Wanted \cup {"seek", "freed"} /\ main' \notin Getting
      /\ main \notin Emptied /\ main \in Getting
  BY <1>1, <1>3 DEF Wanted, Getting, Emptied
<1>7. main' \in Emptied => ret[Main] \in Errors
  BY <1>3 DEF Emptied
<1>8. InputEnds'
  BY <1>1, <1>2, <1>6, <1>7 DEF InputInv, InputEnds, QueueStays, Ended, Getting, Wanted
<1>9. CASE ret[Main] \in Errors /\ drained' = drained
  <2>1. I!Received = <<>> /\ I!Received' = <<>>
    BY <1>6, <1>9, Codes, HandsAre, HandsWillBe
  <2> QED BY <1>1, <1>5, <1>8, <1>9, <2>1, MainMoves
<1>10. CASE ret[Main] \in Msg /\ drained' = Append(drained, ret[Main])
  <2>1. I!Unsent' = I!Unsent /\ I!Refused' = I!Refused
    BY <1>1, InputIdles, RefusesAsBefore DEF Ended, QueueStays
  <2>2. I!Received = <<ret[Main]>> /\ I!Received' = <<>>
    BY <1>2, <1>6, <1>10, HandsAre, HandsWillBe
  <2>3. Owned(got, Append(drained, ret[Main]), <<>>, fifo, I!Unsent)
          = Owned(got, drained, <<ret[Main]>>, fifo, I!Unsent)
    BY <1>10, InputParts, OwnedDrained
  <2>4. I!PacketsOwnedOnce'
    BY <1>1, <1>10, <2>1, <2>2, <2>3, OwnedIs DEF InputInv, QueueStays
  <2> QED BY <1>1, <1>5, <1>8, <2>4 DEF InputInv, QueueStays
<1> QED BY <1>3, <1>9, <1>10

LEMMA JoinKeeps ==
  ASSUME InputInv, I!Join
  PROVE  InputInv'
<1>1. /\ main \in {"join", "loop_join"} /\ main' \in {"freed", "seek"} /\ ipc = "done"
      /\ QueueFree /\ TypeOK
      /\ UNCHANGED <<ipc, pkt, flags, ending, loops, read, got, drained, non_blocking>>
  BY SameCalls DEF I!Join, InputInv
<1>2. fifo = <<>>
  BY <1>1 DEF InputInv, InputEnds, Emptied
<1>3. /\ TypeOK' /\ Pend' = Pend /\ fifo' = <<>>
      /\ UNCHANGED <<err_send, err_recv, arg, ret, sent>>
  BY <1>1, OthersDo, TypeKept DEF Discard
<1>4. Pend[Main] = "none"
  BY <1>1 DEF InputInv, InputControl, Getting
<1>5. InputControl'
  BY <1>1, <1>3, <1>4 DEF InputInv, InputControl, Emptied
<1>6. InputEnds'
  BY <1>1, <1>3 DEF InputInv, InputEnds, Ended, Wanted, Getting, Emptied
<1>7. I!PacketsOwnedOnce'
  <2>1. I!Unsent' = I!Unsent /\ I!Refused' = I!Refused
    BY <1>1, <1>3, InputIdles, RefusesAsBefore DEF Ended
  <2>2. I!Received = <<>> /\ I!Received' = <<>>
    BY <1>1, HandsAre, HandsWillBe DEF Getting
  <2> QED BY <1>1, <1>2, <1>3, <2>1, <2>2, OwnsAsBefore
<1> QED BY <1>3, <1>5, <1>6, <1>7 DEF InputInv

(* A queue and an input that are new. *)
LEMMA NewQueue ==
  /\ Init => TypeOK /\ DOMAIN ret = Threads /\ Pend = [t \in Threads |-> "none"]
  /\ Init' => TypeOK' /\ DOMAIN ret' = Threads /\ Pend' = [t \in Threads |-> "none"]
<1>1. nelem \in Nat /\ nelem # 0 /\ Len(<<>>) = 0 /\ <<>> \in Seq(Msg)
      /\ <<>> \in Seq(Msg \X (Threads \cup {"free_func"}))
  BY QueueAssumption DEF QueueAssumption
<1>2. ASSUME Init PROVE TypeOK /\ DOMAIN ret = Threads /\ Pend = [t \in Threads |-> "none"]
  BY <1>1, <1>2 DEF Init, TypeOK, Status, Pend
<1>3. ASSUME Init' PROVE TypeOK' /\ DOMAIN ret' = Threads /\ Pend' = [t \in Threads |-> "none"]
  BY <1>1, <1>3 DEF Init, TypeOK, Status, Pend
<1> QED BY <1>2, <1>3

LEMMA NothingOwned ==
  Owned(<<>>, <<>>, <<>>, <<>>, <<>>) = AllBut(<<>>, 0)
<1>1. <<>> \in Seq(Msg)
  OBVIOUS
<1>2. <<>> \o <<>> = <<>>
  BY <1>1, Joined
<1> QED BY <1>1, <1>2, AllButNone DEF Owned

LEMMA InputStarts ==
  /\ I!InputInit => InputInv
  /\ InputInv /\ I!Restart => InputInv'
<1>1. ASSUME I!InputInit PROVE InputInv
  <2>1. /\ Init /\ ipc = "read" /\ main = "run" /\ pkt = <<>> /\ ending = 0
        /\ flags = non_blocking /\ non_blocking \in BOOLEAN
        /\ read = <<>> /\ got = <<>> /\ drained = <<>>
    BY <1>1, SameCalls DEF I!InputInit
  <2>2. TypeOK /\ DOMAIN ret = Threads /\ Pend = [t \in Threads |-> "none"]
    BY <2>1, NewQueue
  <2>3. Pend[Main] = "none" /\ Pend[Writer] = "none"
    BY <2>2, TwoThreads
  <2>4. err_send = 0 /\ err_recv = 0 /\ fifo = <<>>
    BY <2>1 DEF Init
  <2>5. InputControl
    BY <2>1, <2>3 DEF InputControl, Wanted
  <2>6. InputEnds
    BY <2>1, <2>4 DEF InputEnds, Ended, Wanted, Getting, Emptied
  <2>7. I!Received = <<>> /\ I!Unsent = <<>> /\ I!Refused = 0
    BY <2>1, HandsAre DEF Getting, Ended
  <2>8. I!PacketsOwnedOnce
    BY <2>1, <2>4, <2>7, NothingOwned, OwnedIs
  <2> QED BY <2>2, <2>5, <2>6, <2>8 DEF InputInv
<1>2. ASSUME InputInv, I!Restart PROVE InputInv'
  <2>1. /\ Init' /\ ipc' = "read" /\ main' \in {"run", "ended"} /\ pkt' = <<>> /\ ending' = 0
        /\ flags' = non_blocking /\ non_blocking' = non_blocking
        /\ read' = <<>> /\ got' = <<>> /\ drained' = <<>>
    BY <1>2 DEF I!Restart, Init
  <2>2. TypeOK' /\ DOMAIN ret' = Threads /\ Pend' = [t \in Threads |-> "none"]
    BY <2>1, NewQueue
  <2>3. Pend'[Main] = "none" /\ Pend'[Writer] = "none"
    BY <2>2, TwoThreads
  <2>4. err_send' = 0 /\ err_recv' = 0 /\ fifo' = <<>>
    BY <2>1 DEF Init
  <2>5. InputControl'
    BY <1>2, <2>1, <2>3 DEF InputInv, InputControl, Wanted
  <2>6. InputEnds'
    BY <2>1, <2>4 DEF InputEnds, Ended, Wanted, Getting, Emptied
  <2>7. I!Received' = <<>> /\ I!Unsent' = <<>> /\ I!Refused' = 0
    BY <2>1, HandsWillBe DEF Getting, Ended
  <2>8. I!PacketsOwnedOnce'
    BY <2>1, <2>4, <2>7, NothingOwned, OwnedIs
  <2> QED BY <2>2, <2>5, <2>6, <2>8 DEF InputInv
<1> QED BY <1>1, <1>2

LEMMA RestartFailsKeeps ==
  ASSUME InputInv, I!RestartFails
  PROVE  InputInv'
<1>1. /\ QueueStays /\ main = "seek" /\ main' = "freed"
      /\ UNCHANGED <<ipc, pkt, flags, ending, loops, read, got, drained, non_blocking>>
  BY NoCallMade DEF InputInv, I!RestartFails, I!queue, I!vars, vars
<1>2. InputControl'
  BY <1>1 DEF InputInv, InputControl, QueueStays, Emptied, Getting
<1>3. InputEnds'
  BY <1>1 DEF InputInv, InputEnds, QueueStays, Ended, Wanted, Getting, Emptied
<1>4. I!Received = <<>> /\ I!Received' = <<>>
  BY <1>1, HandsAre, HandsWillBe DEF Getting
<1> QED BY <1>1, <1>2, <1>3, <1>4, MainMoves

LEMMA NothingMovesKeeps ==
  ASSUME InputInv, QueueStays,
         UNCHANGED <<ipc, main, pkt, flags, ending, read, got, drained, non_blocking>>
  PROVE  InputInv'
<1>1. InputControl'
  BY DEF InputInv, InputControl, QueueStays
<1>2. InputEnds'
  BY DEF InputInv, InputEnds, QueueStays, Ended
<1>3. I!Received' = I!Received /\ I!Unsent' = I!Unsent /\ I!Refused' = I!Refused
  BY MainIdles, InputIdles, RefusesAsBefore DEF Ended, QueueStays
<1> QED BY <1>1, <1>2, <1>3, OwnsAsBefore DEF InputInv, QueueStays

(* The invariant of an input and the main thread is inductive. *)
LEMMA InputInductive ==
  ASSUME InputInv, I!InputNext
  PROVE  InputInv'
<1>1. ASSUME I!Spurious PROVE InputInv'
  <2>1. PICK t \in Threads : SpuriousWake(t)
    BY <1>1, SameCalls DEF I!Spurious
  <2>2. TypeOK
    BY DEF InputInv
  <2>3. QueueStays
    BY <2>1, <2>2, OthersDo, TypeKept DEF QueueStays
  <2> QED BY <1>1, <2>3, NothingMovesKeeps DEF I!Spurious, I!app
<1>2. ASSUME I!Stopped PROVE InputInv'
  <2>1. QueueStays
    BY <1>2, NoCallMade DEF InputInv, I!Stopped, I!allVars, I!queue, I!vars, vars
  <2> QED BY <1>2, <2>1, NothingMovesKeeps DEF I!Stopped, I!allVars, I!app
<1>3. CASE I!InputStep
  BY <1>3, ReadFrameKeeps, ReadFailsKeeps, SendPacketKeeps, SentKeeps, SendFullKeeps,
     SendFailsKeeps, ExitKeeps, InputResumesKeeps DEF I!InputStep
<1>4. CASE I!MainStep
  BY <1>4, GetPacketKeeps, GotPacketKeeps, GotNothingKeeps, GotErrorKeeps, DrainKeeps,
     DrainedKeeps, JoinKeeps, InputStarts, RestartFailsKeeps, MainResumesKeeps,
     FreeBeginKeeps DEF I!MainStep
<1>5. CASE I!StopEarly
  BY <1>5, FreeBeginKeeps DEF I!StopEarly
<1> QED BY <1>1, <1>2, <1>3, <1>4, <1>5 DEF I!InputNext
-----------------------------------------------------------------------------
(* The fifo muxer. *)
Kinds == {"key", "delta", "flush"}
Leaving == {"fail", "trailer", "done"}
Holding == {"dispatch", "recover"}
Stopping == mpc \in {"join", "deinit", "freed"}
TakenFrom(g, k) == \E i \in DOMAIN g : g[i] = <<Order[k], Writer>>

Entries == [m : Nat, how : {"written", "dropped", "leaked"}, rescaled : Nat]
Writers ==
  [pc : Holding \cup Leaving \cup {"none", "overflow", "recv", "receiving"},
   msg : Nat, ret : Errors \cup {0}, recovery_nr : Nat, last_recovery_ts : Int,
   drop_until_keyframe : BOOLEAN, header_written : BOOLEAN, rescaled : Nat,
   log : Seq(Entries), output : {"closed", "open", "started", "broken"}]

(* The output has a header just while header_written says so, but for the  *)
(* trailer of a thread that ends; else it may be open without one.         *)
Shaped(x) ==
  x.output \in IF x.header_written /\ x.pc # "done" THEN {"started"} ELSE {"closed", "open"}

(* The messages of s are from the first n, and in order. *)
InOrder(s, n) ==
  /\ \A i \in DOMAIN s : \E k \in 1 .. n : s[i] = Order[k]
  /\ \A i, j \in DOMAIN s, a, b \in 1 .. n : i < j /\ s[i] = Order[a] /\ s[j] = Order[b] => a < b

CallerInv ==
  /\ mpc \in {"new", "run", "writing", "join", "deinit", "freed"}
  /\ opt \in OptionSets /\ kind \in Seq(Kinds) /\ Len(kind) <= MaxMsg
  /\ overflow_flag \in BOOLEAN
  /\ Pend[Main] # "none" =>
       /\ Pend[Main] = "send" /\ mpc = "writing" /\ kind # <<>>
       /\ arg[Main] = {Order[Len(kind)]}
       /\ \A i \in DOMAIN sent : sent[i] # Order[Len(kind)]
  /\ InOrder(sent, Len(kind))
  /\ err_recv # 0 => Stopping
  /\ ~opt.drop => /\ ~overflow_flag
                  /\ mpc = "writing" /\ Pend[Main] = "none" => ret[Main] # "EAGAIN"

WriterInv ==
  /\ w \in Writers /\ Shaped(w)
  /\ w.msg # Header => w.msg \in 1 .. Len(kind)
  /\ w.pc = "none" => w.msg = Header
  /\ mpc = "new" => w.pc = "none"
  /\ Pend[Writer] # "none" => Pend[Writer] = "recv" /\ w.pc = "receiving"
  /\ w.pc = "receiving" /\ Pend[Writer] = "none" =>
       \/ ret[Writer] \in Errors /\ fifo = <<>> /\ Stopping
       \/ \E k \in 1 .. Len(kind) : ret[Writer] = Order[k] /\ TakenFrom(gone, k)
  /\ w.pc \in Holding /\ w.msg # Header => TakenFrom(gone, w.msg)
  /\ w.pc \in Holding \cup {"none"} => w.ret \in MuxErrors \cup {0}
  /\ w.pc \in Leaving /\ w.ret = EOF => fifo = <<>> /\ Stopping

LosslessInv ==
  ~opt.drop =>
    /\ ~w.drop_until_keyframe
    /\ w.pc \notin Leaving \cup {"recover"} => w.recovery_nr = 0
    /\ w.pc = "recover" => w.ret \in MuxErrors
    /\ \A i \in DOMAIN w.log :
         \/ w.log[i].how = "written"
         \/ i = Len(w.log) /\ w.ret \in MuxErrors /\ w.pc \in Leaving

(* Writer's functions, as operators on its record. *)
LEMMA MuxCodes ==
  /\ MuxErrors \subseteq Errors /\ 0 \notin MuxErrors /\ EINVAL \in MuxErrors
  /\ EOF \notin MuxErrors /\ EOF # 0
<1>1. MuxErrors \subseteq Errors /\ 0 \notin MuxErrors /\ EINVAL \in MuxErrors /\ EOF # 0
  BY FifoAssumption, QueueAssumption DEF FifoAssumption, QueueAssumption, MuxErrors
<1>2. ASSUME EOF \in MuxErrors PROVE FALSE
  <2>1. Errors = {EIO, EINVAL, EXIT} /\ Cardinality(Errors) = 4
    BY <1>2, FifoAssumption DEF FifoAssumption, MuxErrors
  <2>2. /\ IsFiniteSet({EIO}) /\ Cardinality({EIO}) = 1
    BY FS_Singleton
  <2>3. /\ IsFiniteSet({EIO} \cup {EINVAL}) /\ Cardinality({EIO} \cup {EINVAL}) <= 2
    BY <2>2, FS_AddElement
  <2>4. Cardinality(({EIO} \cup {EINVAL}) \cup {EXIT}) <= 3
    BY <2>3, FS_AddElement, FS_CardinalityType
  <2>5. ({EIO} \cup {EINVAL}) \cup {EXIT} = {EIO, EINVAL, EXIT}
    OBVIOUS
  <2> QED BY <2>1, <2>4, <2>5
<1> QED BY <1>1, <1>2

LEMMA WriterFields ==
  ASSUME NEW x \in Writers
  PROVE  /\ x.msg \in Nat /\ x.ret \in Errors \cup {0} /\ x.recovery_nr \in Nat
         /\ x.last_recovery_ts \in Int /\ x.drop_until_keyframe \in BOOLEAN
         /\ x.header_written \in BOOLEAN /\ x.rescaled \in Nat
         /\ x.log \in Seq(Entries) /\ x.output \in {"closed", "open", "started", "broken"}
BY DEF Writers

LEMMA Failing ==
  ASSUME NEW x \in Writers, NEW y \in Fails(x)
  PROVE  \E e \in MuxErrors : y = [x EXCEPT !.ret = e] /\ y \in Writers
<1>1. PICK e \in MuxErrors : y = [x EXCEPT !.ret = e]
  BY DEF Fails
<1>2. e \in Errors \cup {0}
  BY <1>1, MuxCodes
<1>3. y \in Writers
  BY <1>1, <1>2 DEF Writers
<1> QED BY <1>1, <1>3

LEMMA FateOf ==
  ASSUME NEW x \in Writers, NEW how \in {"written", "dropped", "leaked"}
  PROVE  \E e \in Entries : Fate(x, how) = Append(x.log, e) /\ e.m = x.msg /\ e.how = how
                            /\ Fate(x, how) \in Seq(Entries)
<1> DEFINE e == [m |-> x.msg, how |-> how, rescaled |-> x.rescaled]
<1>1. x.msg \in Nat /\ x.rescaled \in Nat /\ x.log \in Seq(Entries)
  BY WriterFields
<1>2. e \in Entries /\ e.m = x.msg /\ e.how = how
  BY <1>1 DEF Entries
<1>3. Fate(x, how) = Append(x.log, e)
  BY DEF Fate
<1> HIDE DEF e
<1>4. Append(x.log, e) \in Seq(Entries)
  BY <1>1, <1>2
<1> QED BY <1>2, <1>3, <1>4

(* x with another result, another log or another output. *)
Alike(x, y) == /\ y \in Writers /\ Shaped(y) /\ y.pc = x.pc /\ y.msg = x.msg
               /\ y.recovery_nr = x.recovery_nr /\ y.ret \in MuxErrors \cup {0}
               /\ y.drop_until_keyframe => x.drop_until_keyframe

Tells(x, y) == \E e \in Entries : /\ y.log = Append(x.log, e) /\ e.m = x.msg
                                  /\ ~x.drop_until_keyframe => e.how = "written"

LEMMA HeaderWritten ==
  ASSUME NEW x \in Writers, Shaped(x), x.pc \in Holding, ~x.header_written, NEW y \in WriteHeader(x)
  PROVE  Alike(x, y) /\ y.log = x.log /\ (y.ret = 0 => y.header_written)
<1>1. x.output \in {"closed", "open"} /\ x.pc # "done"
  BY DEF Shaped, Holding
<1>2. \A to : Opens(x, to) = [x EXCEPT !.output = to]
  BY <1>1 DEF Opens
<1>3. ASSUME NEW o \in {"closed", "open"}, y \in Fails([x EXCEPT !.output = o])
      PROVE  Alike(x, y) /\ y.log = x.log /\ y.ret # 0
  <2>1. PICK z : z = [x EXCEPT !.output = o]
    OBVIOUS
  <2>2. /\ z \in Writers /\ z.pc = x.pc /\ z.msg = x.msg /\ z.log = x.log
        /\ z.recovery_nr = x.recovery_nr /\ z.drop_until_keyframe = x.drop_until_keyframe
        /\ z.header_written = x.header_written /\ z.output = o
    BY <2>1 DEF Writers
  <2>3. PICK e \in MuxErrors : y = [z EXCEPT !.ret = e] /\ y \in Writers
    BY <1>3, <2>1, <2>2, Failing
  <2>4. /\ y.pc = z.pc /\ y.msg = z.msg /\ y.log = z.log /\ y.recovery_nr = z.recovery_nr
        /\ y.drop_until_keyframe = z.drop_until_keyframe /\ y.ret = e
        /\ y.header_written = z.header_written /\ y.output = o
    BY <2>2, <2>3 DEF Writers
  <2>5. e # 0
    BY <2>3, MuxCodes
  <2> QED BY <2>2, <2>3, <2>4, <2>5 DEF Alike, Shaped
<1>4. ASSUME NEW e \in MuxErrors \cup {0}, y = [x EXCEPT !.output = "started",
                                                     !.header_written = TRUE, !.ret = e]
      PROVE  Alike(x, y) /\ y.log = x.log /\ y.header_written
  <2>1. e \in Errors \cup {0}
    BY <1>4, MuxCodes
  <2>2. /\ y.pc = x.pc /\ y.msg = x.msg /\ y.log = x.log /\ y.recovery_nr = x.recovery_nr
        /\ y.drop_until_keyframe = x.drop_until_keyframe /\ y.ret = e
        /\ y.header_written = TRUE /\ y.output = "started"
    BY <1>4 DEF Writers
  <2>3. y \in Writers
    BY <1>4, <2>1 DEF Writers
  <2> QED BY <1>1, <1>4, <2>2, <2>3 DEF Alike, Shaped
<1>5. x = [x EXCEPT !.output = x.output]
  BY DEF Writers
<1>6. \/ y \in Fails(x) \/ y \in Fails(Opens(x, "closed")) \/ y \in Fails(Opens(x, "open"))
      \/ \E r \in {0, EINVAL} : y = [Opens(x, "started") EXCEPT !.header_written = TRUE, !.ret = r]
  BY Zenon DEF WriteHeader
<1>7. CASE y \in Fails(x)
  <2>1. PICK o \in {"closed", "open"} : o = x.output
    BY <1>1
  <2>2. y \in Fails([x EXCEPT !.output = o])
    BY <1>5, <1>7, <2>1
  <2> QED BY <1>3, <2>2
<1>8. CASE y \in Fails(Opens(x, "closed")) \/ y \in Fails(Opens(x, "open"))
  <2>1. PICK o \in {"closed", "open"} : y \in Fails(Opens(x, o))
    BY <1>8
  <2>2. y \in Fails([x EXCEPT !.output = o])
    BY <1>2, <2>1
  <2> QED BY <1>3, <2>2
<1>9. CASE \E r \in {0, EINVAL} : y = [Opens(x, "started") EXCEPT !.header_written = TRUE, !.ret = r]
  <2>1. PICK e \in MuxErrors \cup {0} : y = [Opens(x, "started") EXCEPT !.header_written = TRUE, !.ret = e]
    BY <1>9, MuxCodes
  <2>2. Opens(x, "started") = [x EXCEPT !.output = "started"]
    BY <1>2
  <2>3. y = [x EXCEPT !.output = "started", !.header_written = TRUE, !.ret = e]
    BY <2>1, <2>2
  <2> QED BY <1>4, <2>3
<1> QED BY <1>6, <1>7, <1>8, <1>9

LEMMA OutputFlushed ==
  ASSUME NEW x \in Writers, Shaped(x), x.pc \in Holding, x.header_written, NEW y \in FlushOutput(x)
  PROVE  Alike(x, y) /\ y.log = x.log
<1>1. x.output = "started" /\ x.pc # "done"
  BY DEF Shaped, Holding
<1>2. [x EXCEPT !.output = Into(x, "started", "started")] = x
  BY <1>1 DEF Into, Writers
<1>3. y \in Fails(x) \cup {[x EXCEPT !.ret = 0]}
  BY <1>2 DEF FlushOutput
<1>4. PICK e \in MuxErrors \cup {0} : y = [x EXCEPT !.ret = e]
  BY <1>3, Failing
<1>5. e \in Errors \cup {0}
  BY <1>4, MuxCodes
<1>6. /\ y \in Writers /\ y.pc = x.pc /\ y.msg = x.msg /\ y.log = x.log
      /\ y.recovery_nr = x.recovery_nr /\ y.drop_until_keyframe = x.drop_until_keyframe
      /\ y.ret = e /\ y.header_written = x.header_written /\ y.output = x.output
  BY <1>4, <1>5 DEF Writers
<1> QED BY <1>4, <1>6 DEF Alike, Shaped

LEMMA PacketWritten ==
  ASSUME NEW x \in Writers, Shaped(x), x.pc \in Holding, x.header_written, NEW y \in WritePacket(x)
  PROVE  Alike(x, y) /\ IF y.ret = 0 THEN Tells(x, y) ELSE y.log = x.log
<1>1. x.output = "started" /\ x.pc # "done"
  BY DEF Shaped, Holding
<1>2. CASE x.drop_until_keyframe /\ kind[x.msg] # "key"
  <2>1. y = [x EXCEPT !.ret = 0, !.log = Fate(x, "dropped")]
    BY <1>2 DEF WritePacket
  <2>2. PICK e \in Entries : Fate(x, "dropped") = Append(x.log, e) /\ e.m = x.msg
                             /\ Fate(x, "dropped") \in Seq(Entries)
    BY FateOf
  <2>3. /\ y \in Writers /\ y.pc = x.pc /\ y.msg = x.msg /\ y.log = Fate(x, "dropped")
        /\ y.recovery_nr = x.recovery_nr /\ y.drop_until_keyframe = x.drop_until_keyframe
        /\ y.ret = 0 /\ y.header_written = x.header_written /\ y.output = x.output
    BY <2>1, <2>2 DEF Writers
  <2>4. Tells(x, y)
    BY <1>2, <2>2, <2>3 DEF Tells
  <2> QED BY <2>3, <2>4 DEF Alike, Shaped
<1>3. CASE ~(x.drop_until_keyframe /\ kind[x.msg] # "key")
  <2> DEFINE n == IF x.rescaled = 2 THEN 2 ELSE x.rescaled + 1
             z == [x EXCEPT !.drop_until_keyframe = FALSE, !.output = "started", !.rescaled = n]
  <2>1. [x EXCEPT !.drop_until_keyframe = FALSE, !.output = Into(x, "started", "started"),
                  !.rescaled = IF @ = 2 THEN 2 ELSE @ + 1] = z
    BY <1>1 DEF Into
  <2>2. y \in Fails(z) \cup {[z EXCEPT !.ret = 0, !.log = Fate(z, "written")]}
    BY <1>3, <2>1 DEF WritePacket
  <2>3. n \in Nat
    BY WriterFields
  <2> HIDE DEF n
  <2>4. /\ z \in Writers /\ z.pc = x.pc /\ z.msg = x.msg /\ z.log = x.log
        /\ z.recovery_nr = x.recovery_nr /\ z.drop_until_keyframe = FALSE
        /\ z.header_written = x.header_written /\ z.output = "started"
    BY <2>3 DEF Writers
  <2> HIDE DEF z
  <2>5. CASE y \in Fails(z)
    <3>1. PICK e \in MuxErrors : y = [z EXCEPT !.ret = e] /\ y \in Writers
      BY <2>4, <2>5, Failing
    <3>2. /\ y.pc = x.pc /\ y.msg = x.msg /\ y.log = x.log
          /\ y.recovery_nr = x.recovery_nr /\ y.drop_until_keyframe = FALSE /\ y.ret = e
          /\ y.header_written = x.header_written /\ y.output = "started"
      BY <2>4, <3>1 DEF Writers
    <3>3. e # 0
      BY <3>1, MuxCodes
    <3> QED BY <1>1, <3>1, <3>2, <3>3 DEF Alike, Shaped
  <2>6. CASE y = [z EXCEPT !.ret = 0, !.log = Fate(z, "written")]
    <3>1. PICK e \in Entries : Fate(z, "written") = Append(z.log, e) /\ e.m = z.msg
                               /\ e.how = "written" /\ Fate(z, "written") \in Seq(Entries)
      BY <2>4, FateOf
    <3>2. /\ y \in Writers /\ y.pc = x.pc /\ y.msg = x.msg /\ y.log = Fate(z, "written")
          /\ y.recovery_nr = x.recovery_nr /\ y.drop_until_keyframe = FALSE /\ y.ret = 0
          /\ y.header_written = x.header_written /\ y.output = "started"
      BY <2>4, <2>6, <3>1 DEF Writers
    <3>3. Tells(x, y)
      BY <2>4, <3>1, <3>2 DEF Tells
    <3> QED BY <1>1, <3>2, <3>3 DEF Alike, Shaped
  <2> QED BY <2>2, <2>5, <2>6
<1> QED BY <1>2, <1>3

(* A packet is dealt with just when its dispatch succeeds. *)
LEMMA Dispatching ==
  ASSUME NEW x \in Writers, Shaped(x), x.pc \in Holding, NEW y \in DispatchMessage(x)
  PROVE  Alike(x, y) /\ IF y.ret = 0 /\ IsPacket(x.msg) THEN Tells(x, y) ELSE y.log = x.log
<1> DEFINE opened == IF x.header_written THEN {[x EXCEPT !.ret = 0]} ELSE WriteHeader(x)
           handled(z) == IF x.msg = Header THEN {z}
                         ELSE IF IsPacket(x.msg) THEN WritePacket(z) ELSE FlushOutput(z)
<1>1. PICK z \in opened : y \in IF z.ret = 0 THEN handled(z) ELSE {z}
  BY DEF DispatchMessage
<1>2. Alike(x, z) /\ z.log = x.log /\ (z.ret = 0 => z.header_written)
  <2>1. CASE x.header_written
    <3>1. z = [x EXCEPT !.ret = 0]
      BY <1>1, <2>1
    <3>2. /\ z \in Writers /\ z.pc = x.pc /\ z.msg = x.msg /\ z.log = x.log
          /\ z.recovery_nr = x.recovery_nr /\ z.drop_until_keyframe = x.drop_until_keyframe
          /\ z.ret = 0 /\ z.header_written = x.header_written /\ z.output = x.output
      BY <3>1 DEF Writers
    <3> QED BY <2>1, <3>2 DEF Alike, Shaped
  <2>2. CASE ~x.header_written
    BY <1>1, <2>2, HeaderWritten
  <2> QED BY <2>1, <2>2
<1> HIDE DEF opened
<1>3. CASE z.ret # 0
  BY <1>1, <1>2, <1>3
<1>4. CASE z.ret = 0
  <2>1. y \in handled(z) /\ z.header_written /\ z \in Writers /\ Shaped(z) /\ z.pc \in Holding
    BY <1>1, <1>2, <1>4 DEF Alike
  <2>2. CASE x.msg = Header
    <3>1. y = z /\ ~IsPacket(x.msg)
      BY <2>1, <2>2 DEF IsPacket
    <3> QED BY <1>2, <3>1
  <2>3. CASE x.msg # Header /\ IsPacket(x.msg)
    <3>1. y \in WritePacket(z)
      BY <2>1, <2>3
    <3>2. Alike(z, y) /\ IF y.ret = 0 THEN Tells(z, y) ELSE y.log = z.log
      BY <2>1, <3>1, PacketWritten
    <3>3. Alike(x, y)
      BY <1>2, <3>2 DEF Alike
    <3>4. Tells(z, y) => Tells(x, y)
      BY <1>2 DEF Tells, Alike
    <3> QED BY <1>2, <2>3, <3>2, <3>3, <3>4
  <2>4. CASE x.msg # Header /\ ~IsPacket(x.msg)
    <3>1. y \in FlushOutput(z)
      BY <2>1, <2>4
    <3>2. Alike(z, y) /\ y.log = z.log
      BY <2>1, <3>1, OutputFlushed
    <3>3. Alike(x, y)
      BY <1>2, <3>2 DEF Alike
    <3> QED BY <1>2, <2>4, <3>2, <3>3
  <2> QED BY <2>2, <2>3, <2>4
<1> QED BY <1>3, <1>4

(* What a round makes of the message of x: it is tried again, or dealt     *)
(* with, or the thread ends.                                               *)
Settles(x, y) ==
  IF IsPacket(x.msg)
  THEN \E e \in Entries :
         /\ y.log = Append(x.log, e) /\ e.m = x.msg
         /\ y.pc = "overflow" /\ ~opt.drop /\ ~x.drop_until_keyframe => e.how = "written"
  ELSE y.log = x.log

Outcome(x, y) ==
  /\ y \in Writers /\ Shaped(y) /\ y.msg = x.msg
  /\ y.drop_until_keyframe => x.drop_until_keyframe \/ opt.drop
  /\ \/ y.pc = "recover" /\ y.log = x.log
     \/ y.pc = "fail" /\ Settles(x, y)
     \/ y.pc = "overflow" /\ Settles(x, y) /\ (~opt.drop => y.recovery_nr = 0)
  /\ y.pc # "overflow" => y.ret \in MuxErrors \cup {0} /\ (~opt.drop => y.ret \in MuxErrors)

LEMMA OptionsHave ==
  ASSUME opt \in OptionSets
  PROVE  opt \in Options /\ opt.drop \in BOOLEAN /\ opt.max \in Nat
<1>1. opt \in Options
  BY FifoAssumption DEF FifoAssumption
<1> QED BY <1>1 DEF Options

LEMMA Freeing ==
  ASSUME NEW x \in Writers
  PROVE  /\ FreeMessage(x) \in Writers
         /\ IF IsPacket(x.msg)
            THEN \E e \in Entries : FreeMessage(x) = [x EXCEPT !.log = Append(x.log, e)] /\ e.m = x.msg
            ELSE FreeMessage(x) = x
<1>1. CASE IsPacket(x.msg)
  <2>1. PICK e \in Entries : Fate(x, "dropped") = Append(x.log, e) /\ e.m = x.msg
                             /\ Fate(x, "dropped") \in Seq(Entries)
    BY FateOf
  <2>2. FreeMessage(x) = [x EXCEPT !.log = Fate(x, "dropped")]
    BY <1>1 DEF FreeMessage
  <2>3. FreeMessage(x) \in Writers
    BY <2>1, <2>2 DEF Writers
  <2> QED BY <1>1, <2>1, <2>2, <2>3
<1>2. CASE ~IsPacket(x.msg)
  BY <1>2 DEF FreeMessage
<1> QED BY <1>1, <1>2

LEMMA GivesUp ==
  ASSUME NEW x \in Writers, Shaped(x), x.pc \in Holding,
         x.ret \in MuxErrors \cup {0}, ~opt.drop => x.ret \in MuxErrors
  PROVE  Outcome(x, GiveUp(x))
<1>1. PICK z \in Writers : /\ z = FreeMessage(x)
                           /\ IF IsPacket(x.msg)
                              THEN \E e \in Entries : z = [x EXCEPT !.log = Append(x.log, e)] /\ e.m = x.msg
                              ELSE z = x
  BY Freeing
<1>2. /\ z.msg = x.msg /\ z.ret = x.ret /\ z.drop_until_keyframe = x.drop_until_keyframe
      /\ z.header_written = x.header_written /\ z.output = x.output
  BY <1>1 DEF Writers
<1>3. IF IsPacket(x.msg) THEN \E e \in Entries : z.log = Append(x.log, e) /\ e.m = x.msg
      ELSE z.log = x.log
  BY <1>1 DEF Writers
<1>4. PICK y : y = [z EXCEPT !.pc = "fail"]
  OBVIOUS
<1>5. /\ y \in Writers /\ y.pc = "fail" /\ y.msg = z.msg /\ y.ret = z.ret /\ y.log = z.log
      /\ y.drop_until_keyframe = z.drop_until_keyframe
      /\ y.header_written = z.header_written /\ y.output = z.output
  BY <1>1, <1>4 DEF Writers, Leaving
<1>6. Shaped(y)
  BY <1>2, <1>5 DEF Shaped, Holding
<1>7. Settles(x, y)
  BY <1>3, <1>5 DEF Settles
<1>8. Outcome(x, y)
  BY <1>2, <1>5, <1>6, <1>7 DEF Outcome
<1> QED BY <1>1, <1>4, <1>8 DEF GiveUp

LEMMA TriesAgain ==
  ASSUME NEW x \in Writers, Shaped(x), x.pc \in Holding,
         x.ret \in MuxErrors \cup {0}, ~opt.drop => x.ret \in MuxErrors
  PROVE  Outcome(x, Again(x))
<1>1. CASE ~opt.drop
  <2>1. PICK y : y = [x EXCEPT !.pc = "recover"]
    OBVIOUS
  <2>2. /\ y \in Writers /\ y.pc = "recover" /\ y.msg = x.msg /\ y.ret = x.ret /\ y.log = x.log
        /\ y.drop_until_keyframe = x.drop_until_keyframe
        /\ y.header_written = x.header_written /\ y.output = x.output
    BY <2>1 DEF Writers, Holding
  <2>3. Shaped(y)
    BY <2>2 DEF Shaped, Holding
  <2>4. Outcome(x, y)
    BY <2>2, <2>3 DEF Outcome
  <2> QED BY <1>1, <2>1, <2>4 DEF Again
<1>2. CASE opt.drop
  <2>1. PICK z \in Writers : /\ z = FreeMessage(x)
                             /\ IF IsPacket(x.msg)
                                THEN \E e \in Entries : z = [x EXCEPT !.log = Append(x.log, e)] /\ e.m = x.msg
                                ELSE z = x
    BY Freeing
  <2>2. /\ z.msg = x.msg /\ z.drop_until_keyframe = x.drop_until_keyframe
        /\ z.header_written = x.header_written /\ z.output = x.output
    BY <2>1 DEF Writers
  <2>3. IF IsPacket(x.msg) THEN \E e \in Entries : z.log = Append(x.log, e) /\ e.m = x.msg
        ELSE z.log = x.log
    BY <2>1 DEF Writers
  <2>4. PICK y : y = [z EXCEPT !.pc = "overflow", !.ret = 0]
    OBVIOUS
  <2>5. /\ y \in Writers /\ y.pc = "overflow" /\ y.msg = z.msg /\ y.log = z.log
        /\ y.drop_until_keyframe = z.drop_until_keyframe
        /\ y.header_written = z.header_written /\ y.output = z.output
    BY <2>1, <2>4 DEF Writers, Leaving
  <2>6. Shaped(y)
    BY <2>2, <2>5 DEF Shaped, Holding
  <2>7. Settles(x, y)
    BY <1>2, <2>3, <2>5 DEF Settles
  <2>8. Outcome(x, y)
    BY <1>2, <2>2, <2>5, <2>6, <2>7 DEF Outcome
  <2> QED BY <1>2, <2>1, <2>4, <2>8 DEF Again
<1> QED BY <1>1, <1>2

(* Between two functions the record changes, but not its message or log.   *)
Becomes(x, y) ==
  /\ y \in Writers /\ Shaped(y) /\ y.pc = x.pc /\ y.msg = x.msg /\ y.log = x.log
  /\ y.drop_until_keyframe => x.drop_until_keyframe \/ opt.drop

LEMMA OutcomeAfter ==
  ASSUME NEW x, NEW z, NEW y, Becomes(x, z), Outcome(z, y)
  PROVE  Outcome(x, y)
<1>1. /\ z.msg = x.msg /\ z.log = x.log
      /\ z.drop_until_keyframe => x.drop_until_keyframe \/ opt.drop
  BY DEF Becomes
<1>2. Settles(z, y) => Settles(x, y)
  BY <1>1 DEF Settles
<1> QED BY <1>1, <1>2 DEF Outcome

LEMMA ClosedIs ==
  ASSUME NEW x \in Writers, Shaped(x), x.pc \in Holding
  PROVE  Becomes(x, Closed(x)) /\ Closed(x).ret = x.ret /\ Closed(x).recovery_nr = x.recovery_nr
<1>1. x.output \in IF x.header_written THEN {"started"} ELSE {"closed", "open"}
  BY DEF Shaped, Holding
<1>2. PICK o \in {"closed", "open"} : o = IF x.header_written THEN "closed" ELSE x.output
  BY <1>1
<1>3. Closed(x) = [x EXCEPT !.output = o, !.header_written = FALSE]
  <2>1. CASE x.header_written
    BY <1>1, <1>2, <2>1 DEF Closed, WriteTrailer, Into
  <2>2. CASE ~x.header_written
    <3>1. Closed(x) = [x EXCEPT !.header_written = FALSE]
      BY <2>2 DEF Closed, WriteTrailer
    <3>2. x.output = o
      BY <1>1, <1>2, <2>2
    <3> QED BY <3>1, <3>2 DEF Writers
  <2> QED BY <2>1, <2>2
<1>4. PICK y : y = Closed(x)
  OBVIOUS
<1>5. /\ y \in Writers /\ y.pc = x.pc /\ y.msg = x.msg /\ y.log = x.log /\ y.ret = x.ret
      /\ y.drop_until_keyframe = x.drop_until_keyframe /\ y.recovery_nr = x.recovery_nr
      /\ y.header_written = FALSE /\ y.output \in {"closed", "open"}
  BY <1>2, <1>3, <1>4 DEF Writers
<1>6. Becomes(x, y)
  BY <1>5 DEF Becomes, Shaped
<1> QED BY <1>4, <1>5, <1>6

LEMMA StartedIs ==
  ASSUME opt \in OptionSets, NEW x \in Writers, Shaped(x), x.pc \in Holding
  PROVE  Becomes(x, Started(x)) /\ Started(x).ret = x.ret
<1>1. PICK z : z = Closed(x)
  OBVIOUS
<1>2. Becomes(x, z) /\ z.ret = x.ret /\ z \in Writers
  BY <1>1, ClosedIs DEF Becomes
<1> DEFINE n == Counted(z.recovery_nr)
           l == IF x.recovery_nr = 0 /\ opt.streamtime THEN NoPts ELSE z.last_recovery_ts
           d == z.drop_until_keyframe \/ (opt.keyframe /\ opt.drop)
<1>3. n \in Nat
  BY <1>2, WriterFields DEF Counted
<1>4. l \in Int
  BY <1>2, WriterFields DEF NoPts
<1>5. d \in BOOLEAN /\ (d => z.drop_until_keyframe \/ opt.drop)
  BY <1>2, WriterFields
<1>6. Started(x) = [z EXCEPT !.recovery_nr = n, !.last_recovery_ts = l, !.drop_until_keyframe = d]
  BY <1>1 DEF Started
<1> HIDE DEF n, l, d
<1>7. PICK y : y = Started(x)
  OBVIOUS
<1>8. /\ y \in Writers /\ y.pc = z.pc /\ y.msg = z.msg /\ y.log = z.log /\ y.ret = z.ret
      /\ y.drop_until_keyframe = d
      /\ y.header_written = z.header_written /\ y.output = z.output
  BY <1>2, <1>3, <1>4, <1>5, <1>6, <1>7 DEF Writers
<1>9. Becomes(x, y)
  BY <1>2, <1>5, <1>8 DEF Becomes, Shaped
<1> QED BY <1>2, <1>7, <1>8, <1>9

LEMMA FailingAgain ==
  ASSUME opt \in OptionSets, NEW x \in Writers, Shaped(x), x.pc \in Holding, NEW err \in MuxErrors,
         w.ret \in MuxErrors \cup {0}, ~opt.drop => w.ret \in MuxErrors
  PROVE  Outcome(x, RecoveryFailed(x, err))
<1> DEFINE l == IF opt.streamtime THEN Pts(x.msg) ELSE 0
           z == [x EXCEPT !.last_recovery_ts = l]
           lost == IF IsPacket(z.msg) THEN Fate(z, "leaked") ELSE z.log
<1>1. l \in Int
  BY WriterFields DEF Pts, NoPts
<1> HIDE DEF l
<1>2. /\ z \in Writers /\ z.pc = x.pc /\ z.msg = x.msg /\ z.log = x.log
      /\ z.drop_until_keyframe = x.drop_until_keyframe
      /\ z.header_written = x.header_written /\ z.output = x.output
  BY <1>1 DEF Writers
<1>3. RecoveryFailed(x, err) = IF opt.max > 0 /\ z.recovery_nr >= opt.max
                               THEN [z EXCEPT !.pc = "fail", !.ret = err, !.log = lost]
                               ELSE Again([z EXCEPT !.ret = w.ret])
  BY DEF RecoveryFailed, l
<1> HIDE DEF z
<1>4. err \in Errors \cup {0} /\ w.ret \in Errors \cup {0}
  BY MuxCodes
<1>5. Outcome(x, [z EXCEPT !.pc = "fail", !.ret = err, !.log = lost])
  <2>1. lost \in Seq(Entries) /\ IF IsPacket(x.msg) THEN \E e \in Entries : lost = Append(x.log, e) /\ e.m = x.msg
                                 ELSE lost = x.log
    <3>1. CASE IsPacket(x.msg)
      <4>1. PICK e \in Entries : Fate(z, "leaked") = Append(z.log, e) /\ e.m = z.msg
                                 /\ Fate(z, "leaked") \in Seq(Entries)
        BY <1>2, FateOf
      <4> QED BY <1>2, <3>1, <4>1
    <3>2. CASE ~IsPacket(x.msg)
      BY <1>2, <3>2, WriterFields
    <3> QED BY <3>1, <3>2
  <2> HIDE DEF lost
  <2>2. PICK y : y = [z EXCEPT !.pc = "fail", !.ret = err, !.log = lost]
    OBVIOUS
  <2>3. /\ y \in Writers /\ y.pc = "fail" /\ y.msg = z.msg /\ y.ret = err /\ y.log = lost
        /\ y.drop_until_keyframe = z.drop_until_keyframe
        /\ y.header_written = z.header_written /\ y.output = z.output
    BY <1>2, <1>4, <2>1, <2>2 DEF Writers, Leaving
  <2>4. Shaped(y)
    BY <1>2, <2>3 DEF Shaped, Holding
  <2>5. Settles(x, y)
    BY <2>1, <2>3 DEF Settles
  <2>6. Outcome(x, y)
    BY <1>2, <2>3, <2>4, <2>5 DEF Outcome
  <2> QED BY <2>2, <2>6
<1>6. Outcome(x, Again([z EXCEPT !.ret = w.ret]))
  <2>1. PICK y : y = [z EXCEPT !.ret = w.ret]
    OBVIOUS
  <2>2. /\ y \in Writers /\ y.pc = z.pc /\ y.msg = z.msg /\ y.ret = w.ret /\ y.log = z.log
        /\ y.drop_until_keyframe = z.drop_until_keyframe
        /\ y.header_written = z.header_written /\ y.output = z.output
    BY <1>2, <1>4, <2>1 DEF Writers
  <2>3. Shaped(y)
    BY <1>2, <2>2 DEF Shaped
  <2>4. Becomes(x, y)
    BY <1>2, <2>2, <2>3 DEF Becomes
  <2>5. Outcome(y, Again(y))
    BY <1>2, <2>2, <2>3, TriesAgain
  <2> QED BY <2>1, <2>4, <2>5, OutcomeAfter
<1> QED BY <1>3, <1>5, <1>6

LEMMA TellsSettles ==
  ASSUME NEW x, NEW z, NEW y, y.log = z.log,
         IF IsPacket(x.msg) THEN Tells(x, z) ELSE z.log = x.log
  PROVE  Settles(x, y)
BY DEF Tells, Settles

LEMMA DispatchEnds ==
  ASSUME opt \in OptionSets, NEW x \in Writers, Shaped(x), x.pc \in Holding, x.recovery_nr = 0,
         NEW z \in DispatchMessage(x)
  PROVE  Outcome(x, [z EXCEPT !.pc = IF z.ret = 0 THEN "overflow" ELSE "recover"])
<1>1. Alike(x, z) /\ IF z.ret = 0 /\ IsPacket(x.msg) THEN Tells(x, z) ELSE z.log = x.log
  BY Dispatching
<1>2. PICK p : p = IF z.ret = 0 THEN "overflow" ELSE "recover"
  OBVIOUS
<1>3. PICK y : y = [z EXCEPT !.pc = p]
  OBVIOUS
<1>4. z \in Writers
  BY <1>1 DEF Alike
<1>5. /\ y \in Writers /\ y.pc = p /\ y.msg = z.msg /\ y.ret = z.ret /\ y.log = z.log
      /\ y.drop_until_keyframe = z.drop_until_keyframe /\ y.recovery_nr = z.recovery_nr
      /\ y.header_written = z.header_written /\ y.output = z.output
  BY <1>2, <1>3, <1>4 DEF Writers, Holding
<1>6. Shaped(y)
  BY <1>1, <1>2, <1>5 DEF Shaped, Holding, Alike
<1>7. CASE z.ret = 0
  <2>1. Settles(x, y)
    BY <1>1, <1>5, <1>7, TellsSettles
  <2>2. y.pc = "overflow" /\ y.recovery_nr = 0
    BY <1>1, <1>2, <1>5, <1>7 DEF Alike
  <2>3. Outcome(x, y)
    BY <1>1, <1>5, <1>6, <2>1, <2>2 DEF Outcome, Alike
  <2> QED BY <1>2, <1>3, <2>3
<1>8. CASE z.ret # 0
  <2>1. y.pc = "recover" /\ y.log = x.log /\ y.ret \in MuxErrors
    BY <1>1, <1>2, <1>5, <1>8 DEF Alike
  <2>2. Outcome(x, y)
    BY <1>1, <1>5, <1>6, <2>1 DEF Outcome, Alike
  <2> QED BY <1>2, <1>3, <2>2
<1> QED BY <1>7, <1>8

LEMMA RecoveryEnds ==
  ASSUME opt \in OptionSets, NEW x \in Writers, Shaped(x), x.pc \in Holding,
         NEW z \in DispatchMessage(x), z.ret = 0
  PROVE  Outcome(x, [z EXCEPT !.pc = "overflow", !.recovery_nr = 0])
<1>1. Alike(x, z) /\ IF IsPacket(x.msg) THEN Tells(x, z) ELSE z.log = x.log
  BY Dispatching
<1>2. PICK y : y = [z EXCEPT !.pc = "overflow", !.recovery_nr = 0]
  OBVIOUS
<1>3. z \in Writers
  BY <1>1 DEF Alike
<1>4. /\ y \in Writers /\ y.pc = "overflow" /\ y.msg = z.msg /\ y.log = z.log
      /\ y.drop_until_keyframe = z.drop_until_keyframe /\ y.recovery_nr = 0
      /\ y.header_written = z.header_written /\ y.output = z.output
  BY <1>2, <1>3 DEF Writers, Holding
<1>5. Shaped(y)
  BY <1>1, <1>4 DEF Shaped, Holding, Alike
<1>6. Settles(x, y)
  BY <1>1, <1>4, TellsSettles
<1>7. Outcome(x, y)
  BY <1>1, <1>4, <1>5, <1>6 DEF Outcome, Alike
<1> QED BY <1>2, <1>7

(* One round of the thread, whatever fails in it. *)
LEMMA Rounds ==
  ASSUME opt \in OptionSets, WriterInv, LosslessInv,
         Dispatch \/ Skip \/ RecoverNot \/ RecoverWait \/ RecoverAttempt
  PROVE  w.pc \in Holding /\ Outcome(w, w')
<1>1. w \in Writers /\ Shaped(w)
  BY DEF WriterInv
<1>2. CASE Dispatch
  <2>1. PICK z \in DispatchMessage(w) :
          w' = [z EXCEPT !.pc = IF z.ret = 0 THEN "overflow" ELSE "recover"]
    BY <1>2 DEF Dispatch
  <2>2. w.pc \in Holding /\ w.recovery_nr = 0
    BY <1>2 DEF Dispatch, Holding
  <2> QED BY <1>1, <2>1, <2>2, DispatchEnds
<1>3. CASE Skip
  <2>1. w.pc = "dispatch" /\ w.recovery_nr > 0 /\ w' = [w EXCEPT !.pc = "recover"]
    BY <1>3 DEF Skip
  <2>2. opt.drop
    BY <1>1, <2>1, WriterFields DEF LosslessInv, Leaving
  <2>3. PICK y : y = [w EXCEPT !.pc = "recover"]
    OBVIOUS
  <2>4. /\ y \in Writers /\ y.pc = "recover" /\ y.msg = w.msg /\ y.ret = w.ret /\ y.log = w.log
        /\ y.drop_until_keyframe = w.drop_until_keyframe
        /\ y.header_written = w.header_written /\ y.output = w.output
    BY <1>1, <2>3 DEF Writers, Holding
  <2>5. w.ret \in MuxErrors \cup {0}
    BY <2>1 DEF WriterInv, Holding
  <2>6. Shaped(y)
    BY <1>1, <2>1, <2>4 DEF Shaped
  <2>7. Outcome(w, y)
    BY <2>2, <2>4, <2>5, <2>6 DEF Outcome
  <2> QED BY <2>1, <2>3, <2>7 DEF Holding
<1>4. ASSUME w.pc = "recover"
      PROVE  w.pc \in Holding /\ w.ret \in MuxErrors \cup {0} /\ (~opt.drop => w.ret \in MuxErrors)
  BY <1>4 DEF WriterInv, LosslessInv, Holding
<1>5. CASE RecoverNot
  <2>1. w.pc = "recover" /\ w' = GiveUp(w)
    BY <1>5 DEF RecoverNot
  <2> QED BY <1>1, <1>4, <2>1, GivesUp
<1>6. CASE RecoverWait
  <2>1. w.pc = "recover" /\ w' = Again(Closed(w))
    BY <1>6 DEF RecoverWait
  <2>2. PICK z : z = Closed(w)
    OBVIOUS
  <2>3. Becomes(w, z) /\ z.ret = w.ret
    BY <1>1, <1>4, <2>1, <2>2, ClosedIs
  <2>4. z \in Writers /\ Shaped(z) /\ z.pc \in Holding
    BY <1>4, <2>1, <2>3 DEF Becomes
  <2>5. Outcome(z, Again(z))
    BY <1>4, <2>1, <2>3, <2>4, TriesAgain
  <2>6. Outcome(w, Again(z))
    BY <2>3, <2>5, OutcomeAfter
  <2> QED BY <1>4, <2>1, <2>2, <2>6
<1>7. CASE RecoverAttempt
  <2>1. PICK x \in DispatchMessage(Started(w)) :
          w' = IF x.ret = 0 THEN [x EXCEPT !.pc = "overflow", !.recovery_nr = 0]
               ELSE IF IsRecoverable(x.ret) THEN RecoveryFailed(x, x.ret) ELSE GiveUp(x)
    BY <1>7 DEF RecoverAttempt
  <2>2. w.pc = "recover"
    BY <1>7 DEF RecoverAttempt
  <2>3. PICK z : z = Started(w)
    OBVIOUS
  <2>4. Becomes(w, z)
    BY <1>1, <1>4, <2>2, <2>3, StartedIs
  <2>5. z \in Writers /\ Shaped(z) /\ z.pc \in Holding
    BY <1>4, <2>2, <2>4 DEF Becomes
  <2>6. x \in DispatchMessage(z)
    BY <2>1, <2>3
  <2>7. CASE x.ret = 0
    <3>1. Outcome(z, w')
      BY <2>1, <2>5, <2>6, <2>7, RecoveryEnds
    <3> QED BY <1>4, <2>2, <2>4, <3>1, OutcomeAfter
  <2>8. CASE x.ret # 0
    <3>1. Alike(z, x) /\ x.log = z.log
      BY <2>5, <2>6, <2>8, Dispatching
    <3>2. x \in Writers /\ Shaped(x) /\ x.pc \in Holding /\ x.ret \in MuxErrors
      BY <2>5, <2>8, <3>1 DEF Alike
    <3>3. Becomes(z, x)
      BY <3>1 DEF Alike, Becomes
    <3>4. Outcome(x, w')
      <4>1. Outcome(x, GiveUp(x))
        BY <3>2, GivesUp
      <4>2. Outcome(x, RecoveryFailed(x, x.ret))
        BY <1>4, <2>2, <3>2, FailingAgain
      <4> QED BY <2>1, <2>8, <4>1, <4>2
    <3>5. Outcome(z, w')
      BY <3>3, <3>4, OutcomeAfter
    <3> QED BY <1>4, <2>2, <2>4, <3>5, OutcomeAfter
  <2> QED BY <2>7, <2>8
<1> QED BY <1>2, <1>3, <1>5, <1>6, <1>7
-----------------------------------------------------------------------------
(* What the invariant of the fifo muxer says of a log, of the packets in   *)
(* Writer's hand and of those it has taken.                                *)
AccountedFor(log, hand, taken) ==
  /\ {log[i].m : i \in DOMAIN log} \cup hand = taken
  /\ \A i \in DOMAIN log : /\ \A j \in DOMAIN log : j < i => log[j].m < log[i].m
                           /\ \A k \in hand : log[i].m < k

Hand(x, free, r, taken) == IF x.pc \in Holding THEN {x.msg} \cap taken
                           ELSE IF x.pc = "receiving" /\ free THEN {k \in taken : Order[k] = r}
                           ELSE {}

LEMMA AccountsAre ==
  /\ PacketsAccounted <=> AccountedFor(w.log, Hand(w, Pend[Writer] = "none", ret[Writer], Taken), Taken)
  /\ PacketsAccounted' <=>
       AccountedFor(w'.log, Hand(w', Pend'[Writer] = "none", ret'[Writer], Taken'), Taken')
<1>1. /\ status[Writer] = "idle" <=> Pend[Writer] = "none"
      /\ status'[Writer] = "idle" <=> Pend'[Writer] = "none"
  BY TwoThreads DEF Pend
<1> HIDE DEF Pend
<1>2. InHand = Hand(w, Pend[Writer] = "none", ret[Writer], Taken)
  BY <1>1 DEF InHand, Hand, Holding
<1>3. InHand' = Hand(w', Pend'[Writer] = "none", ret'[Writer], Taken')
  BY <1>1 DEF InHand, Hand, Holding
<1> QED BY <1>2, <1>3 DEF PacketsAccounted, Settled, AccountedFor

LEMMA TakenAre ==
  ASSUME kind \in Seq(Kinds)
  PROVE  Taken = {k \in 1 .. Len(kind) : IsPacket(k) /\ TakenFrom(gone, k)}
<1>1. DOMAIN kind = 1 .. Len(kind)
  OBVIOUS
<1> QED BY <1>1 DEF Taken, TakenFrom

LEMMA TakenWillBe ==
  ASSUME kind' \in Seq(Kinds)
  PROVE  Taken' = {k \in 1 .. Len(kind') : IsPacket(k)' /\ TakenFrom(gone', k)}
<1>1. DOMAIN kind' = 1 .. Len(kind')
  OBVIOUS
<1> QED BY <1>1 DEF Taken, TakenFrom

LEMMA AccountSettled ==
  ASSUME NEW log \in Seq(Entries), NEW e \in Entries, NEW taken, e.m \in taken,
         AccountedFor(log, {e.m} \cap taken, taken)
  PROVE  AccountedFor(Append(log, e), {}, taken)
<1>1. PICK q : q = Append(log, e)
  OBVIOUS
<1>2. /\ Len(log) \in Nat /\ DOMAIN log = 1 .. Len(log) /\ DOMAIN q = 1 .. Len(log) + 1
      /\ \A i \in 1 .. Len(log) : q[i] = log[i]
      /\ q[Len(log) + 1] = e
  BY <1>1
<1>3. {e.m} \cap taken = {e.m}
  OBVIOUS
<1>4. \A i \in 1 .. Len(log) : i \in DOMAIN log /\ log[i].m < e.m
  BY <1>2, <1>3 DEF AccountedFor
<1>5. {q[i].m : i \in DOMAIN q} \cup {} = taken
  <2>1. {log[i].m : i \in DOMAIN log} \cup {e.m} = taken
    BY <1>3 DEF AccountedFor
  <2>2. \A i \in DOMAIN q : i \in DOMAIN log \/ i = Len(log) + 1
    BY <1>2
  <2>3. \A i \in DOMAIN log : i \in DOMAIN q
    BY <1>2
  <2>4. \A i \in DOMAIN q : q[i].m \in {log[j].m : j \in DOMAIN log} \cup {e.m}
    BY <1>2, <2>2
  <2>5. \A i \in DOMAIN log : log[i].m \in {q[j].m : j \in DOMAIN q}
    BY <1>2, <2>3
  <2>6. e.m \in {q[j].m : j \in DOMAIN q}
    <3>1. Len(log) + 1 \in DOMAIN q
      BY <1>2
    <3> QED BY <1>2, <3>1
  <2> QED BY <2>1, <2>4, <2>5, <2>6
<1>6. ASSUME NEW i \in DOMAIN q, NEW j \in DOMAIN q, j < i
      PROVE  q[j].m < q[i].m
  <2>1. i \in Nat /\ j \in Nat /\ j \in 1 .. Len(log)
    BY <1>2, <1>6
  <2>2. q[j] = log[j] /\ j \in DOMAIN log
    BY <1>2, <2>1
  <2>3. CASE i = Len(log) + 1
    BY <1>2, <1>4, <2>1, <2>2, <2>3
  <2>4. CASE i \in 1 .. Len(log)
    <3>1. log[j].m < log[i].m
      BY <1>2, <1>6, <2>2, <2>4 DEF AccountedFor
    <3> QED BY <1>2, <2>2, <2>4, <3>1
  <2> QED BY <1>2, <2>3, <2>4
<1>7. AccountedFor(q, {}, taken)
  BY <1>5, <1>6 DEF AccountedFor
<1> QED BY <1>1, <1>7

LEMMA AccountTaken ==
  ASSUME NEW log, NEW hand, NEW taken, NEW more, AccountedFor(log, {}, taken),
         more = taken \cup hand, \A i \in DOMAIN log : \A k \in hand : log[i].m < k
  PROVE  AccountedFor(log, hand, more)
BY DEF AccountedFor

(* The order of messages. *)
LEMMA OrderIs ==
  /\ MaxMsg \in Nat /\ \A k \in 1 .. MaxMsg : Order[k] \in Msg
  /\ \A j, k \in 1 .. MaxMsg : Order[j] = Order[k] => j = k
<1>1. Order \in Seq(Msg) /\ \A j, k \in DOMAIN Order : Order[j] = Order[k] => j = k
  BY FifoAssumption DEF FifoAssumption
<1> QED BY <1>1 DEF MaxMsg

LEMMA NumberIs ==
  ASSUME NEW k \in 1 .. MaxMsg
  PROVE  Number(Order[k]) = k
BY OrderIs DEF Number

LEMMA OrderMore ==
  ASSUME NEW s, NEW n \in Nat, n + 1 <= MaxMsg, InOrder(s, n)
  PROVE  InOrder(s, n + 1) /\ \A i \in DOMAIN s : s[i] # Order[n + 1]
<1>1. n + 1 \in 1 .. MaxMsg /\ 1 .. n \subseteq 1 .. MaxMsg /\ n + 1 \notin 1 .. n
      /\ 1 .. n + 1 = 1 .. n \cup {n + 1}
  BY OrderIs
<1>2. ASSUME NEW i \in DOMAIN s, NEW a \in 1 .. n + 1, s[i] = Order[a]
      PROVE  a \in 1 .. n
  <2>1. PICK k \in 1 .. n : s[i] = Order[k]
    BY DEF InOrder
  <2>2. a = k
    BY <1>1, <1>2, <2>1, OrderIs
  <2> QED BY <2>1, <2>2
<1>3. \A i \in DOMAIN s : s[i] # Order[n + 1]
  BY <1>1, <1>2
<1>4. \A i \in DOMAIN s : \E k \in 1 .. n + 1 : s[i] = Order[k]
  BY <1>1 DEF InOrder
<1>5. ASSUME NEW i \in DOMAIN s, NEW j \in DOMAIN s, NEW a \in 1 .. n + 1, NEW b \in 1 .. n + 1,
             i < j, s[i] = Order[a], s[j] = Order[b]
      PROVE  a < b
  <2>1. a \in 1 .. n /\ b \in 1 .. n
    BY <1>2, <1>5
  <2> QED BY <1>5, <2>1 DEF InOrder
<1> QED BY <1>3, <1>4, <1>5 DEF InOrder

LEMMA OrderAppend ==
  ASSUME NEW s \in Seq(Msg), NEW n \in 1 .. MaxMsg, InOrder(s, n),
         \A i \in DOMAIN s : s[i] # Order[n]
  PROVE  InOrder(Append(s, Order[n]), n)
<1>1. PICK q : q = Append(s, Order[n])
  OBVIOUS
<1>2. /\ Len(s) \in Nat /\ DOMAIN s = 1 .. Len(s) /\ DOMAIN q = 1 .. Len(s) + 1
      /\ \A i \in 1 .. Len(s) : q[i] = s[i]
      /\ q[Len(s) + 1] = Order[n]
  BY <1>1
<1>3. n \in Nat /\ n \in 1 .. n /\ 1 .. n \subseteq 1 .. MaxMsg
  BY OrderIs
<1>4. ASSUME NEW i \in DOMAIN q PROVE i \in DOMAIN s \/ i = Len(s) + 1
  BY <1>2
<1>5. \A i \in DOMAIN q : \E k \in 1 .. n : q[i] = Order[k]
  BY <1>2, <1>3, <1>4 DEF InOrder
<1>6. ASSUME NEW i \in DOMAIN q, NEW j \in DOMAIN q, NEW a \in 1 .. n, NEW b \in 1 .. n,
             i < j, q[i] = Order[a], q[j] = Order[b]
      PROVE  a < b
  <2>1. i \in DOMAIN s /\ q[i] = s[i]
    BY <1>2, <1>6
  <2>2. CASE j \in DOMAIN s
    <3>1. q[j] = s[j]
      BY <1>2, <2>2
    <3> QED BY <1>6, <2>1, <2>2, <3>1 DEF InOrder
  <2>3. CASE j = Len(s) + 1
    <3>1. b = n
      BY <1>2, <1>3, <1>6, <2>3, OrderIs
    <3>2. a # n
      BY <1>6, <2>1
    <3> QED BY <1>3, <3>1, <3>2
  <2> QED BY <1>4, <2>2, <2>3
<1>7. InOrder(q, n)
  BY <1>5, <1>6 DEF InOrder
<1> QED BY <1>1, <1>7

FifoInv == /\ TypeOK /\ DOMAIN ret = Threads /\ FifoExactlyOnce
           /\ CallerInv /\ WriterInv /\ LosslessInv /\ PacketsAccounted

LEMMA FifoParts ==
  ASSUME FifoInv
  PROVE  /\ w \in Writers /\ Shaped(w) /\ w.log \in Seq(Entries) /\ kind \in Seq(Kinds)
         /\ fifo \in Seq(Msg) /\ sent \in Seq(Msg)
         /\ opt \in OptionSets /\ opt.drop \in BOOLEAN
         /\ Len(kind) \in Nat /\ Len(kind) <= MaxMsg /\ 1 .. Len(kind) \subseteq 1 .. MaxMsg
         /\ AccountedFor(w.log, Hand(w, Pend[Writer] = "none", ret[Writer], Taken), Taken)
         /\ Taken = {k \in 1 .. Len(kind) : IsPacket(k) /\ TakenFrom(gone, k)}
<1>1. /\ w \in Writers /\ Shaped(w) /\ kind \in Seq(Kinds) /\ opt \in OptionSets
      /\ Len(kind) <= MaxMsg
  BY DEF FifoInv, WriterInv, CallerInv
<1>2. fifo \in Seq(Msg) /\ sent \in Seq(Msg)
  BY DEF FifoInv, TypeOK
<1>3. w.log \in Seq(Entries) /\ opt.drop \in BOOLEAN
  BY <1>1, WriterFields, OptionsHave
<1>4. Len(kind) \in Nat /\ 1 .. Len(kind) \subseteq 1 .. MaxMsg
  BY <1>1, OrderIs
<1> QED BY <1>1, <1>2, <1>3, <1>4, AccountsAre, TakenAre DEF FifoInv

(* The caller's part is kept by what Writer does. *)
LEMMA CallerStays ==
  ASSUME CallerInv, UNCHANGED <<mpc, opt, kind, err_recv, sent>>, Pend'[Main] = Pend[Main],
         arg'[Main] = arg[Main], ret'[Main] = ret[Main],
         overflow_flag' \in BOOLEAN, overflow_flag' => overflow_flag
  PROVE  CallerInv'
BY DEF CallerInv, Stopping

LEMMA TakenStays ==
  ASSUME FifoInv, UNCHANGED kind, \A k \in 1 .. Len(kind) : TakenFrom(gone', k) <=> TakenFrom(gone, k)
  PROVE  Taken' = Taken
<1>1. \A k : IsPacket(k)' <=> IsPacket(k)
  BY DEF IsPacket
<1>2. kind' \in Seq(Kinds) /\ Len(kind') = Len(kind)
  BY FifoParts
<1> QED BY <1>1, <1>2, FifoParts, TakenWillBe

(* A round of the thread. *)
LEMMA RoundsKeep ==
  ASSUME FifoInv, Dispatch \/ Skip \/ RecoverNot \/ RecoverWait \/ RecoverAttempt
  PROVE  FifoInv'
<1>1. w.pc \in Holding /\ Outcome(w, w')
  BY FifoParts, Rounds DEF FifoInv
<1>2. QueueStays /\ UNCHANGED <<mpc, opt, kind, overflow_flag>>
  <2>1. UNCHANGED <<queue, mpc, opt, kind, overflow_flag>>
    BY DEF Dispatch, Skip, RecoverNot, RecoverWait, RecoverAttempt
  <2> QED BY <2>1, NoCallMade DEF FifoInv, queue
<1>3. CallerInv'
  BY <1>2, CallerStays DEF FifoInv, QueueStays, CallerInv
<1>4. /\ w' \in Writers /\ Shaped(w') /\ w'.msg = w.msg
      /\ w'.pc \in {"recover", "fail", "overflow"}
      /\ w'.pc # "overflow" => w'.ret \in MuxErrors \cup {0}
  BY <1>1 DEF Outcome
<1>5. \A k \in 1 .. Len(kind) : TakenFrom(gone', k) <=> TakenFrom(gone, k)
  BY <1>2 DEF QueueStays, TakenFrom
<1>6. WriterInv'
  <2>1. Pend[Writer] = "none"
    BY <1>1 DEF FifoInv, WriterInv, Holding
  <2>2. w.msg # Header => w.msg \in 1 .. Len(kind) /\ TakenFrom(gone, w.msg)
    BY <1>1 DEF FifoInv, WriterInv
  <2>3. w'.pc \in Holding \cup {"none"} \/ w'.pc \in Leaving => w'.ret \in MuxErrors \cup {0}
    BY <1>4 DEF Holding, Leaving
  <2>4. w'.pc \in Leaving => w'.ret # EOF
    BY <2>3, MuxCodes
  <2>5. w'.pc # "none" /\ w'.pc # "receiving"
    BY <1>4
  <2>6. w'.msg # Header => w'.msg \in 1 .. Len(kind') /\ TakenFrom(gone', w'.msg)
    BY <1>2, <1>4, <1>5, <2>2
  <2>7. Pend'[Writer] = "none"
    BY <1>2, <2>1 DEF QueueStays
  <2>8. mpc' # "new"
    BY <1>1, <1>2 DEF FifoInv, WriterInv, Holding
  <2> QED BY <1>4, <2>3, <2>4, <2>5, <2>6, <2>7, <2>8 DEF WriterInv
<1>7. LosslessInv'
  <2> SUFFICES ASSUME ~opt.drop
               PROVE  /\ ~w'.drop_until_keyframe
                      /\ w'.pc \notin Leaving \cup {"recover"} => w'.recovery_nr = 0
                      /\ w'.pc = "recover" => w'.ret \in MuxErrors
                      /\ \A i \in DOMAIN w'.log :
                           \/ w'.log[i].how = "written"
                           \/ i = Len(w'.log) /\ w'.ret \in MuxErrors /\ w'.pc \in Leaving
    BY <1>2 DEF LosslessInv
  <2>1. ~w.drop_until_keyframe /\ \A i \in DOMAIN w.log : w.log[i].how = "written"
    BY <1>1 DEF FifoInv, LosslessInv, Holding, Leaving
  <2>2. ~w'.drop_until_keyframe
    BY <1>1, <2>1 DEF Outcome
  <2>3. w'.pc \notin Leaving \cup {"recover"} => w'.pc = "overflow" /\ w'.recovery_nr = 0
    BY <1>1 DEF Outcome, Leaving
  <2>4. w'.pc # "overflow" => w'.ret \in MuxErrors
    BY <1>1 DEF Outcome
  <2>5. CASE w'.log = w.log
    BY <2>1, <2>2, <2>3, <2>4, <2>5
  <2>6. CASE w'.pc # "recover" /\ Settles(w, w') /\ w'.log # w.log
    <3>1. PICK e \in Entries : /\ w'.log = Append(w.log, e)
                               /\ w'.pc = "overflow" => e.how = "written"
      BY <2>1, <2>6 DEF Settles
    <3>2. ASSUME NEW i \in DOMAIN w'.log, w'.log[i].how # "written"
          PROVE  i = Len(w'.log) /\ w'.pc # "overflow"
      <4>1. w.log \in Seq(Entries)
        BY FifoParts
      <4>2. PICK q \in Seq(Entries) : q = w.log
        BY <4>1
      <4>3. w'.log = Append(q, e) /\ \A j \in DOMAIN q : q[j].how = "written"
        BY <2>1, <3>1, <4>2
      <4>4. /\ Len(q) \in Nat /\ DOMAIN q = 1 .. Len(q) /\ DOMAIN Append(q, e) = 1 .. Len(q) + 1
            /\ Len(Append(q, e)) = Len(q) + 1 /\ Append(q, e)[Len(q) + 1] = e
            /\ \A j \in 1 .. Len(q) : Append(q, e)[j] = q[j]
        BY <3>1
      <4>5. i \in 1 .. Len(q) \/ i = Len(q) + 1
        BY <4>3, <4>4
      <4>6. i = Len(q) + 1
        BY <3>2, <4>3, <4>4, <4>5
      <4> QED BY <3>1, <3>2, <4>3, <4>4, <4>6
    <3>3. w'.pc # "overflow" => w'.pc \in Leaving
      BY <1>4, <2>6 DEF Leaving
    <3> QED BY <2>2, <2>3, <2>4, <3>2, <3>3
  <2> QED BY <1>1, <2>5, <2>6 DEF Outcome
<1>8. PacketsAccounted'
  <2>1. Taken' = Taken
    BY <1>2, <1>5, TakenStays
  <2>2. AccountedFor(w.log, {w.msg} \cap Taken, Taken)
    BY <1>1, FifoParts DEF Hand
  <2>3. IsPacket(w.msg) <=> w.msg \in Taken
    <3>1. w.msg # Header => w.msg \in 1 .. Len(kind) /\ TakenFrom(gone, w.msg)
      BY <1>1 DEF FifoInv, WriterInv
    <3> QED BY <3>1, FifoParts DEF IsPacket
  <2>4. CASE w'.pc = "recover" /\ w'.log = w.log
    <3>1. Hand(w', Pend'[Writer] = "none", ret'[Writer], Taken') = {w.msg} \cap Taken
      BY <1>4, <2>1, <2>4 DEF Hand, Holding
    <3> QED BY <2>1, <2>2, <2>4, <3>1, AccountsAre
  <2>5. CASE w'.pc # "recover" /\ Settles(w, w')
    <3>1. Hand(w', Pend'[Writer] = "none", ret'[Writer], Taken') = {}
      BY <1>4, <2>5 DEF Hand, Holding
    <3>2. AccountedFor(w'.log, {}, Taken)
      <4>1. CASE IsPacket(w.msg)
        <5>1. PICK e \in Entries : w'.log = Append(w.log, e) /\ e.m = w.msg
          BY <2>5, <4>1 DEF Settles
        <5> QED BY <2>2, <2>3, <4>1, <5>1, FifoParts, AccountSettled
      <4>2. CASE ~IsPacket(w.msg)
        <5>1. {w.msg} \cap Taken = {} /\ w'.log = w.log
          BY <2>3, <2>5, <4>2 DEF Settles
        <5> QED BY <2>2, <5>1
      <4> QED BY <4>1, <4>2
    <3> QED BY <2>1, <3>1, <3>2, AccountsAre
  <2> QED BY <1>1, <2>4, <2>5 DEF Outcome
<1>9. FifoExactlyOnce'
  BY <1>2 DEF FifoInv, FifoExactlyOnce, QueueStays
<1> QED BY <1>2, <1>3, <1>6, <1>7, <1>8, <1>9 DEF FifoInv, QueueStays

(* Steps of Writer with no message in its hand, before or after. *)
LEMMA PaceKeeps ==
  ASSUME FifoInv, TypeOK', FifoExactlyOnce', DOMAIN ret' = Threads, Pend' = Pend,
         UNCHANGED <<mpc, opt, kind, err_recv, arg, ret, sent>>,
         overflow_flag' \in BOOLEAN, overflow_flag' => overflow_flag,
         fifo' = fifo \/ fifo' = <<>>,
         \A k \in 1 .. Len(kind) : TakenFrom(gone', k) <=> TakenFrom(gone, k),
         w' \in Writers, Shaped(w'), w'.msg = w.msg, w'.log = w.log, w'.ret = w.ret,
         w'.recovery_nr = w.recovery_nr, w'.drop_until_keyframe => w.drop_until_keyframe \/ opt.drop,
         w.pc \notin Holding \cup {"receiving", "none"},
         w'.pc \notin Holding \cup {"receiving", "none"},
         w.pc \in Leaving <=> w'.pc \in Leaving
  PROVE  FifoInv'
<1>1. CallerInv'
  BY CallerStays DEF FifoInv
<1>2. Taken' = Taken
  BY TakenStays
<1>3. PacketsAccounted'
  <2>1. AccountedFor(w.log, {}, Taken)
    BY FifoParts DEF Hand
  <2>2. Hand(w', Pend'[Writer] = "none", ret'[Writer], Taken') = {}
    BY DEF Hand
  <2> QED BY <1>2, <2>1, <2>2, AccountsAre
<1>4. WriterInv'
  <2>1. fifo = <<>> => fifo' = <<>>
    OBVIOUS
  <2>2. Stopping' <=> Stopping
    BY DEF Stopping
  <2>3. /\ w'.msg # Header => w'.msg \in 1 .. Len(kind')
        /\ Pend'[Writer] # "none" => Pend'[Writer] = "recv" /\ w'.pc = "receiving"
        /\ w'.pc \in Leaving /\ w'.ret = EOF => fifo' = <<>> /\ Stopping'
        /\ mpc' # "new"
    BY <2>1, <2>2 DEF FifoInv, WriterInv
  <2> QED BY <2>3 DEF WriterInv
<1>5. LosslessInv'
  BY DEF FifoInv, LosslessInv, Holding
<1> QED BY <1>1, <1>3, <1>4, <1>5 DEF FifoInv

LEMMA SetErrorKeeps ==
  ASSUME FifoInv, SetError
  PROVE  FifoInv'
<1>1. /\ w.pc = "fail" /\ SetErrSend(w.ret) /\ w' = [w EXCEPT !.pc = "trailer"]
      /\ UNCHANGED <<mpc, opt, kind, overflow_flag>>
  BY DEF SetError
<1>2. TypeOK /\ w \in Writers /\ w.ret \in Errors \cup {0}
  BY FifoParts, WriterFields DEF FifoInv
<1>3. /\ Pend' = Pend /\ QueueNext
      /\ UNCHANGED <<fifo, err_recv, arg, ret, sent, gone>>
  BY <1>1, <1>2, OthersDo
<1>4. TypeOK' /\ FifoExactlyOnce'
  BY <1>2, <1>3, TypeKept DEF FifoInv, FifoExactlyOnce
<1>5. PICK y : y = [w EXCEPT !.pc = "trailer"]
  OBVIOUS
<1>6. /\ y \in Writers /\ y.pc = "trailer" /\ y.msg = w.msg /\ y.log = w.log /\ y.ret = w.ret
      /\ y.recovery_nr = w.recovery_nr /\ y.drop_until_keyframe = w.drop_until_keyframe
      /\ y.header_written = w.header_written /\ y.output = w.output
  BY <1>2, <1>5 DEF Writers, Leaving
<1>7. Shaped(y)
  BY <1>1, <1>6, FifoParts DEF Shaped
<1>8. w.pc \notin Holding \cup {"receiving", "none"} /\ y.pc \notin Holding \cup {"receiving", "none"}
      /\ w.pc \in Leaving /\ y.pc \in Leaving
  BY <1>1, <1>6 DEF Holding, Leaving
<1>9. w' = y /\ overflow_flag \in BOOLEAN /\ DOMAIN ret = Threads
  BY <1>1, <1>5 DEF FifoInv, CallerInv
<1> QED BY <1>1, <1>3, <1>4, <1>6, <1>7, <1>8, <1>9, PaceKeeps

LEMMA FinalTrailerKeeps ==
  ASSUME FifoInv, FinalTrailer
  PROVE  FifoInv'
<1>1. /\ w.pc = "trailer" /\ w' = [WriteTrailer(w) EXCEPT !.pc = "done"]
      /\ QueueStays /\ UNCHANGED <<mpc, opt, kind, overflow_flag>>
  BY NoCallMade DEF FinalTrailer, FifoInv, queue
<1>2. w \in Writers /\ w.output \in IF w.header_written THEN {"started"} ELSE {"closed", "open"}
  BY <1>1, FifoParts DEF Shaped
<1>3. PICK o \in {"closed", "open"} : o = IF w.header_written THEN "closed" ELSE w.output
  BY <1>2
<1>4. w' = [w EXCEPT !.output = o, !.pc = "done"]
  <2>1. CASE w.header_written
    BY <1>1, <1>2, <1>3, <2>1 DEF WriteTrailer, Into
  <2>2. CASE ~w.header_written
    <3>1. w' = [w EXCEPT !.pc = "done"]
      BY <1>1, <2>2 DEF WriteTrailer
    <3>2. w.output = o
      BY <1>2, <1>3, <2>2
    <3> QED BY <1>2, <3>1, <3>2 DEF Writers
  <2> QED BY <2>1, <2>2
<1>5. PICK y : y = [w EXCEPT !.output = o, !.pc = "done"]
  OBVIOUS
<1>6. /\ y \in Writers /\ y.pc = "done" /\ y.msg = w.msg /\ y.log = w.log /\ y.ret = w.ret
      /\ y.recovery_nr = w.recovery_nr /\ y.drop_until_keyframe = w.drop_until_keyframe
      /\ y.header_written = w.header_written /\ y.output \in {"closed", "open"}
  BY <1>2, <1>3, <1>5 DEF Writers, Leaving
<1>7. Shaped(y)
  BY <1>6 DEF Shaped
<1>8. w.pc \notin Holding \cup {"receiving", "none"} /\ y.pc \notin Holding \cup {"receiving", "none"}
      /\ w.pc \in Leaving /\ y.pc \in Leaving
  BY <1>1, <1>6 DEF Holding, Leaving
<1>9. w' = y /\ overflow_flag \in BOOLEAN /\ DOMAIN ret = Threads /\ FifoExactlyOnce'
  BY <1>1, <1>4, <1>5 DEF FifoInv, CallerInv, QueueStays, FifoExactlyOnce
<1>10. /\ TypeOK' /\ Pend' = Pend /\ UNCHANGED <<fifo, err_recv, arg, ret, sent, gone>>
  BY <1>1 DEF QueueStays
<1> QED BY <1>1, <1>6, <1>7, <1>8, <1>9, <1>10, PaceKeeps

(* What is flushed or freed is not taken by Writer. *)
LEMMA DiscardTakesNone ==
  ASSUME TypeOK, Discard, NEW k
  PROVE  TakenFrom(gone', k) <=> TakenFrom(gone, k)
<1> DEFINE h == [i \in 1 .. Len(fifo) |-> <<fifo[i], "free_func">>]
<1>1. gone \in Gone /\ fifo \in Seq(Msg) /\ Len(fifo) \in Nat
  BY DEF TypeOK, Gone
<1>2. h \in [1 .. Len(fifo) -> Msg \X (Threads \cup {"free_func"})]
  BY <1>1, ElementOfSeq
<1>3. h \in Gone /\ Len(h) = Len(fifo)
  BY <1>1, <1>2, SeqDef, LenProperties DEF Gone
<1>4. \A i \in 1 .. Len(fifo) : h[i] = <<fifo[i], "free_func">>
  OBVIOUS
<1>5. gone' = gone \o h
  BY DEF Discard
<1> HIDE DEF h
<1>6. PICK g \in Gone : g = gone
  BY <1>1
<1>7. /\ Len(g) \in Nat /\ DOMAIN g = 1 .. Len(g) /\ DOMAIN (g \o h) = 1 .. Len(g) + Len(h)
      /\ \A i \in 1 .. Len(g) + Len(h) :
           (g \o h)[i] = IF i <= Len(g) THEN g[i] ELSE h[i - Len(g)]
  <2>1. g \in Gone /\ h \in Gone
    BY <1>3, <1>6
  <2>2. /\ g \o h \in Gone /\ Len(g \o h) = Len(g) + Len(h)
        /\ \A i \in 1 .. Len(g) + Len(h) :
             (g \o h)[i] = IF i <= Len(g) THEN g[i] ELSE h[i - Len(g)]
    BY <2>1, ConcatProperties DEF Gone
  <2>3. Len(g) \in Nat /\ DOMAIN g = 1 .. Len(g) /\ DOMAIN (g \o h) = 1 .. Len(g \o h)
    BY <2>1, <2>2, LenProperties DEF Gone
  <2> QED BY <2>2, <2>3
<1>8. Writer # "free_func"
  BY TwoThreads, UsersAssumption DEF UsersAssumption
<1>9. ASSUME TakenFrom(g, k) PROVE TakenFrom(g \o h, k)
  <2>1. PICK i \in DOMAIN g : g[i] = <<Order[k], Writer>>
    BY <1>9 DEF TakenFrom
  <2>2. i \in 1 .. Len(g) + Len(h) /\ (g \o h)[i] = g[i]
    BY <1>1, <1>3, <1>7, <2>1
  <2> QED BY <1>7, <2>1, <2>2 DEF TakenFrom
<1>10. ASSUME TakenFrom(g \o h, k) PROVE TakenFrom(g, k)
  <2>1. PICK i \in 1 .. Len(g) + Len(h) : (g \o h)[i] = <<Order[k], Writer>>
    BY <1>7, <1>10 DEF TakenFrom
  <2>2. CASE i <= Len(g)
    <3>1. i \in DOMAIN g /\ g[i] = <<Order[k], Writer>>
      BY <1>1, <1>3, <1>7, <2>1, <2>2
    <3> QED BY <3>1 DEF TakenFrom
  <2>3. CASE ~(i <= Len(g))
    <3>1. i - Len(g) \in 1 .. Len(fifo) /\ h[i - Len(g)] = <<Order[k], Writer>>
      BY <1>1, <1>3, <1>7, <2>1, <2>3
    <3>2. h[i - Len(g)][2] = Writer /\ h[i - Len(g)][2] = "free_func"
      BY <1>4, <3>1
    <3> QED BY <1>8, <3>2
  <2> QED BY <2>2, <2>3
<1> QED BY <1>5, <1>6, <1>9, <1>10

LEMMA CheckOverflowKeeps ==
  ASSUME FifoInv, CheckOverflow
  PROVE  FifoInv'
<1>1. /\ w.pc = "overflow" /\ overflow_flag' = FALSE /\ UNCHANGED <<mpc, opt, kind>>
      /\ IF overflow_flag THEN Flush ELSE UNCHANGED queue
  BY DEF CheckOverflow
<1>2. TypeOK /\ w \in Writers /\ overflow_flag \in BOOLEAN /\ (~opt.drop => ~overflow_flag)
      /\ DOMAIN ret = Threads /\ FifoExactlyOnce
  BY FifoParts DEF FifoInv, CallerInv
<1>3. /\ Pend' = Pend /\ TypeOK' /\ FifoExactlyOnce'
      /\ UNCHANGED <<err_recv, arg, ret, sent>>
      /\ fifo' = fifo \/ fifo' = <<>>
      /\ \A k \in 1 .. Len(kind) : TakenFrom(gone', k) <=> TakenFrom(gone, k)
  <2>1. CASE overflow_flag
    <3>1. QueueNext /\ Pend' = Pend /\ Discard /\ UNCHANGED <<err_recv, arg, ret, sent>>
      BY <1>1, <1>2, <2>1, OthersDo
    <3>2. TypeOK' /\ FifoExactlyOnce'
      BY <1>2, <3>1, TypeKept, FifoInductive
    <3>3. fifo' = <<>>
      BY <3>1 DEF Discard
    <3>4. \A k \in 1 .. Len(kind) : TakenFrom(gone', k) <=> TakenFrom(gone, k)
      BY <1>2, <3>1, DiscardTakesNone
    <3> QED BY <3>1, <3>2, <3>3, <3>4
  <2>2. CASE ~overflow_flag
    <3>1. QueueStays
      BY <1>1, <1>2, <2>2, NoCallMade DEF queue
    <3> QED BY <1>2, <3>1 DEF QueueStays, FifoExactlyOnce
  <2> QED BY <2>1, <2>2
<1> DEFINE d == w.drop_until_keyframe \/ (overflow_flag /\ opt.keyframe)
<1>4. d \in BOOLEAN /\ (d => w.drop_until_keyframe \/ opt.drop)
  BY <1>2, WriterFields
<1>5. w' = [w EXCEPT !.pc = "recv", !.drop_until_keyframe = d]
  BY DEF CheckOverflow
<1> HIDE DEF d
<1>6. PICK y : y = [w EXCEPT !.pc = "recv", !.drop_until_keyframe = d]
  OBVIOUS
<1>7. /\ y \in Writers /\ y.pc = "recv" /\ y.msg = w.msg /\ y.log = w.log /\ y.ret = w.ret
      /\ y.recovery_nr = w.recovery_nr /\ y.drop_until_keyframe = d
      /\ y.header_written = w.header_written /\ y.output = w.output
  BY <1>2, <1>4, <1>6 DEF Writers
<1>8. Shaped(y)
  BY <1>1, <1>7, FifoParts DEF Shaped
<1>9. w.pc \notin Holding \cup {"receiving", "none"} /\ y.pc \notin Holding \cup {"receiving", "none"}
      /\ w.pc \notin Leaving /\ y.pc \notin Leaving
  BY <1>1, <1>7 DEF Holding, Leaving
<1>10. w' = y
  BY <1>5, <1>6
<1>11. overflow_flag' \in BOOLEAN /\ (overflow_flag' => overflow_flag) /\ DOMAIN ret' = Threads
  BY <1>1, <1>2, <1>3
<1> QED BY <1>1, <1>3, <1>4, <1>7, <1>8, <1>9, <1>10, <1>11, PaceKeeps

(* Where in the order of all messages those are that were taken, and the   *)
(* next one.                                                               *)
LEMMA SentAre ==
  ASSUME TypeOK, FifoExactlyOnce
  PROVE  /\ gone \in Gone /\ sent \in Seq(Msg) /\ fifo \in Seq(Msg)
         /\ \A i \in DOMAIN gone : i \in DOMAIN sent /\ sent[i] = gone[i][1] /\ i \in 1 .. Len(gone)
         /\ fifo # <<>> => /\ Len(gone) + 1 \in DOMAIN sent
                           /\ sent[Len(gone) + 1] = Head(fifo)
<1>1. gone \in Gone /\ sent \in Seq(Msg) /\ fifo \in Seq(Msg)
  BY DEF TypeOK, Gone
<1>2. PICK g \in Gone, f \in Seq(Msg) : g = gone /\ f = fifo
  BY <1>1
<1>3. sent = Messages(g) \o f
  BY <1>2 DEF FifoExactlyOnce, Messages
<1>4. PICK q \in Seq(Msg) : q = Messages(g) /\ Len(q) = Len(g) /\ \A i \in 1 .. Len(g) : q[i] = g[i][1]
  BY <1>2, MessagesType
<1>5. /\ q \o f \in Seq(Msg) /\ Len(q \o f) = Len(q) + Len(f)
      /\ \A i \in 1 .. Len(q) + Len(f) : (q \o f)[i] = IF i <= Len(q) THEN q[i] ELSE f[i - Len(q)]
  <2>1. q \in Seq(Msg) /\ f \in Seq(Msg)
    BY <1>2, <1>4
  <2> QED BY <2>1, ConcatProperties
<1>6. /\ Len(g) \in Nat /\ Len(f) \in Nat /\ DOMAIN g = 1 .. Len(g)
      /\ DOMAIN (q \o f) = 1 .. Len(g) + Len(f)
  BY <1>2, <1>4, <1>5, LenProperties DEF Gone
<1>7. ASSUME NEW i \in DOMAIN g
      PROVE  i \in DOMAIN (q \o f) /\ (q \o f)[i] = g[i][1] /\ i \in 1 .. Len(g)
  BY <1>4, <1>5, <1>6
<1>8. ASSUME f # <<>>
      PROVE  Len(g) + 1 \in DOMAIN (q \o f) /\ (q \o f)[Len(g) + 1] = Head(f)
  <2>1. Len(f) >= 1 /\ Head(f) = f[1]
    BY <1>2, <1>8, HeadTailProperties, EmptySeq
  <2> QED BY <1>4, <1>5, <1>6, <2>1
<1> QED BY <1>1, <1>2, <1>3, <1>4, <1>7, <1>8

(* Taking the next message: its number is above those of the messages      *)
(* taken before.                                                           *)
LEMMA NextIsLater ==
  ASSUME FifoInv, fifo # <<>>
  PROVE  \E k \in 1 .. Len(kind) :
           /\ Head(fifo) = Order[k]
           /\ \A j \in 1 .. Len(kind) : TakenFrom(gone, j) => j < k
<1>1. /\ TypeOK /\ FifoExactlyOnce /\ InOrder(sent, Len(kind))
  BY DEF FifoInv, CallerInv
<1>2. /\ gone \in Gone /\ Len(gone) + 1 \in DOMAIN sent /\ sent[Len(gone) + 1] = Head(fifo)
      /\ \A i \in DOMAIN gone : i \in DOMAIN sent /\ sent[i] = gone[i][1] /\ i \in 1 .. Len(gone)
  BY <1>1, SentAre
<1>3. PICK k \in 1 .. Len(kind) : sent[Len(gone) + 1] = Order[k]
  BY <1>1, <1>2 DEF InOrder
<1>4. ASSUME NEW j \in 1 .. Len(kind), TakenFrom(gone, j) PROVE j < k
  <2>1. PICK i \in DOMAIN gone : gone[i] = <<Order[j], Writer>>
    BY <1>4 DEF TakenFrom
  <2>2. i \in DOMAIN sent /\ sent[i] = Order[j] /\ i \in 1 .. Len(gone)
    BY <1>2, <2>1
  <2>3. i < Len(gone) + 1
    <3>1. Len(gone) \in Nat
      BY <1>2, LenProperties DEF Gone
    <3> QED BY <2>2, <3>1
  <2> QED BY <1>1, <1>2, <1>3, <2>2, <2>3 DEF InOrder
<1> QED BY <1>2, <1>3, <1>4

LEMMA TakenAfter ==
  ASSUME NEW g \in Gone, NEW m \in Msg, NEW k
  PROVE  TakenFrom(Append(g, <<m, Writer>>), k) <=> TakenFrom(g, k) \/ Order[k] = m
<1>1. PICK e : e = <<m, Writer>>
  OBVIOUS
<1>2. e \in Msg \X (Threads \cup {"free_func"})
  BY <1>1, TwoThreads
<1>3. /\ Len(g) \in Nat /\ DOMAIN g = 1 .. Len(g) /\ DOMAIN Append(g, e) = 1 .. Len(g) + 1
      /\ \A i \in 1 .. Len(g) : Append(g, e)[i] = g[i]
      /\ Append(g, e)[Len(g) + 1] = e
  BY <1>2, AppendProperties, LenProperties DEF Gone
<1>4. PICK q : q = Append(g, e)
  OBVIOUS
<1>5. /\ \A i \in DOMAIN q : i \in DOMAIN g \/ i = Len(g) + 1
      /\ \A i \in DOMAIN g : i \in DOMAIN q /\ q[i] = g[i]
      /\ Len(g) + 1 \in DOMAIN q /\ q[Len(g) + 1] = <<m, Writer>>
  BY <1>1, <1>3, <1>4
<1>6. TakenFrom(q, k) <=> TakenFrom(g, k) \/ Order[k] = m
  <2>1. ASSUME TakenFrom(q, k) PROVE TakenFrom(g, k) \/ Order[k] = m
    <3>1. PICK i \in DOMAIN q : q[i] = <<Order[k], Writer>>
      BY <2>1 DEF TakenFrom
    <3>2. CASE i \in DOMAIN g
      BY <1>5, <3>1, <3>2 DEF TakenFrom
    <3>3. CASE i = Len(g) + 1
      BY <1>5, <3>1, <3>3
    <3> QED BY <1>5, <3>1, <3>2, <3>3
  <2>2. TakenFrom(g, k) => TakenFrom(q, k)
    BY <1>5 DEF TakenFrom
  <2>3. Order[k] = m => TakenFrom(q, k)
    BY <1>5 DEF TakenFrom
  <2> QED BY <2>1, <2>2, <2>3
<1> QED BY <1>1, <1>4, <1>6

(* A receive of Writer that ends or waits. *)
LEMMA WriterReceives ==
  ASSUME FifoInv, RecvAt(Writer, Main, FALSE), FifoExactlyOnce',
         w.pc = "recv" \/ (w.pc = "receiving" /\ Pend[Writer] = "recv"),
         w' = [w EXCEPT !.pc = "receiving"], UNCHANGED <<mpc, opt, kind, overflow_flag>>
  PROVE  FifoInv'
<1>1. /\ Pend'[Main] = Pend[Main] /\ arg'[Main] = arg[Main] /\ ret'[Main] = ret[Main]
      /\ DOMAIN ret' = Threads /\ TypeOK' /\ UNCHANGED <<err_send, err_recv, sent>>
  BY DEF RecvAt, Alone
<1>2. \/ Pend'[Writer] = "recv" /\ UNCHANGED gone
      \/ /\ Pend'[Writer] = "none" /\ UNCHANGED gone
         /\ err_recv # 0 /\ fifo' = <<>> /\ ret'[Writer] = err_recv
      \/ /\ Pend'[Writer] = "none" /\ fifo # <<>> /\ ret'[Writer] = Head(fifo)
         /\ gone' = Append(gone, <<Head(fifo), Writer>>)
  BY DEF RecvAt
<1>3. w \in Writers /\ (w.pc = "recv" \/ w.pc = "receiving")
  BY FifoParts
<1>4. PICK y : y = w'
  OBVIOUS
<1>5. /\ y \in Writers /\ y.pc = "receiving" /\ y.msg = w.msg /\ y.log = w.log /\ y.ret = w.ret
      /\ y.recovery_nr = w.recovery_nr /\ y.drop_until_keyframe = w.drop_until_keyframe
      /\ y.header_written = w.header_written /\ y.output = w.output
  BY <1>3, <1>4 DEF Writers
<1>6. Shaped(y)
  BY <1>3, <1>5, FifoParts DEF Shaped
<1>7. CallerInv'
  BY <1>1, CallerStays DEF FifoInv, CallerInv
<1>8. LosslessInv'
  <2>1. w.pc \notin Leaving \cup {"recover"} /\ y.pc \notin Leaving \cup {"recover"}
    BY <1>3, <1>5 DEF Leaving
  <2> QED BY <1>4, <1>5, <2>1 DEF FifoInv, LosslessInv
<1>9. y.pc \notin Holding /\ y.pc \notin Leaving /\ y.pc # "none"
      /\ w.pc \notin Holding /\ (Stopping' <=> Stopping) /\ mpc' # "new"
  BY <1>3, <1>5 DEF Holding, Leaving, Stopping, FifoInv, WriterInv
<1>10. AccountedFor(w.log, {}, Taken)
  BY <1>3, <1>9, FifoParts DEF Hand
<1>11. CASE UNCHANGED gone /\ (Pend'[Writer] = "recv" \/
              /\ Pend'[Writer] = "none" /\ err_recv # 0 /\ fifo' = <<>> /\ ret'[Writer] = err_recv)
  <2>1. err_recv # 0 => err_recv \in Errors /\ Stopping
    BY DEF FifoInv, TypeOK, CallerInv
  <2>2. WriterInv'
    BY <1>4, <1>5, <1>6, <1>9, <1>11, <2>1 DEF FifoInv, WriterInv
  <2>3. Taken' = Taken
    BY <1>11, TakenStays
  <2>4. Hand(y, Pend'[Writer] = "none", ret'[Writer], Taken) = {}
    <3>1. \A k \in Taken : Order[k] \in Msg
      BY FifoParts, OrderIs
    <3>2. Pend'[Writer] = "none" => \A k \in Taken : Order[k] # ret'[Writer]
      BY <1>11, <2>1, <3>1, Codes
    <3> QED BY <1>9, <3>2 DEF Hand
  <2>5. PacketsAccounted'
    BY <1>4, <1>5, <1>10, <2>3, <2>4, AccountsAre
  <2> QED BY <1>1, <1>7, <1>8, <2>2, <2>5 DEF FifoInv
<1>12. CASE /\ Pend'[Writer] = "none" /\ fifo # <<>> /\ ret'[Writer] = Head(fifo)
            /\ gone' = Append(gone, <<Head(fifo), Writer>>)
  <2>1. PICK k \in 1 .. Len(kind) :
          /\ Head(fifo) = Order[k]
          /\ \A j \in 1 .. Len(kind) : TakenFrom(gone, j) => j < k
    BY <1>12, NextIsLater
  <2>2. k \in 1 .. MaxMsg /\ gone \in Gone /\ Order[k] \in Msg
    BY <2>1, FifoParts, OrderIs DEF FifoInv, TypeOK, Gone
  <2>3. \A j \in 1 .. Len(kind) : TakenFrom(gone', j) <=> TakenFrom(gone, j) \/ j = k
    <3>1. ASSUME NEW j \in 1 .. Len(kind)
          PROVE  TakenFrom(gone', j) <=> TakenFrom(gone, j) \/ j = k
      <4>1. TakenFrom(gone', j) <=> TakenFrom(gone, j) \/ Order[j] = Order[k]
        BY <1>12, <2>1, <2>2, TakenAfter
      <4>2. j \in 1 .. MaxMsg
        BY FifoParts
      <4> QED BY <2>2, <4>1, <4>2, OrderIs
    <3> QED BY <3>1
  <2>4. WriterInv'
    <3>1. ret'[Writer] = Order[k] /\ TakenFrom(gone', k) /\ k \in 1 .. Len(kind')
      BY <1>12, <2>1, <2>3
    <3> QED BY <1>4, <1>5, <1>6, <1>9, <1>12, <3>1 DEF FifoInv, WriterInv
  <2>5. PICK hand : hand = {k} \cap {j \in 1 .. Len(kind) : IsPacket(j)}
    OBVIOUS
  <2>6. Taken' = Taken \cup hand
    <3>1. \A j : IsPacket(j)' <=> IsPacket(j)
      BY DEF IsPacket
    <3>2. kind' \in Seq(Kinds) /\ Len(kind') = Len(kind)
      BY FifoParts
    <3>3. Taken' = {j \in 1 .. Len(kind) : IsPacket(j) /\ TakenFrom(gone', j)}
      BY <3>1, <3>2, TakenWillBe
    <3>4. Taken = {j \in 1 .. Len(kind) : IsPacket(j) /\ TakenFrom(gone, j)}
      BY FifoParts
    <3> QED BY <2>3, <2>5, <3>3, <3>4
  <2>7. Hand(y, Pend'[Writer] = "none", ret'[Writer], Taken') = hand
    <3>1. \A j \in Taken' : j \in 1 .. MaxMsg
      BY <2>5, <2>6, FifoParts
    <3>2. \A j \in Taken' : Order[j] = ret'[Writer] <=> j = k
      BY <1>12, <2>1, <2>2, <3>1, OrderIs
    <3>3. k \in Taken' <=> k \in hand
      BY <2>1, <2>5, <2>6, FifoParts
    <3>4. hand \subseteq {k}
      BY <2>5
    <3> QED BY <1>5, <1>9, <1>12, <3>2, <3>3, <3>4 DEF Hand
  <2>8. \A i \in DOMAIN w.log : \A j \in hand : w.log[i].m < j
    <3>1. ASSUME NEW i \in DOMAIN w.log PROVE w.log[i].m < k
      <4>1. w.log[i].m \in Taken
        BY <1>10 DEF AccountedFor
      <4> QED BY <2>1, <4>1, FifoParts
    <3> QED BY <2>5, <3>1
  <2>9. AccountedFor(w.log, hand, Taken')
    BY <1>10, <2>6, <2>8, AccountTaken
  <2>10. PacketsAccounted'
    BY <1>4, <1>5, <2>7, <2>9, AccountsAre
  <2> QED BY <1>1, <1>7, <1>8, <2>4, <2>10 DEF FifoInv
<1> QED BY <1>2, <1>11, <1>12

LEMMA ReceiveKeeps ==
  ASSUME FifoInv, Receive
  PROVE  FifoInv'
<1>1. /\ w.pc = "recv" /\ Recv(Writer, FALSE) /\ w' = [w EXCEPT !.pc = "receiving"]
      /\ UNCHANGED <<mpc, opt, kind, overflow_flag>>
  BY DEF Receive
<1>2. TypeOK /\ DOMAIN ret = Threads /\ FifoExactlyOnce
  BY DEF FifoInv
<1>3. RecvOutcome(Writer, FALSE) /\ QueueNext
  BY <1>1, <1>2, TwoThreads, RecvDoes
<1>4. RecvAt(Writer, Main, FALSE) /\ FifoExactlyOnce'
  BY <1>2, <1>3, TwoThreads, TypeKept, RecvsAt, FifoInductive
<1> QED BY <1>1, <1>4, WriterReceives

LEMMA WriterResumesKeeps ==
  ASSUME FifoInv, InQueue(Writer)
  PROVE  FifoInv'
<1>1. /\ TypeOK /\ DOMAIN ret = Threads /\ FifoExactlyOnce /\ w \in Writers
      /\ (Pend[Writer] # "none" => Pend[Writer] = "recv" /\ w.pc = "receiving")
  BY DEF FifoInv, WriterInv
<1>2. UNCHANGED <<mpc, opt, kind, overflow_flag, w>>
  BY DEF InQueue, app
<1>3. ResumeRecv(Writer)
  BY <1>1, ResumeSendDoes, TwoThreads DEF InQueue
<1>4. Pend[Writer] = "recv" /\ RecvOutcome(Writer, FALSE) /\ QueueNext
  BY <1>1, <1>3, ResumeRecvDoes, TwoThreads
<1>5. RecvAt(Writer, Main, FALSE) /\ FifoExactlyOnce'
  BY <1>1, <1>4, TwoThreads, TypeKept, RecvsAt, FifoInductive
<1>6. w' = [w EXCEPT !.pc = "receiving"]
  BY <1>1, <1>2, <1>4 DEF Writers
<1> QED BY <1>1, <1>2, <1>4, <1>5, <1>6, WriterReceives

(* The call has returned: a message with its number, or the end.           *)
LEMMA ReceivedKeeps ==
  ASSUME FifoInv, Received
  PROVE  FifoInv'
<1>1. /\ w.pc = "receiving" /\ QueueStays /\ UNCHANGED <<mpc, opt, kind, overflow_flag>>
  BY NoCallMade DEF Received, FifoInv, queue
<1>2. Pend[Writer] = "none" /\ Pend'[Writer] = "none"
  BY <1>1, IdleStatus, TwoThreads DEF Received, FifoInv, Idle, QueueStays
<1>3. w' = IF ret[Writer] \in Errors
           THEN [w EXCEPT !.pc = "fail", !.ret = ret[Writer]]
           ELSE [w EXCEPT !.pc = "dispatch", !.ret = 0, !.msg = Number(ret[Writer]), !.rescaled = 0]
  BY DEF Received
<1>4. CallerInv'
  BY <1>1, CallerStays DEF FifoInv, QueueStays, CallerInv
<1>5. \A k \in 1 .. Len(kind) : TakenFrom(gone', k) <=> TakenFrom(gone, k)
  BY <1>1 DEF QueueStays
<1>6. Taken' = Taken
  BY <1>1, <1>5, TakenStays
<1>7. PICK y : y = w'
  OBVIOUS
<1>8. w \in Writers /\ w.output \in IF w.header_written THEN {"started"} ELSE {"closed", "open"}
  BY <1>1, FifoParts DEF Shaped
<1>9. (Stopping' <=> Stopping) /\ mpc' # "new"
  BY <1>1 DEF Stopping, FifoInv, WriterInv
<1>10. AccountedFor(w.log, {k \in Taken : Order[k] = ret[Writer]}, Taken)
  BY <1>1, <1>2, FifoParts DEF Hand, Holding
<1>11. FifoExactlyOnce'
  BY <1>1 DEF FifoInv, FifoExactlyOnce, QueueStays
<1>12. ~opt.drop => /\ ~w.drop_until_keyframe /\ w.recovery_nr = 0
                    /\ \A i \in DOMAIN w.log : w.log[i].how = "written"
  BY <1>1 DEF FifoInv, LosslessInv, Leaving
<1>13. w.msg # Header => w.msg \in 1 .. Len(kind)
  BY DEF FifoInv, WriterInv
<1>14. CASE ret[Writer] \in Errors
  <2>1. y = [w EXCEPT !.pc = "fail", !.ret = ret[Writer]]
    BY <1>3, <1>7, <1>14
  <2>2. /\ y \in Writers /\ y.pc = "fail" /\ y.msg = w.msg /\ y.log = w.log
        /\ y.recovery_nr = w.recovery_nr /\ y.drop_until_keyframe = w.drop_until_keyframe
        /\ y.header_written = w.header_written /\ y.output = w.output
    BY <1>8, <1>14, <2>1 DEF Writers, Leaving
  <2>3. Shaped(y)
    BY <1>8, <2>2 DEF Shaped
  <2>4. \A k \in 1 .. Len(kind) : ret[Writer] # Order[k]
    BY <1>14, FifoParts, OrderIs, Codes
  <2>5. fifo = <<>> /\ Stopping
    BY <1>1, <1>2, <2>4 DEF FifoInv, WriterInv
  <2>6. y.pc \notin Holding \cup {"none", "receiving"} /\ y.pc \in Leaving
    BY <2>2 DEF Holding, Leaving
  <2>7. WriterInv'
    BY <1>1, <1>2, <1>7, <1>9, <1>13, <2>2, <2>3, <2>5, <2>6 DEF WriterInv, QueueStays
  <2>8. LosslessInv'
    BY <1>1, <1>7, <1>12, <2>2, <2>6 DEF LosslessInv
  <2>9. PacketsAccounted'
    <3>1. {k \in Taken : Order[k] = ret[Writer]} = {}
      BY <2>4, FifoParts
    <3>2. Hand(y, Pend'[Writer] = "none", ret'[Writer], Taken') = {}
      BY <2>6 DEF Hand
    <3> QED BY <1>6, <1>7, <1>10, <2>2, <3>1, <3>2, AccountsAre
  <2> QED BY <1>1, <1>4, <1>11, <2>7, <2>8, <2>9 DEF FifoInv, QueueStays
<1>15. CASE ret[Writer] \notin Errors
  <2>1. PICK k \in 1 .. Len(kind) : ret[Writer] = Order[k] /\ TakenFrom(gone, k)
    BY <1>1, <1>2, <1>15 DEF FifoInv, WriterInv
  <2>2. k \in 1 .. MaxMsg /\ k \in Nat /\ k # Header
    BY <2>1, FifoParts DEF Header
  <2>3. Number(ret[Writer]) = k
    BY <2>1, <2>2, NumberIs
  <2>4. y = [w EXCEPT !.pc = "dispatch", !.ret = 0, !.msg = k, !.rescaled = 0]
    BY <1>3, <1>7, <1>15, <2>3
  <2>5. /\ y \in Writers /\ y.pc = "dispatch" /\ y.msg = k /\ y.log = w.log /\ y.ret = 0
        /\ y.recovery_nr = w.recovery_nr /\ y.drop_until_keyframe = w.drop_until_keyframe
        /\ y.header_written = w.header_written /\ y.output = w.output
    BY <1>8, <2>2, <2>4 DEF Writers, Holding
  <2>6. Shaped(y)
    BY <1>8, <2>5 DEF Shaped
  <2>7. y.pc \in Holding /\ y.pc \notin Leaving
    BY <2>5 DEF Holding, Leaving
  <2>8. WriterInv'
    <3>1. TakenFrom(gone', k) /\ k \in 1 .. Len(kind')
      BY <1>1, <1>5, <2>1
    <3> QED BY <1>2, <1>7, <1>9, <2>5, <2>6, <2>7, <3>1 DEF WriterInv
  <2>9. LosslessInv'
    BY <1>1, <1>7, <1>12, <2>5, <2>7 DEF LosslessInv
  <2>10. PacketsAccounted'
    <3>1. {j \in Taken : Order[j] = ret[Writer]} = {k} \cap Taken
      <4>1. \A j \in Taken : j \in 1 .. MaxMsg
        BY FifoParts
      <4> QED BY <2>1, <2>2, <4>1, OrderIs
    <3>2. Hand(y, Pend'[Writer] = "none", ret'[Writer], Taken') = {k} \cap Taken
      BY <1>6, <2>5, <2>7 DEF Hand
    <3> QED BY <1>6, <1>7, <1>10, <2>5, <3>1, <3>2, AccountsAre
  <2> QED BY <1>1, <1>4, <1>11, <2>8, <2>9, <2>10 DEF FifoInv, QueueStays
<1> QED BY <1>14, <1>15

-----------------------------------------------------------------------------
(* Writer's part is kept by what the caller does. *)
LEMMA WriterStays ==
  ASSUME FifoInv, UNCHANGED <<opt, w>>, Pend'[Writer] = Pend[Writer], ret'[Writer] = ret[Writer],
         Stopping => fifo' = fifo \/ fifo' = <<>>, Stopping => Stopping',
         mpc' = "new" => mpc = "new",
         Len(kind') \in Nat, Len(kind') >= Len(kind),
         \A k \in 1 .. Len(kind) : TakenFrom(gone, k) => TakenFrom(gone', k), Taken' = Taken
  PROVE  WriterInv' /\ LosslessInv' /\ PacketsAccounted'
<1>1. 1 .. Len(kind) \subseteq 1 .. Len(kind')
  BY FifoParts
<1>2. Stopping /\ fifo = <<>> => Stopping' /\ fifo' = <<>>
  OBVIOUS
<1>3. WriterInv'
  <2>1. w.msg # Header => w.msg \in 1 .. Len(kind')
    BY <1>1 DEF FifoInv, WriterInv
  <2>2. w.pc = "receiving" /\ Pend[Writer] = "none" =>
          \/ ret[Writer] \in Errors /\ fifo' = <<>> /\ Stopping'
          \/ \E k \in 1 .. Len(kind') : ret[Writer] = Order[k] /\ TakenFrom(gone', k)
    BY <1>1, <1>2 DEF FifoInv, WriterInv
  <2>3. w.pc \in Holding /\ w.msg # Header => TakenFrom(gone', w.msg)
    BY DEF FifoInv, WriterInv
  <2>4. w.pc \in Leaving /\ w.ret = EOF => fifo' = <<>> /\ Stopping'
    BY <1>2 DEF FifoInv, WriterInv
  <2> QED BY <2>1, <2>2, <2>3, <2>4 DEF FifoInv, WriterInv
<1>4. LosslessInv'
  BY DEF FifoInv, LosslessInv
<1>5. PacketsAccounted'
  BY AccountsAre DEF FifoInv
<1> QED BY <1>3, <1>4, <1>5

(* Steps of the caller that leave the queue's messages alone. *)
LEMMA CallerMoves ==
  ASSUME FifoInv, TypeOK', Pend' = Pend, DOMAIN ret' = Threads,
         UNCHANGED <<fifo, arg, ret, sent, gone, opt, kind, w>>, Stopping => Stopping',
         mpc' = "new" => mpc = "new", CallerInv'
  PROVE  FifoInv'
<1>1. Taken' = Taken
  BY TakenStays
<1>2. WriterInv' /\ LosslessInv' /\ PacketsAccounted'
  <2>1. Len(kind') \in Nat /\ Len(kind') >= Len(kind)
    BY FifoParts
  <2> QED BY <1>1, <2>1, WriterStays
<1> QED BY <1>2 DEF FifoInv, FifoExactlyOnce

(* A message that was not sent yet is not among those taken. *)
LEMMA NewNotTaken ==
  ASSUME TypeOK, FifoExactlyOnce, NEW k, \A i \in DOMAIN sent : sent[i] # Order[k]
  PROVE  ~TakenFrom(gone, k)
<1>1. ASSUME NEW i \in DOMAIN gone, gone[i] = <<Order[k], Writer>> PROVE FALSE
  <2>1. i \in DOMAIN sent /\ sent[i] = gone[i][1]
    BY SentAre
  <2> QED BY <1>1, <2>1
<1> QED BY <1>1 DEF TakenFrom

(* A send of the caller that ends or waits. *)
LEMMA CallerSends ==
  ASSUME FifoInv, kind' \in Seq(Kinds), Len(kind') >= Len(kind), kind' # <<>>, Len(kind') <= MaxMsg,
         NEW nonblock, SendAt(Main, Writer, Order[Len(kind')], nonblock), FifoExactlyOnce',
         nonblock => opt.drop, InOrder(sent, Len(kind')),
         \A i \in DOMAIN sent : sent[i] # Order[Len(kind')],
         mpc \in {"run", "writing"}, mpc' = "writing", Taken' = Taken,
         UNCHANGED <<opt, overflow_flag, w>>
  PROVE  FifoInv'
<1> DEFINE n == Len(kind')
           m == Order[n]
<1>1. /\ Pend'[Writer] = Pend[Writer] /\ ret'[Writer] = ret[Writer]
      /\ DOMAIN ret' = Threads /\ TypeOK' /\ UNCHANGED <<err_send, err_recv, gone>>
  BY DEF SendAt, Alone
<1>2. \/ Pend'[Main] = "send" /\ arg'[Main] = {m} /\ UNCHANGED sent
      \/ Pend'[Main] = "none" /\ UNCHANGED sent /\ nonblock
      \/ Pend'[Main] = "none" /\ UNCHANGED sent /\ err_send # 0 /\ ret'[Main] = err_send
      \/ Pend'[Main] = "none" /\ ret'[Main] = "ok" /\ sent' = Append(sent, m)
  BY DEF SendAt
<1>3. n \in 1 .. MaxMsg /\ n \in Nat
  <2>1. n \in Nat /\ n # 0
    BY EmptySeq, LenProperties
  <2> QED BY <2>1, OrderIs
<1>4. m \in Msg
  BY <1>3, OrderIs
<1>5. sent \in Seq(Msg) /\ opt.drop \in BOOLEAN
  BY FifoParts
<1> HIDE DEF m, n
<1>6. InOrder(sent', n)
  <2>1. CASE UNCHANGED sent
    BY <2>1 DEF n
  <2>2. CASE sent' = Append(sent, m)
    <3>1. InOrder(Append(sent, Order[n]), n)
      BY <1>3, <1>5, OrderAppend DEF n
    <3> QED BY <2>2, <3>1 DEF m
  <2> QED BY <1>2, <2>1, <2>2
<1>7. ~opt.drop /\ Pend'[Main] = "none" => ret'[Main] # "EAGAIN"
  <2>1. err_send # 0 => err_send # "EAGAIN"
    BY Codes DEF FifoInv, TypeOK
  <2> QED BY <1>2, <2>1
<1>8. Pend'[Main] # "none" =>
        /\ Pend'[Main] = "send" /\ arg'[Main] = {Order[Len(kind')]}
        /\ \A i \in DOMAIN sent' : sent'[i] # Order[Len(kind')]
  BY <1>2 DEF m, n
<1>9. ~Stopping
  BY DEF Stopping
<1>10. CallerInv'
  <2>1. /\ opt \in OptionSets /\ overflow_flag \in BOOLEAN /\ err_recv = 0
        /\ ~opt.drop => ~overflow_flag
    BY <1>9 DEF FifoInv, CallerInv
  <2> QED BY <1>1, <1>6, <1>7, <1>8, <2>1 DEF CallerInv, n
<1>11. WriterInv' /\ LosslessInv' /\ PacketsAccounted'
  BY <1>1, <1>3, <1>9, WriterStays DEF n
<1> QED BY <1>1, <1>10, <1>11 DEF FifoInv

LEMMA WriteCallKeeps ==
  ASSUME FifoInv, WriteCall
  PROVE  FifoInv'
<1>1. PICK c \in Kinds : kind' = Append(kind, c)
  BY DEF WriteCall, Kinds
<1>2. /\ mpc = "run" /\ Len(kind) < MaxMsg /\ mpc' = "writing"
      /\ Send(Main, Order[Len(kind')], opt.drop)
      /\ UNCHANGED <<opt, overflow_flag, w>>
  BY DEF WriteCall
<1>3. /\ TypeOK /\ DOMAIN ret = Threads /\ FifoExactlyOnce /\ InOrder(sent, Len(kind))
      /\ kind \in Seq(Kinds) /\ Len(kind) \in Nat /\ opt.drop \in BOOLEAN
  BY FifoParts DEF FifoInv, CallerInv
<1>4. /\ kind' \in Seq(Kinds) /\ Len(kind') = Len(kind) + 1 /\ kind' # <<>>
      /\ \A k \in 1 .. Len(kind) : kind'[k] = kind[k]
  <2>1. PICK q \in Seq(Kinds) : q = kind
    BY <1>3
  <2>2. /\ Append(q, c) \in Seq(Kinds) /\ Len(Append(q, c)) = Len(q) + 1 /\ Len(q) \in Nat
        /\ \A k \in 1 .. Len(q) : Append(q, c)[k] = q[k]
    BY <1>1, AppendProperties
  <2>3. Append(q, c) # <<>>
    BY <2>2, EmptySeq
  <2> QED BY <1>1, <2>1, <2>2, <2>3
<1>5. /\ Len(kind') <= MaxMsg /\ Len(kind') \in 1 .. MaxMsg
  BY <1>2, <1>3, <1>4, OrderIs
<1>6. Order[Len(kind')] \in Msg
  BY <1>5, OrderIs
<1>7. SendOutcome(Main, Order[Len(kind')], opt.drop) /\ QueueNext
  BY <1>2, <1>3, <1>6, TwoThreads, SendDoes
<1>8. SendAt(Main, Writer, Order[Len(kind')], opt.drop) /\ FifoExactlyOnce'
  BY <1>3, <1>7, TwoThreads, TypeKept, SendsAt, FifoInductive
<1>9. InOrder(sent, Len(kind')) /\ \A i \in DOMAIN sent : sent[i] # Order[Len(kind')]
  <2>1. Len(kind) + 1 <= MaxMsg
    BY <1>4, <1>5
  <2>2. InOrder(sent, Len(kind) + 1) /\ \A i \in DOMAIN sent : sent[i] # Order[Len(kind) + 1]
    BY <1>3, <2>1, OrderMore
  <2> QED BY <1>4, <2>2
<1>10. Taken' = Taken
  <2>1. gone' = gone
    BY <1>8 DEF SendAt
  <2>2. ~TakenFrom(gone, Len(kind'))
    BY <1>3, <1>9, NewNotTaken
  <2>3. \A k \in 1 .. Len(kind) : IsPacket(k)' <=> IsPacket(k)
    BY <1>4 DEF IsPacket
  <2>4. \A k \in 1 .. Len(kind') : k \in 1 .. Len(kind) \/ k = Len(kind')
    BY <1>3, <1>4
  <2>5. 1 .. Len(kind) \subseteq 1 .. Len(kind')
    BY <1>3, <1>4
  <2>6. Taken' = {k \in 1 .. Len(kind') : IsPacket(k)' /\ TakenFrom(gone', k)}
    BY <1>4, TakenWillBe
  <2>7. Taken = {k \in 1 .. Len(kind) : IsPacket(k) /\ TakenFrom(gone, k)}
    BY FifoParts
  <2> QED BY <2>1, <2>2, <2>3, <2>4, <2>5, <2>6, <2>7
<1>11. Len(kind') >= Len(kind)
  BY <1>3, <1>4
<1> QED BY <1>2, <1>4, <1>5, <1>8, <1>9, <1>10, <1>11, CallerSends

LEMMA CallerResumesKeeps ==
  ASSUME FifoInv, InQueue(Main)
  PROVE  FifoInv'
<1>1. /\ TypeOK /\ DOMAIN ret = Threads /\ FifoExactlyOnce
      /\ (Pend[Main] # "none" =>
            /\ Pend[Main] = "send" /\ mpc = "writing" /\ kind # <<>>
            /\ arg[Main] = {Order[Len(kind)]}
            /\ \A i \in DOMAIN sent : sent[i] # Order[Len(kind)])
      /\ InOrder(sent, Len(kind)) /\ kind \in Seq(Kinds) /\ Len(kind) <= MaxMsg /\ Len(kind) \in Nat
  BY FifoParts DEF FifoInv, CallerInv
<1>2. UNCHANGED <<mpc, opt, kind, overflow_flag, w>>
  BY DEF InQueue, app
<1>3. ResumeSend(Main)
  BY <1>1, ResumeRecvDoes, TwoThreads DEF InQueue
<1>4. Pend[Main] = "send" /\ QueueNext
  BY <1>1, <1>3, ResumeSendDoes, TwoThreads
<1>5. PICK m \in Msg : arg[Main] = {m} /\ SendOutcome(Main, m, FALSE)
  BY <1>1, <1>3, ResumeSendDoes, TwoThreads
<1>6. m = Order[Len(kind')]
  BY <1>1, <1>2, <1>4, <1>5
<1>7. SendAt(Main, Writer, m, FALSE) /\ FifoExactlyOnce'
  BY <1>1, <1>4, <1>5, TwoThreads, TypeKept, SendsAt, FifoInductive
<1>8. Taken' = Taken
  <2>1. gone' = gone
    BY <1>7 DEF SendAt
  <2> QED BY <1>2, <2>1, TakenStays
<1>9. SendAt(Main, Writer, Order[Len(kind')], FALSE)
  BY <1>6, <1>7
<1>10. /\ kind' \in Seq(Kinds) /\ Len(kind') >= Len(kind) /\ kind' # <<>> /\ Len(kind') <= MaxMsg
       /\ InOrder(sent, Len(kind')) /\ \A i \in DOMAIN sent : sent[i] # Order[Len(kind')]
       /\ mpc = "writing" /\ mpc' = "writing"
  BY <1>1, <1>2, <1>4
<1> QED BY <1>2, <1>7, <1>8, <1>9, <1>10, CallerSends

(* Steps in which neither thread of the muxer moves. *)
LEMMA NothingMoves ==
  ASSUME FifoInv, QueueStays, UNCHANGED <<mpc, opt, kind, overflow_flag, w>>
  PROVE  FifoInv'
<1>1. CallerInv'
  BY CallerStays DEF FifoInv, CallerInv, QueueStays
<1>2. DOMAIN ret' = Threads /\ (Stopping => Stopping')
  BY DEF FifoInv, QueueStays, Stopping
<1> QED BY <1>1, <1>2, CallerMoves DEF QueueStays

LEMMA StartWriterKeeps ==
  ASSUME FifoInv, StartWriter
  PROVE  FifoInv'
<1>1. QueueStays /\ mpc = "new" /\ UNCHANGED <<opt, kind, overflow_flag>>
  BY NoCallMade DEF StartWriter, FifoInv, queue
<1>2. Pend[Main] = "none" /\ ~Stopping
  BY <1>1 DEF FifoInv, CallerInv, Stopping
<1>3. ASSUME mpc' \in {"run", "deinit"} PROVE CallerInv'
  <2>1. err_recv = 0
    BY <1>2 DEF FifoInv, CallerInv
  <2> QED BY <1>1, <1>2, <1>3, <2>1 DEF FifoInv, CallerInv, QueueStays
<1>4. CASE mpc' = "deinit" /\ UNCHANGED w
  <2>1. DOMAIN ret' = Threads
    BY <1>1 DEF FifoInv, QueueStays
  <2> QED BY <1>1, <1>2, <1>3, <1>4, <2>1, CallerMoves DEF QueueStays
<1>5. CASE mpc' = "run" /\ w' = [w EXCEPT !.pc = "dispatch"]
  <2>1. /\ w \in Writers /\ Shaped(w) /\ w.pc = "none" /\ w.msg = Header
        /\ w.ret \in MuxErrors \cup {0} /\ Pend[Writer] = "none"
    BY <1>1 DEF FifoInv, WriterInv
  <2>2. PICK y : y = w'
    OBVIOUS
  <2>3. /\ y \in Writers /\ y.pc = "dispatch" /\ y.msg = w.msg /\ y.log = w.log /\ y.ret = w.ret
        /\ y.recovery_nr = w.recovery_nr /\ y.drop_until_keyframe = w.drop_until_keyframe
        /\ y.header_written = w.header_written /\ y.output = w.output
    BY <1>5, <2>1, <2>2 DEF Writers, Holding
  <2>4. Shaped(y)
    BY <2>1, <2>3 DEF Shaped
  <2>5. WriterInv'
    BY <1>1, <1>5, <2>1, <2>2, <2>3, <2>4 DEF WriterInv, Leaving, QueueStays
  <2>6. LosslessInv'
    BY <1>1, <2>1, <2>2, <2>3 DEF FifoInv, LosslessInv, Leaving
  <2>7. Taken' = Taken
    BY <1>1, TakenStays DEF QueueStays
  <2>8. Hand(w, Pend[Writer] = "none", ret[Writer], Taken) = {}
    BY <2>1 DEF Hand, Holding
  <2>9. {w.msg} \cap Taken = {}
    BY <2>1, FifoParts DEF Header
  <2>10. Hand(y, Pend'[Writer] = "none", ret'[Writer], Taken') = {}
    BY <2>3, <2>7, <2>9 DEF Hand, Holding
  <2>11. PacketsAccounted'
    BY <2>2, <2>3, <2>7, <2>8, <2>10, FifoParts, AccountsAre
  <2> QED BY <1>1, <1>3, <1>5, <2>5, <2>6, <2>11 DEF FifoInv, FifoExactlyOnce, QueueStays
<1> QED BY <1>4, <1>5 DEF StartWriter

LEMMA WriteEndsKeeps ==
  ASSUME FifoInv, WriteFull \/ WriteDone
  PROVE  FifoInv'
<1>1. /\ QueueStays /\ mpc = "writing" /\ mpc' = "run" /\ UNCHANGED <<opt, kind, w>>
  BY NoCallMade DEF WriteFull, WriteDone, FifoInv, queue
<1>2. Pend[Main] = "none"
  BY IdleStatus, TwoThreads DEF WriteFull, WriteDone, FifoInv, Idle
<1>3. overflow_flag' \in BOOLEAN /\ (~opt.drop => ~overflow_flag')
  <2>1. overflow_flag \in BOOLEAN /\ (~opt.drop => ~overflow_flag /\ ret[Main] # "EAGAIN")
    BY <1>1, <1>2 DEF FifoInv, CallerInv
  <2>2. \/ overflow_flag' = TRUE /\ ret[Main] = "EAGAIN"
        \/ overflow_flag' = overflow_flag
    BY DEF WriteFull, WriteDone
  <2>3. CASE overflow_flag' = TRUE /\ ret[Main] = "EAGAIN"
    <3>1. ~~opt.drop
      BY <2>1, <2>3
    <3> QED BY <2>3, <3>1
  <2>4. CASE overflow_flag' = overflow_flag
    BY <2>1, <2>4
  <2> QED BY <2>2, <2>3, <2>4
<1>4. ~Stopping /\ err_recv = 0
  BY <1>1 DEF FifoInv, CallerInv, Stopping
<1>5. CallerInv'
  BY <1>1, <1>2, <1>3, <1>4 DEF FifoInv, CallerInv, QueueStays
<1>6. DOMAIN ret' = Threads
  BY <1>1 DEF FifoInv, QueueStays
<1> QED BY <1>1, <1>4, <1>5, <1>6, CallerMoves DEF QueueStays

LEMMA TrailerCallKeeps ==
  ASSUME FifoInv, TrailerCall
  PROVE  FifoInv'
<1>1. mpc = "run" /\ mpc' = "join" /\ SetErrRecv(EOF) /\ UNCHANGED <<opt, kind, overflow_flag, w>>
  BY DEF TrailerCall
<1>2. TypeOK /\ EOF \in Errors \cup {0}
  BY Codes DEF FifoInv
<1>3. /\ Pend' = Pend /\ TypeOK' /\ err_recv' = EOF
      /\ UNCHANGED <<fifo, err_send, arg, ret, live, sent, gone>>
  BY <1>1, <1>2, OthersDo, TypeKept
<1>4. Stopping'
  BY <1>1 DEF Stopping
<1>5. Pend[Main] = "none"
  BY <1>1 DEF FifoInv, CallerInv
<1>6. CallerInv'
  BY <1>1, <1>3, <1>4, <1>5 DEF FifoInv, CallerInv
<1>7. DOMAIN ret' = Threads
  BY <1>3 DEF FifoInv
<1> QED BY <1>1, <1>3, <1>4, <1>6, <1>7, CallerMoves

LEMMA JoinsKeeps ==
  ASSUME FifoInv, Join
  PROVE  FifoInv'
<1>1. /\ QueueStays /\ mpc = "join" /\ mpc' = "deinit" /\ UNCHANGED <<opt, kind, overflow_flag, w>>
  BY NoCallMade DEF Join, FifoInv, queue
<1>2. Stopping' /\ Pend[Main] = "none"
  BY <1>1 DEF FifoInv, CallerInv, Stopping
<1>3. CallerInv'
  BY <1>1, <1>2 DEF FifoInv, CallerInv, QueueStays
<1>4. DOMAIN ret' = Threads
  BY <1>1 DEF FifoInv, QueueStays
<1> QED BY <1>1, <1>2, <1>3, <1>4, CallerMoves DEF QueueStays

LEMMA DeinitKeeps ==
  ASSUME FifoInv, Deinit
  PROVE  FifoInv'
<1>1. /\ mpc = "deinit" /\ mpc' = "freed" /\ QueueFree
      /\ UNCHANGED <<opt, kind, overflow_flag, w>>
  BY DEF Deinit
<1>2. TypeOK /\ FifoExactlyOnce /\ DOMAIN ret = Threads
  BY DEF FifoInv
<1>3. /\ Pend' = Pend /\ QueueNext /\ Discard
      /\ UNCHANGED <<err_send, err_recv, arg, ret, sent>>
  BY <1>1, <1>2, OthersDo
<1>4. TypeOK' /\ FifoExactlyOnce' /\ fifo' = <<>>
  BY <1>2, <1>3, TypeKept, FifoInductive DEF Discard
<1>5. \A k : TakenFrom(gone', k) <=> TakenFrom(gone, k)
  BY <1>2, <1>3, DiscardTakesNone
<1>6. Taken' = Taken
  BY <1>1, <1>5, TakenStays
<1>7. Stopping' /\ Pend[Main] = "none"
  BY <1>1 DEF FifoInv, CallerInv, Stopping
<1>8. CallerInv'
  BY <1>1, <1>3, <1>7 DEF FifoInv, CallerInv
<1>9. WriterInv' /\ LosslessInv' /\ PacketsAccounted'
  <2>1. Len(kind') \in Nat /\ Len(kind') >= Len(kind)
    BY <1>1, FifoParts
  <2> QED BY <1>1, <1>3, <1>4, <1>5, <1>6, <1>7, <2>1, WriterStays
<1> QED BY <1>2, <1>3, <1>4, <1>8, <1>9 DEF FifoInv

LEMMA FifoStarts ==
  ASSUME FifoInit
  PROVE  FifoInv
<1>1. /\ Init /\ mpc = "new" /\ opt \in OptionSets /\ kind = <<>> /\ overflow_flag = FALSE
      /\ w = [pc |-> "none", msg |-> Header, ret |-> 0, recovery_nr |-> 0,
              last_recovery_ts |-> 0, drop_until_keyframe |-> FALSE, header_written |-> FALSE,
              rescaled |-> 0, log |-> <<>>, output |-> "closed"]
  BY DEF FifoInit
<1>2. TypeOK /\ DOMAIN ret = Threads /\ Pend = [t \in Threads |-> "none"]
  BY <1>1, NewQueue
<1>3. Pend[Main] = "none" /\ Pend[Writer] = "none"
  BY <1>2, TwoThreads
<1>4. fifo = <<>> /\ sent = <<>> /\ gone = <<>> /\ err_recv = 0
  BY <1>1 DEF Init
<1>5. FifoExactlyOnce
  BY <1>1, StartsInOrder
<1>6. Len(kind) = 0 /\ kind \in Seq(Kinds) /\ <<>> \in Seq(Entries)
  BY <1>1
<1>7. CallerInv
  <2>1. InOrder(sent, Len(kind))
    BY <1>4 DEF InOrder
  <2>2. Len(kind) <= MaxMsg
    BY <1>6, OrderIs
  <2> QED BY <1>1, <1>3, <1>4, <1>6, <2>1, <2>2 DEF CallerInv
<1>8. w \in Writers
  <2>1. Header \in Nat
    BY DEF Header
  <2> QED BY <1>1, <1>6, <2>1 DEF Writers
<1>9. WriterInv
  <2>1. Shaped(w) /\ w.pc = "none" /\ w.msg = Header /\ w.ret = 0
    BY <1>1 DEF Shaped
  <2> QED BY <1>3, <1>8, <2>1 DEF WriterInv, Holding, Leaving
<1>10. LosslessInv
  <2>1. /\ w.drop_until_keyframe = FALSE /\ w.recovery_nr = 0 /\ w.pc = "none"
        /\ DOMAIN w.log = {}
    BY <1>1
  <2> QED BY <2>1 DEF LosslessInv
<1>11. PacketsAccounted
  <2>1. Taken = {}
    BY <1>1 DEF Taken
  <2>2. Hand(w, Pend[Writer] = "none", ret[Writer], Taken) = {}
    BY <1>1 DEF Hand, Holding
  <2>3. DOMAIN w.log = {}
    BY <1>1
  <2>4. AccountedFor(w.log, {}, {})
    BY <2>3 DEF AccountedFor
  <2> QED BY <2>1, <2>2, <2>4, AccountsAre
<1> QED BY <1>2, <1>5, <1>7, <1>9, <1>10, <1>11 DEF FifoInv

(* The invariant of the fifo muxer is inductive. *)
LEMMA MuxerInductive ==
  ASSUME FifoInv, FifoNext
  PROVE  FifoInv'
<1>1. ASSUME Spurious PROVE FifoInv'
  <2>1. PICK t \in Threads : SpuriousWake(t)
    BY <1>1 DEF Spurious
  <2>2. TypeOK
    BY DEF FifoInv
  <2>3. QueueStays
    BY <2>1, <2>2, OthersDo, TypeKept DEF QueueStays
  <2> QED BY <1>1, <2>3, NothingMoves DEF Spurious, app
<1>2. ASSUME Stopped \/ TimePasses PROVE FifoInv'
  <2>1. UNCHANGED vars /\ UNCHANGED <<mpc, opt, kind, overflow_flag, w>>
    BY <1>2 DEF Stopped, TimePasses, allVars, queue, app
  <2>2. QueueStays
    BY <2>1, NoCallMade DEF FifoInv
  <2> QED BY <2>1, <2>2, NothingMoves
<1>3. CASE Call
  BY <1>3, WriteCallKeeps, TrailerCallKeeps DEF Call
<1>4. CASE MainStep
  BY <1>4, StartWriterKeeps, WriteEndsKeeps, JoinsKeeps, DeinitKeeps, CallerResumesKeeps
     DEF MainStep
<1>5. CASE WriterStep
  BY <1>5, RoundsKeep, CheckOverflowKeeps, ReceiveKeeps, ReceivedKeeps, SetErrorKeeps,
     FinalTrailerKeeps, WriterResumesKeeps DEF WriterStep
<1> QED BY <1>1, <1>2, <1>3, <1>4, <1>5 DEF FifoNext
-----------------------------------------------------------------------------
(* Both pairs of threads.  The pair that never starts has nothing done.    *)
UsersInv ==
  \/ user = "fifo" /\ FifoInv
  \/ user = "input" /\ InputInv /\ w.pc = "none" /\ w.output = "closed"

LEMMA UsersStart == UsersInit => UsersInv
<1> SUFFICES ASSUME UsersInit PROVE UsersInv
  OBVIOUS
<1>1. user \in {"fifo", "input"} /\ FifoInit /\ I!InputInit
  BY DEF UsersInit
<1>2. FifoInv /\ InputInv
  BY <1>1, FifoStarts, InputStarts
<1>3. w.pc = "none" /\ w.output = "closed"
  BY <1>1 DEF FifoInit
<1> QED BY <1>1, <1>2, <1>3 DEF UsersInv

LEMMA UsersInductive == UsersInv /\ [UsersNext]_all => UsersInv'
<1> SUFFICES ASSUME UsersInv, [UsersNext]_all PROVE UsersInv'
  OBVIOUS
<1>1. ASSUME Fifo(FifoNext) PROVE UsersInv'
  <2>1. user = "fifo" /\ FifoNext /\ user' = user
    BY <1>1 DEF Fifo
  <2>2. FifoInv
    BY <2>1 DEF UsersInv
  <2> QED BY <2>1, <2>2, MuxerInductive DEF UsersInv
<1>2. ASSUME Input(I!InputNext) PROVE UsersInv'
  <2>1. user = "input" /\ I!InputNext /\ user' = user /\ w' = w
    BY <1>2 DEF Input, app
  <2>2. InputInv /\ w.pc = "none" /\ w.output = "closed"
    BY <2>1 DEF UsersInv
  <2> QED BY <2>1, <2>2, InputInductive DEF UsersInv
<1>3. ASSUME UNCHANGED all PROVE UsersInv'
  <2>1. /\ user' = user /\ UNCHANGED vars /\ UNCHANGED <<mpc, opt, kind, overflow_flag, w>>
        /\ UNCHANGED <<ipc, main, pkt, flags, ending, read, got, drained, non_blocking>>
    BY <1>3 DEF all, allVars, queue, app, input
  <2>2. CASE user = "fifo" /\ FifoInv
    <3>1. QueueStays
      BY <2>1, <2>2, NoCallMade DEF FifoInv
    <3> QED BY <2>1, <2>2, <3>1, NothingMoves DEF UsersInv
  <2>3. CASE user = "input" /\ InputInv /\ w.pc = "none" /\ w.output = "closed"
    <3>1. QueueStays
      BY <2>1, <2>3, NoCallMade DEF InputInv
    <3> QED BY <2>1, <2>3, <3>1, NothingMovesKeeps DEF UsersInv
  <2> QED BY <2>2, <2>3 DEF UsersInv
<1> QED BY <1>1, <1>2, <1>3 DEF UsersNext

LEMMA UsersAlways == UsersSpec => []UsersInv
BY UsersStart, UsersInductive, PTL DEF UsersSpec

(* Whatever fails in fifo.c and however it is recovered from, each packet  *)
(* taken from the queue is written, dropped or leaked once and in order,   *)
(* and none is dropped when the caller blocks instead of dropping; in      *)
(* ffmpeg.c each packet of an input thread is processed, thrown away, in   *)
(* the queue or still with the thread: for every capacity, every number of *)
(* packets and every set of options that fifo_init accepts.                *)
THEOREM EveryPacketKept == UsersSpec => []EveryPacket
<1>1. ASSUME FifoInv PROVE NoneLostWhenBlocking
  BY <1>1 DEF FifoInv, WriterInv, LosslessInv, NoneLostWhenBlocking, Leaving
<1>2. UsersInv => EveryPacket
  <2>1. CASE user = "fifo" /\ FifoInv
    BY <1>1, <2>1 DEF EveryPacket, FifoInv
  <2>2. CASE user = "input" /\ InputInv
    BY <2>2 DEF EveryPacket, InputInv
  <2> QED BY <2>1, <2>2 DEF UsersInv
<1> QED BY <1>2, UsersAlways, PTL

(* Whichever call failed, an output of the fifo muxer that has a header    *)
(* gets its trailer before fifo_thread_attempt_recovery opens it again and *)
(* before fifo_consumer_thread ends, and no packet, flush or trailer goes  *)
(* into one that has none.                                                 *)
THEOREM OutputsWellFormed == UsersSpec => []OutputWellFormed
<1>1. ASSUME FifoInv PROVE OutputWellFormed
  <2>1. Shaped(w)
    BY <1>1 DEF FifoInv, WriterInv
  <2>2. /\ w.output \in {"started", "closed", "open"}
        /\ w.pc = "done" => w.output \in {"closed", "open"}
    BY <2>1 DEF Shaped
  <2> QED BY <2>2 DEF OutputWellFormed
<1>2. UsersInv => OutputWellFormed
  BY <1>1 DEF UsersInv, OutputWellFormed
<1> QED BY <1>2, UsersAlways, PTL

(* What makes the main thread of ffmpeg take an input for ended, or begin  *)
(* its next loop, is the error that the demuxer returned in input_thread,  *)
(* and it has processed all the packets read before that.                  *)
THEOREM EndsCorrect == UsersSpec => EndAfterPackets
<1>1. ASSUME UsersInv, Input(I!InputNext) PROVE I!EndAfterPackets
  <2>1. user = "input" /\ I!InputNext
    BY <1>1 DEF Input
  <2>2. InputInv
    BY <1>1, <2>1 DEF UsersInv
  <2>3. ASSUME main = "getting", main' \in {"loop", "ended"} PROVE I!GotError
    <3>1. I!InputStep => main' = main
      BY DEF I!InputStep, I!ReadFrame, I!ReadFails, I!SendPacket, I!Sent, I!SendFull,
             I!SendFails, I!Exit, I!InQueue, I!app
    <3>2. I!Spurious \/ I!Stopped => main' = main
      BY DEF I!Spurious, I!Stopped, I!allVars, I!app
    <3>3. ~I!FreeBegin /\ ~I!StopEarly
      BY <2>3 DEF I!FreeBegin, I!StopEarly
    <3>4. /\ ~I!GetPacket /\ ~I!GotPacket /\ ~I!GotNothing /\ ~I!Drain /\ ~I!Drained
          /\ ~I!Join /\ ~I!Restart /\ ~I!RestartFails /\ ~I!InQueue(Main)
      BY <2>3 DEF I!GetPacket, I!GotPacket, I!GotNothing, I!Drain, I!Draining, I!Drained,
                  I!Join, I!Restart, I!RestartFails, I!InQueue, I!app
    <3> QED BY <2>1, <2>3, <3>1, <3>2, <3>3, <3>4 DEF I!InputNext, I!MainStep
  <2>4. CASE main = "getting" /\ main' \in {"loop", "ended"}
    BY <2>2, <2>3, <2>4, EndsAfterPackets DEF I!EndAfterPackets
  <2> QED BY <2>4 DEF I!EndAfterPackets
<1>2. ASSUME Fifo(FifoNext) \/ UNCHANGED all PROVE I!EndAfterPackets
  <2>1. main' = main
    BY <1>2 DEF Fifo, all, input
  <2> QED BY <2>1 DEF I!EndAfterPackets
<1>3. UsersInv /\ [UsersNext]_all => I!EndAfterPackets
  BY <1>1, <1>2 DEF UsersNext
<1>4. UsersInv /\ [UsersNext]_all => [I!EndAfterPackets]_all
  BY <1>3
<1> QED BY <1>4, UsersAlways, PTL DEF UsersSpec, EndAfterPackets
=============================================================================
