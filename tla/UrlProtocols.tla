---------------------------- MODULE UrlProtocols ----------------------------
(***************************************************************************)
(* The retry loop of avio.c over three protocols that wait for somebody    *)
(* else: async, whose thread reads ahead; udp, whose thread receives; and  *)
(* smb, which waits for replies.  Each run of the system opens one URL.    *)
(* The user's interrupt callback is asked by the loop and by the threads.  *)
(***************************************************************************)
EXTENDS AsyncProtocol, UdpProtocol, SmbProtocol

all == <<h, vars, udp, smb>>

AllInit == /\ \E o \in UrlOptions : UrlInit(o)
           /\ Init /\ (h.o.prot # "async" => ~sized)
           /\ UdpInit /\ SmbInit

Using(prot) == h.o.prot = prot

(* async under the loop: the call of async_read and its return. *)
AsyncCalled ==
  /\ UrlTransfers("async") /\ m.pc = "user" /\ ReadCall(UrlRoom)
  /\ h' = [h EXCEPT !.call.pc = "transferring"]

AsyncReturned ==
  /\ h.call.pc = "transferring" /\ m.pc = "user"
  /\ UrlTransferred(Ret(m.result.kind, m.result.count)) /\ UNCHANGED vars

AsyncUser == UrlOther /\ (CloseCall \/ \E to \in 0 .. Size + 1 : SeekCall(to))
AsyncReader == AsyncCalled \/ AsyncReturned \/ (MainStep /\ UNCHANGED h)
AsyncThread == BackStep /\ UNCHANGED h

Ready == CASE Using("async") -> m.pc = "user"
           [] Using("smb") -> s.op = "ready" /\ requests.sent < MaxRequests
           [] OTHER -> TRUE

(* The user of the URL, and the clock of the loop. *)
User == /\ Ready /\ \E size \in 1 .. MaxSize : UrlRead(size, 1) \/ UrlRead(size, size)
        /\ UNCHANGED <<vars, udp, smb>>
Loop == UrlLoop(interrupted) /\ UNCHANGED <<vars, udp, smb>>
Clock == TimeoutPasses /\ UNCHANGED <<vars, udp, smb>>

Async(A) == Using("async") /\ A /\ UNCHANGED <<udp, smb>>
Udp(A) == Using("udp") /\ A /\ UNCHANGED <<vars, smb>>
Smb(A) == Using("smb") /\ A /\ UNCHANGED <<vars, udp>>

Ended == (m.pc = "closed" \/ s.op = "closed") /\ UNCHANGED all

(* What the user's thread and the background threads do by themselves. *)
Reader == \/ Loop \/ Async(AsyncReader) \/ Udp(UdpReader) \/ Smb(SmbStep)
Thread == Async(AsyncThread) \/ Udp(UdpTask(interrupted))

AllNext ==
  \/ User \/ Clock \/ Reader \/ Thread
  \/ Async(AsyncUser) \/ Async(SpuriousWake /\ UNCHANGED h)
  \/ Udp(UdpSelect(interrupted)) \/ Udp(UdpSpurious)
  \/ Smb(SmbService) \/ Smb(SmbBreaks) \/ Smb(SmbClose)
  \/ Interrupt /\ UNCHANGED <<h, udp, smb>>
  \/ Ended

(* Both threads run and time passes.  Nothing says that a datagram or the  *)
(* reply of a server ever comes.                                           *)
AllSpec == AllInit /\ [][AllNext]_all /\ WF_all(Reader) /\ WF_all(Thread) /\ WF_all(Clock)
-----------------------------------------------------------------------------
(* Every call returns that can: from async always; from udp when it is     *)
(* interrupted, which the reader learns from the thread, through an error  *)
(* that the retry loop takes for a signal, or, without a circular buffer,  *)
(* when rw_timeout is set; from smb, where opening and closing are calls   *)
(* as well, when a timeout is set.                                         *)
InCall == ~UrlIdle \/ m.pc \notin {"user", "closed"}
                   \/ (Using("smb") /\ s.op \notin {"ready", "closed"})
MustReturn ==
  CASE Using("async") -> TRUE
    [] Using("udp") -> interrupted \/ (h.o.rw_timeout /\ ~h.o.fifo)
    [] Using("smb") -> h.o.timeout
UrlReturns == InCall /\ MustReturn ~> ~InCall

(* Data and errors of the datagram protocol: WholeDatagrams and more. *)
Receives == WholeDatagrams /\ DataBeforeErrors /\ GrowKeepsContent
=============================================================================
