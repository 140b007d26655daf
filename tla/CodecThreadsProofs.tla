------------------------- MODULE CodecThreadsProofs -------------------------
(***************************************************************************)
(* Theorems about CodecThreads.  What the proofs about slices and rows say *)
(* of a codec with threads, whatever pool it has, and whether its jobs are *)
(* rows or anything else; and of FrameThreadEncoder, as CodecThreads       *)
(* instantiates it: for any even size of the ring of results and any       *)
(* number of threads up to half of it, the results leave in the order of   *)
(* the frames and nothing is leaked or freed twice.                        *)
(*                                                                         *)
(* Frames are numbered as they are submitted, and the two indices of an    *)
(* encoder are those numbers modulo the size of the ring.  The frames      *)
(* under way fit into the ring, so that an entry stands for one frame of   *)
(* them only.                                                              *)
(***************************************************************************)
EXTENDS CodecThreads, Sequences, WavefrontProofs

(* A codec with slice threads takes the steps of the pool and its rows,    *)
(* and one with the threads of an encoder takes none of them.              *)
LEMMA CodecSlices ==
  /\ CodecInit => WaveInit
  /\ [CodecNext]_all => [WaveNext]_allVars
  BY DEF CodecInit, CodecNext, Slices, Encoder, all

LEMMA SlicesCorrect == CodecSpec => []WaveAll
  BY CodecSlices, WaveStarts, WaveStep, PTL DEF CodecSpec

(* Every job of a batch is run once, the thread numbers in use at a time   *)
(* differ, and execute returns when all jobs have been run and nobody is   *)
(* inside run_jobs.                                                        *)
THEOREM CodecBatches == CodecSpec => []BatchesExact
  BY SlicesCorrect, InvariantImpliesExact, PTL DEF WaveAll

(* The slice threads of a codec implement the parallel loop, also where a  *)
(* job takes the many steps of a row.                                      *)
THEOREM CodecImplementsLoop == CodecSpec => ImplementsLoop
<1>1. CodecInit => Batch!Init
  BY CodecSlices, RunnersAre DEF WaveInit, Init, Batch!Init, InBatch
<1>2. WaveAll /\ [CodecNext]_all => [Batch!Next]_(Batch!vars)
  BY CodecSlices, RowsAreJobs, LoopStep DEF WaveAll
<1> QED BY <1>1, <1>2, SlicesCorrect, PTL DEF CodecSpec, ImplementsLoop, Batch!Spec

(* No row is decoded ahead of what it refers to, whatever fails.           *)
THEOREM CodecNeverAhead == CodecSpec => []NeverAhead
  BY SlicesCorrect, InvariantImpliesNeverAhead, PTL DEF WaveAll

(* A slice that was decoded without an error has been decoded to its end.  *)
THEOREM CodecRowsComplete == CodecSpec => []RowsComplete
  BY SlicesCorrect, InvariantImpliesComplete, PTL DEF WaveAll

(* Whatever the number of threads, a report never wakes the wrong row      *)
(* before a row has failed, nor, with at most three threads, afterwards.   *)
THEOREM CodecOneWaiter == CodecSpec => []OneWaiter
  BY SlicesCorrect, InvariantImpliesOneWaiter, PTL DEF WaveAll
-----------------------------------------------------------------------------
Slot(k) == k % BUFFER_SIZE
Ring == 0 .. BUFFER_SIZE - 1
Task == [index : Nat, frame : Nat]

(* The frames that have been delivered, and those that workers have taken. *)
Out == Len(delivered)
Begun == submitted - Len(task_fifo)

Encoding(w) == wpc[w] \in {"encode", "store"}

EncTypeOK ==
  /\ call \in {"create", "idle", "take", "free", "join", "freed"}
  /\ threads \in 0 .. E!MAX_THREADS
  /\ wpc \in [E!Workers -> {"none", "top", "fifo", "encode", "store", "gone"}]
  /\ task \in [E!Workers -> Task]
  /\ task_fifo \in Seq(Task)
  /\ finished_tasks \in [Ring -> [frame : Nat, outcome : E!Outcomes \cup {"nothing"}]]
  /\ submitted \in Nat /\ delivered \in Seq(Nat)
  /\ freed \subseteq {"encoded", "discarded", "packet"} \X Nat

(* The workers are created in order, and all of those that are counted     *)
(* exist once init is over.                                                *)
StartedInv ==
  /\ call \in {"create", "idle", "take"} => threads >= 2
  /\ \E n \in 0 .. threads : E!Started = 0 .. n - 1 /\ (call # "create" => n = threads)
  /\ call = "create" => submitted = 0

(* No more frames than threads are under way, and one more in a call that  *)
(* has brought it.                                                         *)
FlowInv ==
  /\ Out <= Begun
  /\ submitted - Out <= IF call = "take" THEN threads + 1 ELSE threads
  /\ call = "take" => /\ api \in {"send", "receive"}
                      /\ api = "receive" => submitted - Out <= threads

IndexInv == task_index = Slot(submitted) /\ finished_task_index = Slot(Out)
OrderInv == \A k \in 1 .. Out : delivered[k] = k

(* The task FIFO holds the youngest frames, in their order.                *)
FifoInv ==
  call # "freed" => \A j \in 1 .. Len(task_fifo) :
                       /\ task_fifo[j].frame = Begun + j
                       /\ task_fifo[j].index = Slot(Begun + j - 1)

(* A worker has a frame of its own, whose entry of the ring is free.       *)
WorkInv(w) ==
  Encoding(w) =>
    /\ task[w].frame \in Out + 1 .. Begun /\ task[w].index = Slot(task[w].frame - 1)
    /\ finished_tasks[task[w].index] = E!Nothing
    /\ wpc[w] = "store" => <<"encoded", task[w].frame>> \in freed
ApartInv(v, w) == Encoding(v) /\ Encoding(w) /\ v # w => task[v].frame # task[w].frame

(* A result is in the entry of its frame. *)
ResultInv(k) ==
  call # "freed" /\ finished_tasks[k] # E!Nothing =>
    /\ finished_tasks[k].frame \in Out + 1 .. Begun /\ k = Slot(finished_tasks[k].frame - 1)
    /\ <<"encoded", finished_tasks[k].frame>> \in freed
    /\ finished_tasks[k].outcome # "nothing"

(* Every frame that a worker has taken is still with it, or has a result.  *)
PlaceInv(f) ==
  call # "freed" => \/ finished_tasks[Slot(f - 1)].frame = f
                    \/ \E w \in E!Workers : Encoding(w) /\ task[w].frame = f

FreedInv ==
  /\ call # "freed" => freed \subseteq {"encoded"} \X (1 .. Begun)
  /\ \A k \in 1 .. Out : <<"encoded", k>> \in freed

EncInv ==
  /\ EncTypeOK /\ StartedInv /\ FlowInv /\ IndexInv /\ OrderInv /\ FifoInv /\ FreedInv
  /\ \A w \in E!Workers : WorkInv(w) /\ \A v \in E!Workers : ApartInv(v, w)
  /\ \A k \in Ring : ResultInv(k)
  /\ \A f \in Out + 1 .. Begun : PlaceInv(f)
  /\ E!NothingLeaked

-----------------------------------------------------------------------------
(* Division with remainder, for a divisor that is not a number.            *)
LEMMA Division ==
  ASSUME NEW n \in Nat \ {0}, NEW a \in Int
  PROVE  a \div n \in Int /\ a % n \in 0 .. n - 1 /\ a = n * (a \div n) + (a % n)
<1>1. a \div n \in Int
  BY Z3
<1>2. a % n \in 0 .. n - 1
  BY Z3
<1>3. a = n * (a \div n) + (a % n)
  BY Z3
<1> QED BY <1>1, <1>2, <1>3

LEMMA SmallMultiple ==
  ASSUME NEW n \in Nat \ {0}, NEW q \in Int, n * q < n, n * q > -n
  PROVE  q = 0
<1>1. q >= 1 => n * q >= n
  BY Z3
<1>2. q <= -1 => n * q <= -n
  BY Z3
<1> QED BY <1>1, <1>2

LEMMA RemainderIs ==
  ASSUME NEW n \in Nat \ {0}, NEW a \in Int, NEW q \in Int, NEW m \in 0 .. n - 1, a = n * q + m
  PROVE  a % n = m
<1> DEFINE p == a \div n
           k == a % n
<1>1. a = n * p + k /\ k \in 0 .. n - 1 /\ p \in Int
  BY Division
<1> HIDE DEF p, k
<1>2. n * (p - q) = m - k
  BY <1>1, Z3
<1>3. p - q \in Int /\ m - k < n /\ m - k > -n
  BY <1>1
<1>4. p - q = 0
  BY <1>2, <1>3, SmallMultiple
<1>5. m = k
  BY <1>1, <1>4
<1> QED BY <1>5 DEF k

(* The ring has room for at least two frames of each of two threads.       *)
LEMMA RingSize ==
  /\ BUFFER_SIZE \in Nat \ {0} /\ BUFFER_SIZE > 3
  /\ E!MAX_THREADS \in Nat /\ 2 * E!MAX_THREADS = BUFFER_SIZE
  /\ ThreadCounts \subseteq 2 .. E!MAX_THREADS
<1>1. BUFFER_SIZE \in Nat /\ BUFFER_SIZE % 2 = 0
      /\ ThreadCounts \subseteq 2 .. BUFFER_SIZE \div 2 /\ ThreadCounts # {}
  BY EncoderAssumption DEF EncoderAssumption
<1>2. BUFFER_SIZE \div 2 \in Nat /\ 2 * (BUFFER_SIZE \div 2) = BUFFER_SIZE
  BY <1>1
<1>3. BUFFER_SIZE \div 2 >= 2
  <2>1. PICK n \in ThreadCounts : n \in 2 .. BUFFER_SIZE \div 2
    BY <1>1
  <2> QED BY <1>2, <2>1
<1> QED BY <1>1, <1>2, <1>3 DEF E!MAX_THREADS

(* Every number has its entry of the ring, the next number the next one,   *)
(* and numbers that are near have different ones.                          *)
LEMMA SlotInRing == ASSUME NEW k \in Nat PROVE Slot(k) \in Ring
  BY Division, RingSize DEF Slot, Ring

LEMMA SlotNext == ASSUME NEW k \in Nat PROVE (Slot(k) + 1) % BUFFER_SIZE = Slot(k + 1)
<1> DEFINE n == BUFFER_SIZE
           q == k \div n
           m == k % n
<1>1. n \in Nat \ {0} /\ n > 1
  BY RingSize
<1>2. k = n * q + m /\ m \in 0 .. n - 1 /\ q \in Int
  BY <1>1, Division
<1> HIDE DEF n, q, m
<1>3. CASE m < n - 1
  <2>1. k + 1 = n * q + (m + 1) /\ m + 1 \in 0 .. n - 1 /\ m + 1 = n * 0 + (m + 1)
    BY <1>1, <1>2, <1>3
  <2>2. (k + 1) % n = m + 1 /\ (m + 1) % n = m + 1
    BY <1>1, <1>2, <2>1, RemainderIs
  <2> QED BY <2>2 DEF Slot, n, m
<1>4. CASE m = n - 1
  <2>1. k + 1 = n * (q + 1) + 0 /\ 0 \in 0 .. n - 1 /\ m + 1 = n * 1 + 0 /\ q + 1 \in Int
    BY <1>1, <1>2, <1>4
  <2>2. (k + 1) % n = 0
    BY <1>1, <2>1, RemainderIs
  <2>3. (m + 1) % n = 0
    BY <1>1, <1>2, <2>1, RemainderIs
  <2> QED BY <2>2, <2>3 DEF Slot, n, m
<1> QED BY <1>1, <1>2, <1>3, <1>4

LEMMA SlotDistance ==
  ASSUME NEW a \in Nat, NEW b \in Nat, a <= b, b < a + BUFFER_SIZE
  PROVE  (Slot(b) - Slot(a)) % BUFFER_SIZE = b - a
<1> DEFINE n == BUFFER_SIZE
           p == a \div n
           k == a % n
           q == b \div n
           m == b % n
<1>1. n \in Nat \ {0}
  BY RingSize
<1>2. a = n * p + k /\ k \in 0 .. n - 1 /\ p \in Int
  BY <1>1, Division
<1>3. b = n * q + m /\ m \in 0 .. n - 1 /\ q \in Int
  BY <1>1, Division
<1>4. b - a \in 0 .. n - 1
  BY <1>1
<1>5. m - k = n * (p - q) + (b - a)
  <2> HIDE DEF n, p, k, q, m
  <2> QED BY <1>1, <1>2, <1>3, Z3
<1>6. p - q \in Int /\ m - k \in Int
  BY <1>2, <1>3
<1> HIDE DEF n, p, k, q, m
<1>7. (m - k) % n = b - a
  BY <1>1, <1>4, <1>5, <1>6, RemainderIs
<1> QED BY <1>7 DEF Slot, n, k, m

LEMMA SlotUnique ==
  ASSUME NEW a \in Nat, NEW b \in Nat, a <= b, b < a + BUFFER_SIZE, Slot(a) = Slot(b)
  PROVE  a = b
<1>1. (Slot(b) - Slot(a)) % BUFFER_SIZE = b - a
  BY SlotDistance
<1>2. Slot(a) \in Int
  BY SlotInRing, RingSize DEF Ring
<1>3. 0 % BUFFER_SIZE = 0
  <2>1. 0 = BUFFER_SIZE * 0 + 0 /\ 0 \in 0 .. BUFFER_SIZE - 1
    BY RingSize
  <2> QED BY <2>1, RingSize, RemainderIs
<1>4. Slot(b) - Slot(a) = 0
  BY <1>2
<1> QED BY <1>1, <1>3, <1>4

-----------------------------------------------------------------------------
(* What the invariant says of the sizes in every state. *)
LEMMA EncSizes ==
  ASSUME EncTypeOK, FlowInv
  PROVE  /\ Out \in Nat /\ Begun \in Nat /\ Len(task_fifo) \in Nat /\ submitted \in Nat
         /\ threads \in Nat /\ threads <= E!MAX_THREADS
         /\ Out <= Begun /\ Begun <= submitted /\ Begun + Len(task_fifo) = submitted
         /\ submitted < Out + BUFFER_SIZE
<1>1. /\ Out \in Nat /\ Len(task_fifo) \in Nat /\ submitted \in Nat /\ threads \in 0 .. E!MAX_THREADS
  BY DEF EncTypeOK, Out
<1>2. submitted - Out <= threads + 1 /\ Out <= Begun
  BY <1>1 DEF FlowInv
<1> QED BY <1>1, <1>2, RingSize DEF Begun

(* Two frames that are under way have different entries.                   *)
LEMMA EntriesApart ==
  ASSUME EncTypeOK, FlowInv, NEW f \in Out + 1 .. submitted, NEW g \in Out + 1 .. submitted,
         Slot(f - 1) = Slot(g - 1)
  PROVE  f = g
<1>1. /\ f - 1 \in Nat /\ g - 1 \in Nat /\ f - 1 < (g - 1) + BUFFER_SIZE
      /\ g - 1 < (f - 1) + BUFFER_SIZE /\ f \in Nat /\ g \in Nat
  BY EncSizes, RingSize
<1>2. f - 1 = g - 1
  <2>1. CASE f <= g
    BY <1>1, <2>1, SlotUnique
  <2>2. CASE g <= f
    BY <1>1, <2>2, SlotUnique
  <2> QED BY <1>1, <2>1, <2>2
<1> QED BY <1>1, <1>2

(* A step that only the caller sees. *)
LEMMA CallerMoves ==
  ASSUME EncInv, UNCHANGED <<wpc, task, task_fifo, finished_tasks, task_index, finished_task_index,
                             submitted, delivered, freed, threads>>,
         call # "freed", call' \in {"idle", "take", "join"},
         call # "create", call' \in {"idle", "take"} => call \in {"idle", "take"},
         submitted - Out <= IF call' = "take" THEN threads + 1 ELSE threads,
         call' = "take" => /\ api' \in {"send", "receive"}
                           /\ api' = "receive" => submitted - Out <= threads
  PROVE  EncInv'
<1>1. EncTypeOK' /\ OrderInv' /\ IndexInv'
  BY DEF EncInv, EncTypeOK, OrderInv, IndexInv, Out
<1>2. StartedInv'
  BY DEF EncInv, StartedInv, E!Started
<1>3. FlowInv'
  BY DEF EncInv, FlowInv, Out, Begun
<1>4. FifoInv' /\ FreedInv'
  BY DEF EncInv, FifoInv, FreedInv, Begun, Out
<1>5. \A w \in E!Workers : WorkInv(w)' /\ \A v \in E!Workers : ApartInv(v, w)'
  BY DEF EncInv, WorkInv, ApartInv, Encoding, Out, Begun
<1>6. \A k \in Ring : ResultInv(k)'
  BY DEF EncInv, ResultInv, Out, Begun
<1>7. Out' = Out /\ Begun' = Begun /\ \A f \in Out + 1 .. Begun : PlaceInv(f)'
  BY DEF EncInv, PlaceInv, Out, Begun, Encoding
<1>8. E!NothingLeaked'
  BY DEF E!NothingLeaked
<1> QED BY <1>1, <1>2, <1>3, <1>4, <1>5, <1>6, <1>7, <1>8 DEF EncInv

(* A step that only wakes threads or makes them wait. *)
LEMMA NobodyMoves ==
  ASSUME EncInv, UNCHANGED <<call, api, wpc, task, task_fifo, finished_tasks, task_index,
                             finished_task_index, submitted, delivered, freed, threads>>
  PROVE  EncInv'
<1>1. EncTypeOK' /\ OrderInv' /\ IndexInv'
  BY DEF EncInv, EncTypeOK, OrderInv, IndexInv, Out
<1>2. StartedInv' /\ FlowInv'
  BY DEF EncInv, StartedInv, E!Started, FlowInv, Out, Begun
<1>3. FifoInv' /\ FreedInv'
  BY DEF EncInv, FifoInv, FreedInv, Begun, Out
<1>4. \A w \in E!Workers : WorkInv(w)' /\ \A v \in E!Workers : ApartInv(v, w)'
  BY DEF EncInv, WorkInv, ApartInv, Encoding, Out, Begun
<1>5. \A k \in Ring : ResultInv(k)'
  BY DEF EncInv, ResultInv, Out, Begun
<1>6. Out' = Out /\ Begun' = Begun /\ \A f \in Out + 1 .. Begun : PlaceInv(f)'
  BY DEF EncInv, PlaceInv, Out, Begun, Encoding
<1>7. E!NothingLeaked'
  BY DEF EncInv, E!NothingLeaked
<1> QED BY <1>1, <1>2, <1>3, <1>4, <1>5, <1>6, <1>7 DEF EncInv

(* The cardinality of the instance is the cardinality.                     *)
LEMMA SameCardinality == ASSUME NEW S PROVE E!Cardinality(S) = Cardinality(S)
  BY DEF E!Cardinality, Cardinality

(* The workers are created before any frame comes. *)
LEMMA CreateKeeps == ASSUME EncInv, E!Create PROVE EncInv'
<1>1. /\ EncTypeOK /\ StartedInv /\ FlowInv /\ call = "create" /\ submitted = 0
      /\ call' \in {"create", "idle", "free"}
      /\ UNCHANGED <<task, task_fifo, finished_tasks, task_index, finished_task_index,
                     submitted, delivered, freed>>
  BY DEF EncInv, StartedInv, E!Create, E!fifoVars, E!ringVars, E!indices
<1>2. PICK n \in 0 .. threads : E!Started = 0 .. n - 1
  BY <1>1 DEF StartedInv
<1>3. threads \in Nat /\ threads <= E!MAX_THREADS /\ n \in Nat
      /\ Out = 0 /\ Begun = 0 /\ Len(task_fifo) = 0
  BY <1>1, EncSizes
<1>4. Cardinality(E!Started) = n
  BY <1>2, <1>3, FS_Interval
<1>5. E!Workers = 0 .. E!MAX_THREADS - 1 /\ E!MAX_THREADS \in Nat
  BY RingSize DEF E!Workers
<1>6. \A w \in E!Workers : ~Encoding(w)' /\ (Encoding(w)' <=> Encoding(w))
  <2>1. \A w \in E!Workers : ~Encoding(w)
    BY <1>3 DEF EncInv, WorkInv
  <2>2. \A w \in E!Workers : wpc'[w] = wpc[w] \/ wpc'[w] = "top"
    BY <1>1 DEF E!Create, EncTypeOK
  <2> QED BY <2>1, <2>2 DEF Encoding
<1>7. EncTypeOK' /\ StartedInv'
  <2>1. CASE n < threads /\ wpc' = [wpc EXCEPT ![n] = "top"] /\ call' = call /\ threads' = threads
    <3>1. n \in E!Workers
      BY <1>3, <1>5, <2>1
    <3>2. EncTypeOK'
      BY <1>1, <2>1, <3>1 DEF EncTypeOK
    <3>3. E!Started' = E!Started \cup {n}
      BY <1>1, <2>1, <3>1 DEF E!Started, EncTypeOK
    <3>4. E!Started' = 0 .. (n + 1) - 1 /\ n + 1 \in 0 .. threads
      BY <1>2, <1>3, <2>1, <3>3
    <3> QED BY <1>1, <2>1, <3>2, <3>4 DEF StartedInv
  <2>2. CASE n = threads /\ call' = "idle" /\ UNCHANGED <<wpc, threads>>
    <3>1. EncTypeOK'
      BY <1>1, <2>2 DEF EncTypeOK
    <3>2. E!Started' = 0 .. threads - 1
      BY <1>2, <2>2 DEF E!Started
    <3> QED BY <1>1, <1>3, <2>2, <3>1, <3>2 DEF StartedInv
  <2>3. CASE threads' = n /\ call' = "free" /\ UNCHANGED wpc
    <3>1. threads' \in 0 .. E!MAX_THREADS
      BY <1>3, <1>5, <2>3
    <3>2. EncTypeOK'
      BY <1>1, <2>3, <3>1 DEF EncTypeOK
    <3>3. E!Started' = 0 .. n - 1 /\ n \in 0 .. n
      BY <1>2, <1>3, <2>3 DEF E!Started
    <3> QED BY <2>3, <3>2, <3>3 DEF StartedInv
  <2>4. \/ n < threads /\ wpc' = [wpc EXCEPT ![n] = "top"] /\ UNCHANGED <<call, threads>>
        \/ n = threads /\ call' = "idle" /\ UNCHANGED <<wpc, threads>>
        \/ threads' = n /\ call' = "free" /\ UNCHANGED wpc
    BY <1>4, SameCardinality DEF E!Create
  <2> QED BY <2>1, <2>2, <2>3, <2>4
<1>8. FlowInv' /\ OrderInv' /\ IndexInv' /\ FifoInv' /\ FreedInv'
  <2>1. Out' = 0 /\ Begun' = 0 /\ submitted' = 0 /\ threads' \in Nat /\ Len(task_fifo') = 0
    BY <1>1, <1>3, <1>7 DEF Out, Begun, EncTypeOK
  <2>2. FlowInv'
    <3>1. call' # "take" /\ Out' <= Begun' /\ submitted' - Out' <= threads'
      BY <1>1, <2>1
    <3> QED BY <3>1 DEF FlowInv
  <2>3. OrderInv' /\ IndexInv' /\ FifoInv' /\ FreedInv'
    BY <1>1, <2>1, <1>3 DEF EncInv, OrderInv, IndexInv, FifoInv, FreedInv
  <2> QED BY <2>2, <2>3
<1>9. Out' = Out /\ Begun' = Begun
  BY <1>1 DEF Out, Begun
<1>10. /\ \A w \in E!Workers : WorkInv(w)' /\ \A v \in E!Workers : ApartInv(v, w)'
       /\ \A k \in Ring : ResultInv(k)'
       /\ \A f \in Out + 1 .. Begun : PlaceInv(f)'
       /\ E!NothingLeaked'
  <2>1. \A w \in E!Workers : WorkInv(w)' /\ \A v \in E!Workers : ApartInv(v, w)'
    BY <1>6 DEF WorkInv, ApartInv
  <2>2. \A k \in Ring : ResultInv(k)'
    BY <1>1, <1>9 DEF EncInv, ResultInv
  <2>3. E!NothingLeaked'
    BY <1>1 DEF E!NothingLeaked
  <2> QED BY <1>3, <2>1, <2>2, <2>3
<1> QED BY <1>7, <1>8, <1>9, <1>10 DEF EncInv

(* A worker looks for a task, and finds none. *)
LEMMA WorkerLooks ==
  ASSUME EncInv, NEW w \in E!Workers, NEW l \in {"fifo", "gone", "top"}, wpc' = [wpc EXCEPT ![w] = l],
         ~Encoding(w), wpc[w] \notin {"none", "gone"},
         UNCHANGED <<call, api, task, task_fifo, finished_tasks, task_index,
                     finished_task_index, submitted, delivered, freed, threads>>
  PROVE  EncInv'
<1>1. /\ EncTypeOK /\ call # "freed"
      /\ Out' = Out /\ Begun' = Begun
      /\ \A v \in E!Workers : v # w => wpc'[v] = wpc[v]
      /\ wpc'[w] = l
  BY DEF EncInv, EncTypeOK, E!NothingLeaked, Out, Begun
<1>2. \A v \in E!Workers : (Encoding(v)' <=> Encoding(v)) /\ (wpc'[v] = "store" <=> wpc[v] = "store")
  BY <1>1 DEF Encoding
<1>3. EncTypeOK' /\ OrderInv' /\ IndexInv'
  BY <1>1 DEF EncInv, EncTypeOK, OrderInv, IndexInv, Out
<1>4. StartedInv'
  <2>1. E!Started' = E!Started
    BY <1>1 DEF E!Started
  <2> QED BY <2>1 DEF EncInv, StartedInv
<1>5. FlowInv' /\ FifoInv' /\ FreedInv'
  BY <1>1 DEF EncInv, FlowInv, FifoInv, FreedInv
<1>6. \A v \in E!Workers : WorkInv(v)' /\ \A u \in E!Workers : ApartInv(u, v)'
  BY <1>1, <1>2 DEF EncInv, WorkInv, ApartInv
<1>7. \A k \in Ring : ResultInv(k)'
  BY <1>1 DEF EncInv, ResultInv
<1>8. \A f \in Out + 1 .. Begun : PlaceInv(f)'
  BY <1>1, <1>2 DEF EncInv, PlaceInv
<1>9. E!NothingLeaked'
  BY <1>1 DEF E!NothingLeaked
<1> QED BY <1>1, <1>3, <1>4, <1>5, <1>6, <1>7, <1>8, <1>9 DEF EncInv

(* A worker takes the oldest frame of the task FIFO, the first that none   *)
(* has taken yet: the entry of the ring is free.                           *)
LEMMA GetTaskKeeps ==
  ASSUME EncInv, NEW w \in E!Workers, E!GetTask(w), task_fifo # <<>>, ~exit
  PROVE  EncInv'
<1>1. /\ EncTypeOK /\ FlowInv /\ OrderInv /\ IndexInv /\ FifoInv /\ FreedInv /\ StartedInv
      /\ wpc[w] = "fifo" /\ call # "freed"
      /\ wpc' = [wpc EXCEPT ![w] = "encode"]
      /\ task' = [task EXCEPT ![w] = Head(task_fifo)]
      /\ task_fifo' = Tail(task_fifo)
      /\ UNCHANGED <<call, api, threads, submitted, delivered, finished_tasks, task_index,
                     finished_task_index, freed>>
  BY DEF EncInv, E!NothingLeaked, E!GetTask, E!Goto, E!callerVars, E!ringVars, E!indices
<1>2. /\ Out \in Nat /\ Begun \in Nat /\ Len(task_fifo) \in Nat /\ submitted \in Nat
      /\ Out <= Begun /\ Begun <= submitted /\ Begun + Len(task_fifo) = submitted
      /\ submitted < Out + BUFFER_SIZE /\ Begun < submitted
      /\ Len(task_fifo) > 0 /\ task_fifo \in Seq(Task)
  BY <1>1, EncSizes DEF EncTypeOK
<1>3. /\ Head(task_fifo) = task_fifo[1] /\ task_fifo[1] \in Task
      /\ Tail(task_fifo) \in Seq(Task) /\ Len(Tail(task_fifo)) = Len(task_fifo) - 1
      /\ \A j \in 1 .. Len(task_fifo) - 1 : Tail(task_fifo)[j] = task_fifo[j + 1]
  BY <1>1, <1>2
<1>4. Out' = Out /\ Begun' = Begun + 1
  BY <1>1, <1>2, <1>3 DEF Out, Begun
<1>5. task_fifo[1].frame = Begun + 1 /\ task_fifo[1].index = Slot(Begun)
  <2>1. 1 \in 1 .. Len(task_fifo) /\ Begun + 1 - 1 = Begun
    BY <1>2
  <2> QED BY <1>1, <2>1 DEF FifoInv
<1>6. /\ wpc'[w] = "encode" /\ task'[w].frame = Begun + 1 /\ task'[w].index = Slot(Begun)
      /\ \A v \in E!Workers : v # w => wpc'[v] = wpc[v] /\ task'[v] = task[v]
  BY <1>1, <1>3, <1>5 DEF EncTypeOK
<1>7. Slot(Begun) \in Ring /\ finished_tasks[Slot(Begun)] = E!Nothing
  <2>1. Slot(Begun) \in Ring
    BY <1>2, SlotInRing
  <2>2. ASSUME finished_tasks[Slot(Begun)] # E!Nothing PROVE FALSE
    <3>1. ResultInv(Slot(Begun))
      BY <2>1 DEF EncInv
    <3>2. PICK f \in Out + 1 .. Begun : f = finished_tasks[Slot(Begun)].frame /\ Slot(Begun) = Slot(f - 1)
      BY <1>1, <2>2, <3>1 DEF ResultInv
    <3>3. /\ f \in Out + 1 .. submitted /\ Begun + 1 \in Out + 1 .. submitted
          /\ (Begun + 1) - 1 = Begun
      BY <1>2, <3>2
    <3>4. f = Begun + 1
      BY <1>1, <3>2, <3>3, EntriesApart
    <3> QED BY <1>2, <3>4
  <2> QED BY <2>1, <2>2
<1>8. EncTypeOK'
  BY <1>1, <1>3 DEF EncTypeOK
<1>9. StartedInv' /\ OrderInv' /\ IndexInv'
  <2>1. E!Started' = E!Started
    BY <1>1, <1>6 DEF E!Started
  <2> QED BY <1>1, <1>4, <2>1 DEF StartedInv, OrderInv, IndexInv
<1>10. FlowInv'
  BY <1>1, <1>2, <1>4 DEF FlowInv
<1>11. FifoInv'
  <2> SUFFICES ASSUME NEW j \in 1 .. Len(task_fifo) - 1
               PROVE  /\ task_fifo'[j].frame = Begun + 1 + j
                      /\ task_fifo'[j].index = Slot(Begun + 1 + j - 1)
    BY <1>1, <1>3, <1>4 DEF FifoInv
  <2>1. j + 1 \in 1 .. Len(task_fifo) /\ Begun + (j + 1) = Begun + 1 + j
        /\ Begun + (j + 1) - 1 = Begun + 1 + j - 1
    BY <1>2
  <2> QED BY <1>1, <1>3, <2>1 DEF FifoInv
<1>12. FreedInv'
  BY <1>1, <1>2, <1>4 DEF FreedInv
<1>13. ASSUME NEW v \in E!Workers PROVE WorkInv(v)'
  <2>1. WorkInv(v)
    BY DEF EncInv
  <2>2. CASE v = w
    <3>1. task'[v].frame \in Out' + 1 .. Begun' /\ task'[v].frame - 1 = Begun
      BY <1>2, <1>4, <1>6, <2>2
    <3> QED BY <1>1, <1>6, <1>7, <2>2, <3>1 DEF WorkInv
  <2>3. CASE v # w
    BY <1>1, <1>2, <1>4, <1>6, <2>1, <2>3 DEF WorkInv, Encoding
  <2> QED BY <2>2, <2>3
<1>14. ASSUME NEW u \in E!Workers, NEW v \in E!Workers PROVE ApartInv(u, v)'
  <2>1. ApartInv(u, v) /\ WorkInv(u) /\ WorkInv(v)
    BY DEF EncInv
  <2>2. \A x \in {u, v} : x # w => (Encoding(x)' <=> Encoding(x)) /\ task'[x] = task[x]
    BY <1>6 DEF Encoding
  <2>3. \A x \in {u, v} : x # w /\ Encoding(x) => task[x].frame # Begun + 1
    BY <1>2, <2>1 DEF WorkInv
  <2> QED BY <1>6, <2>1, <2>2, <2>3 DEF ApartInv
<1>15. \A k \in Ring : ResultInv(k)'
  BY <1>1, <1>2, <1>4 DEF EncInv, ResultInv
<1>16. ASSUME NEW f \in Out + 1 .. Begun + 1 PROVE PlaceInv(f)'
  <2>1. CASE f = Begun + 1
    BY <1>6, <2>1 DEF PlaceInv, Encoding
  <2>2. CASE f # Begun + 1
    <3>1. PlaceInv(f)
      BY <1>2, <2>2 DEF EncInv
    <3>2. \A v \in E!Workers : Encoding(v) => Encoding(v)' /\ task'[v] = task[v]
      BY <1>1, <1>6 DEF Encoding
    <3> QED BY <1>1, <3>1, <3>2 DEF PlaceInv
  <2> QED BY <2>1, <2>2
<1>17. E!NothingLeaked'
  BY <1>1 DEF E!NothingLeaked
<1> QED BY <1>4, <1>8, <1>9, <1>10, <1>11, <1>12, <1>13, <1>14, <1>15, <1>16, <1>17 DEF EncInv

(* The frame is encoded. *)
LEMMA EncodeKeeps == ASSUME EncInv, NEW w \in E!Workers, E!Encode(w) PROVE EncInv'
<1>1. /\ EncTypeOK /\ FlowInv /\ FreedInv /\ wpc[w] = "encode" /\ call # "freed"
      /\ wpc' = [wpc EXCEPT ![w] = "store"]
      /\ freed' = freed \cup {<<"encoded", task[w].frame>>}
      /\ UNCHANGED <<call, api, threads, submitted, delivered, finished_tasks, task_index,
                     finished_task_index, task, task_fifo>>
  BY DEF EncInv, E!NothingLeaked, E!Encode, E!Goto, E!callerVars, E!fifoVars, E!ringVars, E!indices
<1>2. /\ Out' = Out /\ Begun' = Begun
      /\ wpc'[w] = "store" /\ \A v \in E!Workers : v # w => wpc'[v] = wpc[v]
      /\ Out \in Nat /\ Begun \in Nat
  BY <1>1, EncSizes DEF Out, Begun, EncTypeOK
<1>3. task[w].frame \in Out + 1 .. Begun /\ WorkInv(w)
  BY <1>1 DEF EncInv, WorkInv, Encoding
<1>4. \A v \in E!Workers : Encoding(v)' <=> Encoding(v)
  BY <1>1, <1>2 DEF Encoding
<1>5. EncTypeOK'
  BY <1>1, <1>2, <1>3 DEF EncTypeOK
<1>6. StartedInv' /\ OrderInv' /\ IndexInv' /\ FlowInv' /\ FifoInv'
  <2>1. E!Started' = E!Started
    BY <1>1, <1>2 DEF E!Started
  <2> QED BY <1>1, <1>2, <2>1 DEF EncInv, StartedInv, OrderInv, IndexInv, FlowInv, FifoInv
<1>7. FreedInv'
  BY <1>1, <1>2, <1>3 DEF FreedInv
<1>8. ASSUME NEW v \in E!Workers PROVE WorkInv(v)' /\ \A u \in E!Workers : ApartInv(u, v)'
  <2>1. WorkInv(v)'
    BY <1>1, <1>2, <1>3, <1>4 DEF EncInv, WorkInv, Encoding
  <2>2. \A u \in E!Workers : ApartInv(u, v)'
    BY <1>1, <1>4 DEF EncInv, ApartInv
  <2> QED BY <2>1, <2>2
<1>9. \A k \in Ring : ResultInv(k)'
  BY <1>1, <1>2 DEF EncInv, ResultInv
<1>10. \A f \in Out + 1 .. Begun : PlaceInv(f)'
  BY <1>1, <1>4 DEF EncInv, PlaceInv
<1>11. E!NothingLeaked'
  BY <1>1 DEF E!NothingLeaked
<1> QED BY <1>2, <1>5, <1>6, <1>7, <1>8, <1>9, <1>10, <1>11 DEF EncInv

(* The result is stored in the entry of the frame, which is still free.    *)
LEMMA StoreKeeps == ASSUME EncInv, NEW w \in E!Workers, E!Store(w) PROVE EncInv'
<1>1. /\ EncTypeOK /\ FlowInv /\ wpc[w] = "store" /\ call # "freed"
      /\ wpc' = [wpc EXCEPT ![w] = "top"]
      /\ UNCHANGED <<call, api, threads, submitted, delivered, freed, task_index,
                     finished_task_index, task, task_fifo>>
  BY DEF EncInv, E!NothingLeaked, E!Store, E!Goto, E!callerVars, E!fifoVars, E!indices
<1>2. PICK outcome \in E!Outcomes :
        finished_tasks' = [finished_tasks EXCEPT ![task[w].index] =
                             [frame |-> task[w].frame, outcome |-> outcome]]
  BY DEF E!Store
<1>3. /\ Out' = Out /\ Begun' = Begun
      /\ wpc'[w] = "top" /\ \A v \in E!Workers : v # w => wpc'[v] = wpc[v]
      /\ Out \in Nat /\ Begun \in Nat /\ Begun <= submitted /\ submitted \in Nat
  BY <1>1, EncSizes DEF Out, Begun, EncTypeOK
<1>4. PICK f \in Out + 1 .. Begun : /\ f = task[w].frame /\ task[w].index = Slot(f - 1)
                                    /\ <<"encoded", f>> \in freed
  BY <1>1 DEF EncInv, WorkInv, Encoding
<1>5. PICK k \in Ring : k = Slot(f - 1)
  BY <1>3, <1>4, SlotInRing
<1>6. /\ finished_tasks'[k] = [frame |-> f, outcome |-> outcome]
      /\ \A c \in Ring : c # k => finished_tasks'[c] = finished_tasks[c]
      /\ finished_tasks' \in [Ring -> [frame : Nat, outcome : E!Outcomes \cup {"nothing"}]]
  BY <1>1, <1>2, <1>3, <1>4, <1>5 DEF EncTypeOK
<1>7. \A v \in E!Workers : Encoding(v)' <=> Encoding(v) /\ v # w
  BY <1>1, <1>3 DEF Encoding
<1>8. EncTypeOK'
  BY <1>1, <1>6 DEF EncTypeOK
<1>9. StartedInv' /\ OrderInv' /\ IndexInv' /\ FlowInv' /\ FifoInv' /\ FreedInv'
  <2>1. E!Started' = E!Started
    BY <1>1, <1>3 DEF E!Started
  <2> QED BY <1>1, <1>3, <2>1 DEF EncInv, StartedInv, OrderInv, IndexInv, FlowInv, FifoInv, FreedInv
<1>10. ASSUME NEW v \in E!Workers PROVE WorkInv(v)' /\ \A u \in E!Workers : ApartInv(u, v)'
  <2>1. WorkInv(v) /\ ApartInv(v, w)
    BY DEF EncInv
  <2>2. ASSUME Encoding(v), v # w PROVE task[v].index # k /\ task[v].index \in Ring
    <3>1. PICK g \in Out + 1 .. Begun : g = task[v].frame /\ task[v].index = Slot(g - 1) /\ g # f
      BY <1>1, <1>4, <2>1, <2>2 DEF WorkInv, ApartInv, Encoding
    <3>2. Slot(g - 1) \in Ring
      BY <1>3, <3>1, SlotInRing
    <3>3. g \in Out + 1 .. submitted /\ f \in Out + 1 .. submitted
      BY <1>3
    <3> QED BY <1>1, <1>5, <3>1, <3>2, <3>3, EntriesApart
  <2>3. WorkInv(v)'
    BY <1>1, <1>3, <1>6, <1>7, <2>1, <2>2 DEF WorkInv, Encoding
  <2>4. \A u \in E!Workers : ApartInv(u, v)'
    BY <1>1, <1>7 DEF EncInv, ApartInv
  <2> QED BY <2>3, <2>4
<1>11. ASSUME NEW c \in Ring PROVE ResultInv(c)'
  <2>1. CASE c = k
    BY <1>1, <1>3, <1>4, <1>5, <1>6, <2>1 DEF ResultInv, E!Outcomes
  <2>2. CASE c # k
    BY <1>1, <1>3, <1>6, <2>2 DEF EncInv, ResultInv
  <2> QED BY <2>1, <2>2
<1>12. ASSUME NEW g \in Out + 1 .. Begun PROVE PlaceInv(g)'
  <2>1. CASE g = f
    BY <1>5, <1>6, <2>1 DEF PlaceInv
  <2>2. CASE g # f
    <3>1. PlaceInv(g) /\ Slot(g - 1) \in Ring
      BY <1>3, SlotInRing DEF EncInv
    <3>2. Slot(g - 1) # k
      <4>1. g \in Out + 1 .. submitted /\ f \in Out + 1 .. submitted
        BY <1>3
      <4> QED BY <1>1, <1>5, <2>2, <4>1, EntriesApart
    <3>3. \A v \in E!Workers : Encoding(v) /\ task[v].frame = g => Encoding(v)'
      BY <1>4, <1>7, <2>2
    <3> QED BY <1>1, <1>6, <3>1, <3>2, <3>3 DEF PlaceInv
  <2> QED BY <2>1, <2>2
<1>13. E!NothingLeaked'
  BY <1>1 DEF E!NothingLeaked
<1> QED BY <1>3, <1>8, <1>9, <1>10, <1>11, <1>12, <1>13 DEF EncInv

(* The caller appends a frame to the task FIFO, with the next entry of the *)
(* ring as its index.                                                      *)
LEMMA SendFrameKeeps ==
  ASSUME EncInv, call = "idle", submitted' = submitted + 1,
         task_fifo' = Append(task_fifo, [index |-> task_index, frame |-> submitted + 1]),
         task_index' = (task_index + 1) % BUFFER_SIZE, call' = "take", api' = "send",
         UNCHANGED <<threads, delivered, wpc, task, finished_tasks, finished_task_index, freed>>
  PROVE  EncInv'
<1>1. EncTypeOK /\ FlowInv /\ IndexInv /\ FifoInv /\ StartedInv /\ task_fifo \in Seq(Task)
  BY DEF EncInv, EncTypeOK
<1>2. /\ Out \in Nat /\ Begun \in Nat /\ Len(task_fifo) \in Nat /\ submitted \in Nat
      /\ Begun + Len(task_fifo) = submitted /\ Out <= Begun /\ threads \in Nat
  BY <1>1, EncSizes
<1>3. PICK k \in Nat : k = task_index /\ k = Slot(submitted)
  BY <1>1, <1>2, SlotInRing, RingSize DEF IndexInv, Ring
<1>4. PICK t \in Task : t.index = k /\ t.frame = submitted + 1 /\ task_fifo' = Append(task_fifo, t)
  BY <1>2, <1>3 DEF Task
<1>5. /\ task_fifo' \in Seq(Task) /\ Len(task_fifo') = Len(task_fifo) + 1
      /\ task_fifo'[Len(task_fifo) + 1] = t
      /\ \A j \in 1 .. Len(task_fifo) : task_fifo'[j] = task_fifo[j]
  BY <1>1, <1>4
<1>6. Out' = Out /\ Begun' = Begun
  BY <1>2, <1>5 DEF Out, Begun
<1>7. EncTypeOK'
  BY <1>1, <1>2, <1>5 DEF EncTypeOK
<1>8. StartedInv'
  BY <1>1 DEF StartedInv, E!Started
<1>9. FlowInv'
  BY <1>1, <1>2, <1>6 DEF FlowInv
<1>10. IndexInv' /\ OrderInv'
  BY <1>1, <1>2, <1>6, SlotNext DEF EncInv, IndexInv, OrderInv
<1>11. FifoInv'
  <2> SUFFICES ASSUME NEW j \in 1 .. Len(task_fifo) + 1
               PROVE  task_fifo'[j].frame = Begun + j /\ task_fifo'[j].index = Slot(Begun + j - 1)
    BY <1>5, <1>6 DEF FifoInv
  <2>1. CASE j = Len(task_fifo) + 1
    <3>1. Begun + j = submitted + 1 /\ Begun + j - 1 = submitted
      BY <1>2, <2>1
    <3> QED BY <1>3, <1>4, <1>5, <2>1, <3>1
  <2>2. CASE j # Len(task_fifo) + 1
    <3>1. j \in 1 .. Len(task_fifo)
      BY <1>2, <2>2
    <3> QED BY <1>1, <1>5, <3>1 DEF FifoInv
  <2> QED BY <2>1, <2>2
<1>12. FreedInv'
  BY <1>6 DEF EncInv, FreedInv
<1>13. \A w \in E!Workers : WorkInv(w)' /\ \A v \in E!Workers : ApartInv(v, w)'
  BY <1>6 DEF EncInv, WorkInv, ApartInv, Encoding
<1>14. \A c \in Ring : ResultInv(c)'
  BY <1>6 DEF EncInv, ResultInv
<1>15. \A f \in Out + 1 .. Begun : PlaceInv(f)'
  BY DEF EncInv, PlaceInv, Encoding
<1>16. E!NothingLeaked'
  BY DEF E!NothingLeaked
<1> QED BY <1>6, <1>7, <1>8, <1>9, <1>10, <1>11, <1>12, <1>13, <1>14, <1>15, <1>16 DEF EncInv

(* The oldest result is that of the next frame to be delivered. *)
LEMMA OldestIsNext ==
  ASSUME EncInv, call # "freed", finished_tasks[finished_task_index] # E!Nothing
  PROVE  /\ finished_task_index \in Ring
         /\ finished_tasks[finished_task_index].frame = Out + 1
         /\ Out + 1 <= Begun
<1>1. EncTypeOK /\ FlowInv /\ IndexInv
  BY DEF EncInv
<1>2. /\ Out \in Nat /\ Begun \in Nat /\ Begun <= submitted /\ submitted \in Nat
  BY <1>1, EncSizes
<1>3. finished_task_index \in Ring /\ finished_task_index = Slot(Out)
  BY <1>1, <1>2, SlotInRing DEF IndexInv
<1>4. ResultInv(finished_task_index)
  BY <1>3 DEF EncInv
<1>5. PICK f \in Out + 1 .. Begun : /\ f = finished_tasks[finished_task_index].frame
                                    /\ Slot(Out) = Slot(f - 1)
  BY <1>3, <1>4 DEF ResultInv
<1>6. f \in Out + 1 .. submitted /\ Out + 1 \in Out + 1 .. submitted /\ (Out + 1) - 1 = Out
  BY <1>2
<1>7. f = Out + 1
  BY <1>1, <1>5, <1>6, EntriesApart
<1> QED BY <1>2, <1>3, <1>5, <1>7

(* The caller takes the oldest result and frees its entry of the ring.     *)
LEMMA TakeKeeps == ASSUME EncInv, E!Take PROVE EncInv'
<1>1. /\ EncTypeOK /\ FlowInv /\ IndexInv /\ OrderInv /\ FifoInv /\ FreedInv /\ StartedInv
      /\ call = "take" /\ call' = "idle"
      /\ finished_tasks[finished_task_index] # E!Nothing
      /\ delivered' = Append(delivered, finished_tasks[finished_task_index].frame)
      /\ finished_tasks' = [finished_tasks EXCEPT ![finished_task_index] = E!Nothing]
      /\ finished_task_index' = (finished_task_index + 1) % BUFFER_SIZE
      /\ UNCHANGED <<threads, submitted, wpc, task, task_fifo, task_index, freed>>
  BY DEF EncInv, E!Take, E!Oldest, E!workerVars, E!fifoVars
<1>2. PICK k \in Ring : /\ k = finished_task_index /\ finished_tasks[k].frame = Out + 1
                        /\ Out + 1 <= Begun /\ k = Slot(Out)
  BY <1>1, OldestIsNext DEF IndexInv
<1>3. /\ Out \in Nat /\ Begun \in Nat /\ Begun <= submitted /\ submitted \in Nat /\ threads \in Nat
      /\ delivered \in Seq(Nat)
  BY <1>1, EncSizes DEF EncTypeOK
<1>4. /\ delivered' = Append(delivered, Out + 1) /\ delivered' \in Seq(Nat)
      /\ Len(delivered') = Len(delivered) + 1
      /\ delivered'[Len(delivered) + 1] = Out + 1
      /\ \A j \in 1 .. Len(delivered) : delivered'[j] = delivered[j]
  BY <1>1, <1>2, <1>3
<1>5. Out' = Out + 1 /\ Begun' = Begun
  BY <1>1, <1>4 DEF Out, Begun
<1>6. /\ finished_tasks'[k] = E!Nothing
      /\ \A c \in Ring : c # k => finished_tasks'[c] = finished_tasks[c]
      /\ finished_tasks' \in [Ring -> [frame : Nat, outcome : E!Outcomes \cup {"nothing"}]]
  BY <1>1, <1>2 DEF EncTypeOK, E!Nothing
<1>7. EncTypeOK'
  BY <1>1, <1>4, <1>6 DEF EncTypeOK
<1>8. StartedInv'
  BY <1>1 DEF StartedInv, E!Started
<1>9. FlowInv'
  <2>1. submitted - Out <= threads + 1
    BY <1>1 DEF FlowInv
  <2>2. Out + 1 <= Begun /\ submitted - (Out + 1) <= threads
    BY <1>2, <1>3, <2>1
  <2> QED BY <1>1, <1>5, <2>2 DEF FlowInv
<1>10. IndexInv'
  BY <1>1, <1>2, <1>3, <1>5, SlotNext DEF IndexInv
<1>11. OrderInv'
  <2> SUFFICES ASSUME NEW j \in 1 .. Out + 1 PROVE delivered'[j] = j
    BY <1>5 DEF OrderInv
  <2>1. CASE j = Out + 1
    BY <1>4, <2>1 DEF Out
  <2>2. CASE j # Out + 1
    <3>1. j \in 1 .. Out
      BY <1>3, <2>2
    <3> QED BY <1>1, <1>4, <3>1 DEF OrderInv, Out
  <2> QED BY <2>1, <2>2
<1>12. FifoInv'
  BY <1>1, <1>5 DEF FifoInv
<1>13. FreedInv'
  <2>1. <<"encoded", Out + 1>> \in freed
    BY <1>1, <1>2 DEF EncInv, ResultInv
  <2>2. ASSUME NEW f \in 1 .. Out + 1 PROVE <<"encoded", f>> \in freed
    <3>1. f \in 1 .. Out \/ f = Out + 1
      BY <1>3
    <3> QED BY <1>1, <2>1, <3>1 DEF FreedInv
  <2> QED BY <1>1, <1>5, <2>2 DEF FreedInv
<1>14. ASSUME NEW w \in E!Workers PROVE WorkInv(w)' /\ \A v \in E!Workers : ApartInv(v, w)'
  <2>1. WorkInv(w) /\ (Encoding(w)' <=> Encoding(w))
    BY <1>1 DEF EncInv, Encoding
  <2>2. ASSUME Encoding(w)
        PROVE  task[w].frame \in Out + 2 .. Begun /\ task[w].index \in Ring /\ task[w].index # k
    <3>1. PICK f \in Out + 1 .. Begun : /\ f = task[w].frame /\ task[w].index = Slot(f - 1)
                                        /\ finished_tasks[Slot(f - 1)] = E!Nothing
      BY <2>1, <2>2 DEF WorkInv
    <3>2. Slot(f - 1) \in Ring /\ Slot(f - 1) # k
      BY <1>1, <1>2, <1>3, <3>1, SlotInRing
    <3>3. f # Out + 1
      <4>1. (Out + 1) - 1 = Out
        BY <1>3
      <4> QED BY <1>2, <3>2, <4>1
    <3> QED BY <1>3, <3>1, <3>2, <3>3
  <2>3. WorkInv(w)'
    <3>1. Out' + 1 = Out + 2
      BY <1>3, <1>5
    <3> QED BY <1>1, <1>5, <1>6, <2>1, <2>2, <3>1 DEF WorkInv
  <2>4. \A v \in E!Workers : ApartInv(v, w)'
    BY <1>1 DEF EncInv, ApartInv, Encoding
  <2> QED BY <2>3, <2>4
<1>15. ASSUME NEW c \in Ring PROVE ResultInv(c)'
  <2>1. CASE c = k
    BY <1>6, <2>1 DEF ResultInv
  <2>2. CASE c # k /\ finished_tasks[c] # E!Nothing
    <3>1. PICK f \in Out + 1 .. Begun : /\ f = finished_tasks[c].frame /\ c = Slot(f - 1)
                                        /\ <<"encoded", f>> \in freed
                                        /\ finished_tasks[c].outcome # "nothing"
      BY <1>1, <2>2 DEF EncInv, ResultInv
    <3>2. f # Out + 1
      <4>1. (Out + 1) - 1 = Out
        BY <1>3
      <4> QED BY <1>2, <2>2, <3>1, <4>1
    <3>3. f \in Out' + 1 .. Begun'
      BY <1>3, <1>5, <3>2
    <3> QED BY <1>1, <1>6, <2>2, <3>1, <3>3 DEF ResultInv
  <2>3. CASE c # k /\ finished_tasks[c] = E!Nothing
    BY <1>6, <2>3 DEF ResultInv
  <2> QED BY <2>1, <2>2, <2>3
<1>16. ASSUME NEW f \in Out + 2 .. Begun PROVE PlaceInv(f)'
  <2>1. f \in Out + 1 .. Begun /\ f - 1 \in Nat /\ f # Out + 1
    BY <1>3
  <2>2. f \in Out + 1 .. submitted /\ Out + 1 \in Out + 1 .. submitted
    BY <1>2, <1>3
  <2>3. (Out + 1) - 1 = Out
    BY <1>3
  <2>4. PlaceInv(f) /\ Slot(f - 1) \in Ring /\ Slot(f - 1) # k
    BY <1>1, <1>2, <2>1, <2>2, <2>3, SlotInRing, EntriesApart DEF EncInv
  <2> QED BY <1>1, <1>6, <2>4 DEF PlaceInv, Encoding
<1>17. E!NothingLeaked'
  BY <1>1 DEF E!NothingLeaked
<1>18. Out' + 1 = Out + 2
  BY <1>3, <1>5
<1> QED BY <1>5, <1>7, <1>8, <1>9, <1>10, <1>11, <1>12, <1>13, <1>14, <1>15, <1>16, <1>17, <1>18 DEF EncInv

(* When the workers are gone, every frame is in the task FIFO or has a     *)
(* result in the ring, unless it has been delivered: free finds each once. *)
LEMMA JoinKeeps == ASSUME EncInv, E!Join PROVE EncInv'
<1>1. /\ EncTypeOK /\ StartedInv /\ FlowInv /\ FifoInv /\ FreedInv
      /\ call = "join" /\ call' = "freed"
      /\ \A w \in E!Workers : w < threads => wpc[w] = "gone"
      /\ freed' = freed
           \cup {<<"discarded", task_fifo[j].frame>> : j \in DOMAIN task_fifo}
           \cup {<<"packet", finished_tasks[c].frame>> :
                   c \in {d \in DOMAIN finished_tasks : finished_tasks[d] # E!Nothing}}
      /\ task_fifo' = <<>>
      /\ finished_tasks' = [c \in DOMAIN finished_tasks |-> E!Nothing]
      /\ UNCHANGED <<api, threads, submitted, delivered, wpc, task, task_index, finished_task_index>>
  BY DEF EncInv, E!Join, E!Discard, E!workerVars, E!indices
<1>2. /\ Out \in Nat /\ Begun \in Nat /\ Begun <= submitted /\ submitted \in Nat /\ Out <= Begun
      /\ Begun + Len(task_fifo) = submitted /\ Len(task_fifo) \in Nat
      /\ DOMAIN task_fifo = 1 .. Len(task_fifo) /\ DOMAIN finished_tasks = Ring
      /\ task_fifo \in Seq(Task) /\ threads \in Nat
  BY <1>1, EncSizes DEF EncTypeOK
<1>3. \A w \in E!Workers : wpc[w] \in {"none", "gone"}
  <2>1. \A w \in E!Workers : w \in 0 .. threads - 1 \/ wpc[w] = "none"
    BY <1>1 DEF StartedInv, E!Started
  <2> QED BY <1>1, <1>2, <2>1
<1>4. Out' = Out /\ Begun' = submitted /\ Len(task_fifo') = 0
  BY <1>1, <1>2 DEF Out, Begun
<1>5. \A w \in E!Workers : ~Encoding(w) /\ ~Encoding(w)'
  BY <1>1, <1>3 DEF Encoding
<1>6. \A j \in 1 .. Len(task_fifo) : task_fifo[j].frame = Begun + j /\ task_fifo[j].frame \in Nat
  BY <1>1, <1>2 DEF FifoInv, Task
<1>7. ASSUME NEW c \in Ring, finished_tasks[c] # E!Nothing
      PROVE  /\ finished_tasks[c].frame \in Out + 1 .. Begun
             /\ <<"encoded", finished_tasks[c].frame>> \in freed
  BY <1>1, <1>7 DEF EncInv, ResultInv
<1>8. freed' \subseteq {"encoded", "discarded", "packet"} \X Nat
  BY <1>1, <1>2, <1>6, <1>7 DEF EncTypeOK
<1>9. EncTypeOK'
  <2>1. finished_tasks' \in [Ring -> [frame : Nat, outcome : E!Outcomes \cup {"nothing"}]]
    BY <1>1, <1>2 DEF E!Nothing
  <2>2. task_fifo' \in Seq(Task)
    BY <1>1
  <2> QED BY <1>1, <1>8, <2>1, <2>2 DEF EncTypeOK
<1>10. StartedInv' /\ FlowInv' /\ IndexInv' /\ OrderInv' /\ FifoInv' /\ FreedInv'
  <2>1. E!Started' = E!Started
    BY <1>1 DEF E!Started
  <2>2. StartedInv'
    BY <1>1, <2>1 DEF StartedInv
  <2>3. submitted - Out <= threads
    BY <1>1 DEF FlowInv
  <2>4. FlowInv'
    BY <1>1, <1>2, <1>4, <2>3 DEF FlowInv
  <2> QED BY <1>1, <1>4, <2>2, <2>4 DEF EncInv, IndexInv, OrderInv, FifoInv, FreedInv
<1>11. E!NothingLeaked'
  <2> SUFFICES ASSUME NEW k \in 1 .. submitted
               PROVE  /\ <<"encoded", k>> \in freed' <=> <<"discarded", k>> \notin freed'
                      /\ (k <= Out \/ <<"packet", k>> \in freed') <=> <<"encoded", k>> \in freed'
                      /\ ~(k <= Out /\ <<"packet", k>> \in freed')
    BY <1>1, <1>3 DEF E!NothingLeaked, Out
  <2>1. /\ <<"encoded", k>> \in freed' <=> <<"encoded", k>> \in freed
        /\ <<"discarded", k>> \in freed' <=> \E j \in 1 .. Len(task_fifo) : k = Begun + j
        /\ <<"packet", k>> \in freed' <=>
              \E c \in Ring : finished_tasks[c] # E!Nothing /\ finished_tasks[c].frame = k
    <3>1. \A what : <<what, k>> \in freed => what = "encoded"
      BY <1>1 DEF FreedInv
    <3> QED BY <1>1, <1>2, <1>6, <3>1
  <2>2. CASE k <= Out
    <3>1. <<"encoded", k>> \in freed
      BY <1>1, <1>2, <2>2 DEF FreedInv
    <3>2. ~\E c \in Ring : finished_tasks[c] # E!Nothing /\ finished_tasks[c].frame = k
      <4> SUFFICES ASSUME NEW c \in Ring, finished_tasks[c] # E!Nothing, finished_tasks[c].frame = k
                   PROVE  FALSE
        OBVIOUS
      <4>1. k \in Out + 1 .. Begun
        BY <1>7
      <4> QED BY <1>2, <2>2, <4>1
    <3>3. ~\E j \in 1 .. Len(task_fifo) : k = Begun + j
      BY <1>2, <2>2
    <3> QED BY <2>1, <2>2, <3>1, <3>2, <3>3
  <2>3. CASE Out < k /\ k <= Begun
    <3>1. Slot(k - 1) \in Ring /\ k \in Out + 1 .. Begun
      BY <1>2, <2>3, SlotInRing
    <3>2. finished_tasks[Slot(k - 1)].frame = k
      BY <1>1, <1>5, <3>1 DEF EncInv, PlaceInv
    <3>3. finished_tasks[Slot(k - 1)] # E!Nothing
      BY <3>2, <1>2 DEF E!Nothing
    <3>4. <<"encoded", k>> \in freed
      BY <1>7, <3>1, <3>2, <3>3
    <3>5. ~\E j \in 1 .. Len(task_fifo) : k = Begun + j
      BY <1>2, <2>3
    <3>6. ~(k <= Out)
      BY <1>2, <2>3
    <3> QED BY <2>1, <3>1, <3>2, <3>3, <3>4, <3>5, <3>6
  <2>4. CASE Begun < k
    <3>1. <<"encoded", k>> \notin freed
      BY <1>1, <1>2, <2>4 DEF FreedInv
    <3>2. k - Begun \in 1 .. Len(task_fifo) /\ k = Begun + (k - Begun)
      BY <1>2, <2>4
    <3>3. ~\E c \in Ring : finished_tasks[c] # E!Nothing /\ finished_tasks[c].frame = k
      <4> SUFFICES ASSUME NEW c \in Ring, finished_tasks[c] # E!Nothing, finished_tasks[c].frame = k
                   PROVE  FALSE
        OBVIOUS
      <4>1. k \in Out + 1 .. Begun
        BY <1>7
      <4> QED BY <1>2, <2>4, <4>1
    <3>4. ~(k <= Out)
      BY <1>2, <2>4
    <3> QED BY <2>1, <3>1, <3>2, <3>3, <3>4
  <2> QED BY <1>2, <2>2, <2>3, <2>4
<1>12. /\ \A w \in E!Workers : WorkInv(w)' /\ \A v \in E!Workers : ApartInv(v, w)'
       /\ \A c \in Ring : ResultInv(c)'
       /\ \A f \in Out' + 1 .. Begun' : PlaceInv(f)'
  BY <1>1, <1>5 DEF WorkInv, ApartInv, ResultInv, PlaceInv
<1> QED BY <1>9, <1>10, <1>11, <1>12 DEF EncInv

-----------------------------------------------------------------------------
LEMMA EncInductive == EncInv /\ [E!Next]_(E!vars) => EncInv'
<1> SUFFICES ASSUME EncInv, [E!Next]_(E!vars) PROVE EncInv'
  OBVIOUS
<1>1. EncTypeOK /\ FlowInv /\ StartedInv /\ IndexInv
  BY DEF EncInv
<1>2. /\ Out \in Nat /\ submitted \in Nat /\ threads \in Nat /\ Out <= submitted
      /\ submitted < Out + BUFFER_SIZE
  BY <1>1, EncSizes
<1>3. CASE E!SendRefused \/ E!SendNull \/ E!ReceiveAtOnce
  BY <1>3, NobodyMoves DEF E!SendRefused, E!SendNull, E!ReceiveAtOnce, E!Answer, E!workerVars,
                           E!fifoVars, E!ringVars, E!indices
<1>4. CASE E!SendFrame
  <2>1. CASE call' = "take"
    <3>1. /\ call = "idle" /\ submitted' = submitted + 1
          /\ task_fifo' = Append(task_fifo, [index |-> task_index, frame |-> submitted + 1])
          /\ task_index' = (task_index + 1) % BUFFER_SIZE /\ api' = "send"
          /\ UNCHANGED <<threads, delivered, wpc, task, finished_tasks, finished_task_index, freed>>
      BY <1>4, <2>1 DEF E!SendFrame, E!Answer, E!workerVars, E!ringVars
    <3> QED BY <2>1, <3>1, SendFrameKeeps
  <2>2. CASE call' # "take"
    BY <1>4, <2>2, NobodyMoves DEF E!SendFrame, E!Answer, E!workerVars, E!ringVars
  <2> QED BY <2>1, <2>2
<1>5. CASE E!ReceiveDraining
  <2>1. submitted - Out <= threads
    BY <1>1, <1>5 DEF FlowInv, E!ReceiveDraining
  <2> QED BY <1>2, <1>5, <2>1, CallerMoves DEF E!ReceiveDraining, E!workerVars, E!fifoVars,
                                               E!ringVars, E!indices
<1>6. CASE E!Free
  <2>1. submitted - Out <= threads
    BY <1>1, <1>6 DEF FlowInv, E!Free
  <2> QED BY <1>6, <2>1, CallerMoves DEF E!Free, E!workerVars, E!ringVars, E!indices
<1>7. CASE E!Create
  BY <1>7, CreateKeeps
<1>8. CASE E!TakeNothing
  <2>1. call = "take" /\ submitted - Out <= threads + 1
        /\ (api = "receive" => submitted - Out <= threads) /\ api \in {"send", "receive"}
    BY <1>1, <1>8 DEF FlowInv, E!TakeNothing
  <2>2. submitted - Out <= threads
    <3>1. CASE task_index = finished_task_index
      <4>1. submitted = Out
        BY <1>1, <1>2, <3>1, SlotUnique DEF IndexInv
      <4> QED BY <1>2, <4>1
    <3>2. CASE E!InRing <= threads
      <4>1. E!InRing = submitted - Out
        BY <1>1, <1>2, SlotDistance DEF IndexInv, E!InRing
      <4> QED BY <3>2, <4>1
    <3> QED BY <1>8, <3>1, <3>2 DEF E!TakeNothing, E!NothingToTake
  <2> QED BY <1>8, <2>1, <2>2, CallerMoves DEF E!TakeNothing, E!workerVars, E!fifoVars,
                                               E!ringVars, E!indices
<1>9. CASE E!Take
  BY <1>9, TakeKeeps
<1>10. CASE E!Join
  BY <1>10, JoinKeeps
<1>11. ASSUME NEW w \in E!Workers, E!WorkerStep(w) PROVE EncInv'
  <2>1. CASE E!Top(w)
    <3>1. PICK l \in {"fifo", "gone", "top"} : wpc' = [wpc EXCEPT ![w] = l]
      BY <2>1 DEF E!Top, E!Goto
    <3> QED BY <2>1, <3>1, WorkerLooks DEF E!Top, Encoding, E!callerVars, E!fifoVars, E!ringVars, E!indices
  <2>2. CASE E!GetTask(w)
    <3>1. CASE task_fifo # <<>> /\ ~exit
      BY <2>2, <3>1, GetTaskKeeps
    <3>2. CASE exit /\ E!Goto(w, "gone") /\ UNCHANGED <<task, task_fifo, taskWait>>
      BY <2>2, <3>2, WorkerLooks DEF E!GetTask, E!Goto, Encoding, E!callerVars, E!ringVars, E!indices
    <3>3. CASE UNCHANGED <<wpc, task, task_fifo>>
      BY <2>2, <3>3, NobodyMoves DEF E!GetTask, E!callerVars, E!ringVars, E!indices
    <3> QED BY <2>2, <3>1, <3>2, <3>3 DEF E!GetTask
  <2> QED BY <1>11, <2>1, <2>2, EncodeKeeps, StoreKeeps DEF E!WorkerStep
<1>12. CASE E!TakeWaits \/ E!SpuriousWake \/ E!Freed \/ UNCHANGED E!vars
  BY <1>12, NobodyMoves DEF E!TakeWaits, E!SpuriousWake, E!Freed, E!vars, E!callerVars, E!workerVars,
                            E!fifoVars, E!ringVars, E!indices
<1> QED BY <1>3, <1>4, <1>5, <1>6, <1>7, <1>8, <1>9, <1>10, <1>11, <1>12
        DEF E!Next, E!Call, E!Continue

LEMMA EncInitially == E!Init => EncInv
<1> SUFFICES ASSUME E!Init PROVE EncInv
  OBVIOUS
<1>1. /\ Out = 0 /\ Begun = 0 /\ Len(task_fifo) = 0 /\ submitted = 0 /\ call = "create"
      /\ threads \in Nat /\ threads >= 2 /\ threads \in 0 .. E!MAX_THREADS
      /\ task_index = 0 /\ finished_task_index = 0 /\ freed = {} /\ delivered = <<>> /\ task_fifo = <<>>
      /\ wpc = [w \in E!Workers |-> "none"] /\ task = [w \in E!Workers |-> E!NoTask]
      /\ finished_tasks = [k \in Ring |-> E!Nothing]
  BY RingSize DEF E!Init, Out, Begun, Ring
<1>2. EncTypeOK
  <2>1. task \in [E!Workers -> Task]
    BY <1>1 DEF E!NoTask, Task
  <2>2. finished_tasks \in [Ring -> [frame : Nat, outcome : E!Outcomes \cup {"nothing"}]]
    BY <1>1 DEF E!Nothing
  <2>3. task_fifo \in Seq(Task) /\ delivered \in Seq(Nat)
    BY <1>1
  <2> QED BY <1>1, <2>1, <2>2, <2>3 DEF EncTypeOK
<1>3. StartedInv
  <2>1. E!Started = 0 .. 0 - 1 /\ 0 \in 0 .. threads
    BY <1>1 DEF E!Started
  <2> QED BY <1>1, <2>1 DEF StartedInv
<1>4. FlowInv /\ OrderInv /\ FifoInv /\ FreedInv
  BY <1>1 DEF FlowInv, OrderInv, FifoInv, FreedInv
<1>5. IndexInv
  <2>1. 0 = BUFFER_SIZE * 0 + 0 /\ 0 \in 0 .. BUFFER_SIZE - 1
    BY RingSize
  <2>2. Slot(0) = 0
    BY <2>1, RingSize, RemainderIs DEF Slot
  <2> QED BY <1>1, <2>2 DEF IndexInv
<1>6. /\ \A w \in E!Workers : WorkInv(w) /\ \A v \in E!Workers : ApartInv(v, w)
      /\ \A k \in Ring : ResultInv(k)
      /\ \A f \in Out + 1 .. Begun : PlaceInv(f)
      /\ E!NothingLeaked
  BY <1>1 DEF WorkInv, ApartInv, Encoding, ResultInv, E!NothingLeaked
<1> QED BY <1>2, <1>3, <1>4, <1>5, <1>6 DEF EncInv

-----------------------------------------------------------------------------
(* The invariant holds always, for any size of the ring, any number of     *)
(* threads and any number of frames.                                       *)
THEOREM EncoderCorrect == CodecSpec => []EncInv
<1>1. CodecInit => EncInv
  BY EncInitially DEF CodecInit
<1>2. EncInv /\ [CodecNext]_all => EncInv'
  <2>1. [CodecNext]_all => [E!Next]_(E!vars)
    BY DEF CodecNext, Slices, Encoder, all, encoder, E!vars, E!callerVars, E!workerVars, E!fifoVars,
           E!ringVars, E!indices
  <2> QED BY <2>1, EncInductive
<1> QED BY <1>1, <1>2, PTL DEF CodecSpec

(* Closing an encoder frees every frame and every packet once, and leaves  *)
(* no worker that could touch what is destroyed.                           *)
THEOREM EncoderNothingLeaked == CodecSpec => []NothingLeaked
  BY EncoderCorrect, PTL DEF EncInv, NothingLeaked

(* What the invariant says of the order and of the sizes. *)
LEMMA InvariantImpliesOrder == EncInv => E!ResultsInOrder
<1> SUFFICES ASSUME EncInv PROVE E!ResultsInOrder
  OBVIOUS
<1>1. EncTypeOK /\ FlowInv /\ OrderInv /\ delivered \in Seq(Nat)
  BY DEF EncInv, EncTypeOK
<1>2. delivered = [k \in 1 .. Len(delivered) |-> k]
  BY <1>1 DEF OrderInv, Out
<1>3. Len(task_fifo) <= BUFFER_SIZE
  <2>1. /\ Out \in Nat /\ Begun \in Nat /\ Len(task_fifo) \in Nat /\ Out <= Begun
        /\ Begun + Len(task_fifo) = submitted /\ submitted < Out + BUFFER_SIZE /\ BUFFER_SIZE \in Nat
    BY <1>1, EncSizes, RingSize
  <2> QED BY <2>1
<1>4. E!Underway <= (IF call = "take" THEN threads + 1 ELSE threads)
  BY <1>1 DEF FlowInv, E!Underway, Out
<1> QED BY <1>2, <1>3, <1>4 DEF E!ResultsInOrder

(* The end of the stream is told when everything has been delivered, or    *)
(* after a frame for which the encoder made no packet.                     *)
LEMMA EndComesLast == EncInv /\ [E!Next]_(E!vars) => E!EndAfterAll
<1> SUFFICES ASSUME EncInv, [E!Next]_(E!vars), call = "take", api = "receive", call' = "idle", ret' = "EOF"
             PROVE  Len(delivered') = submitted \/ E!Oldest.outcome = "none"
  BY DEF E!EndAfterAll
<1>1. CASE E!TakeNothing
  <2>1. task_index = finished_task_index /\ delivered' = delivered
    BY <1>1 DEF E!TakeNothing, E!NothingToTake
  <2>2. EncTypeOK /\ FlowInv /\ IndexInv
    BY DEF EncInv
  <2>3. Out \in Nat /\ submitted \in Nat /\ Out <= submitted /\ submitted < Out + BUFFER_SIZE
    BY <2>2, EncSizes
  <2>4. submitted = Out
    BY <2>1, <2>2, <2>3, SlotUnique DEF IndexInv
  <2> QED BY <2>1, <2>4 DEF Out
<1>2. CASE E!Take
  BY <1>2 DEF E!Take
<1>3. ASSUME NEW w \in E!Workers, E!WorkerStep(w) PROVE call' = call
  BY <1>3 DEF E!WorkerStep, E!Top, E!GetTask, E!Encode, E!Store, E!callerVars
<1>4. CASE UNCHANGED E!vars \/ E!SpuriousWake \/ E!Freed \/ E!TakeWaits
  BY <1>4 DEF E!vars, E!SpuriousWake, E!Freed, E!TakeWaits, E!callerVars
<1> QED BY <1>1, <1>2, <1>3, <1>4
        DEF E!Next, E!Call, E!Continue, E!Create, E!Join, E!Free, E!SendRefused, E!SendNull,
            E!ReceiveAtOnce, E!SendFrame, E!ReceiveDraining

(* The results leave in the order of the frames, one for each frame, no    *)
(* more are under way than there is room for, and the end of the stream is *)
(* told after the last.                                                    *)
THEOREM EncoderResultsInOrder == CodecSpec => ResultsInOrder
<1>1. EncInv /\ EncInv' /\ [CodecNext]_all => [kind = "encoder" => E!ResultsInOrder' /\ E!EndAfterAll]_all
  <2>1. [CodecNext]_all => [E!Next]_(E!vars)
    BY DEF CodecNext, Slices, Encoder, all, encoder, E!vars, E!callerVars, E!workerVars, E!fifoVars,
           E!ringVars, E!indices
  <2>2. EncInv' => E!ResultsInOrder'
    BY InvariantImpliesOrder, PTL
  <2> QED BY <2>1, <2>2, EndComesLast
<1> QED BY <1>1, EncoderCorrect, PTL DEF CodecSpec, ResultsInOrder
=============================================================================
