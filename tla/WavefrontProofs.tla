-------------------------- MODULE WavefrontProofs --------------------------
(***************************************************************************)
(* Theorems about SliceThread and Wavefront for any number of threads,     *)
(* jobs, rows and CTBs.  The first part is about the pool: every batch is  *)
(* exact, and the pool implements the parallel loop.  The second is about  *)
(* the rows of HEVC that are the jobs of some pools.                       *)
(*                                                                         *)
(* The argument about the pool counts.  The threads that have still to     *)
(* begin a batch are as many as the first jobs that are left, and the      *)
(* threads that have still to find the counter at its end as many as the   *)
(* attempts that are left; so the thread whose attempt is the last of all  *)
(* finds nobody else in the batch, and every job taken has been run.       *)
(***************************************************************************)
EXTENDS Wavefront, FiniteSetTheorems, TLAPS


MainLabels == {"create", "handshake", "idle", "wake", "main_func", "begin", "job", "next",
               "ran", "free", "stop", "join", "freed"}
WorkerLabels == {"none", "start", "wait", "begin", "job", "next", "ran", "park", "exit"}

LabelsOK ==
  /\ pc \in [Runners -> MainLabels \cup WorkerLabels]
  /\ pc[Main] \in MainLabels /\ \A t \in Workers : pc[t] \in WorkerLabels

ContextOK ==
  ctx \in [nb_threads : 0 .. MaxThreads, main_func : BOOLEAN, nb_active : Nat, nb_jobs : Nat,
           first_job : Nat, current_job : Nat, done : BOOLEAN, finished : BOOLEAN, main : BOOLEAN]

LocalsOK ==
  r \in [Runners -> [first : Nat, job : Nat, nb_jobs : Nat, nb_active : Nat, last : BOOLEAN]]

ControlOK ==
  /\ i \in Nat
  /\ wdone \in [Workers -> BOOLEAN]
  /\ wait \in [Workers -> SUBSET Runners]
  /\ mutex \in [Workers -> Runners \cup {None}]
  /\ doneWait \in BOOLEAN
  /\ ran \in SUBSET Nat
  /\ batches \in Nat

TypeOK == LabelsOK /\ ContextOK /\ LocalsOK /\ ControlOK

(* Which workers exist, and whether the pool is being freed. *)
Parked(t) == pc[t] = "wait" /\ wdone[t]
Creating == pc[Main] \in {"create", "handshake"}
Closing == pc[Main] \in {"free", "stop", "join", "freed"}
SizesInv ==
  /\ ctx.main_func => ctx.nb_threads < MaxThreads
  /\ ctx.main => ctx.main_func
  /\ ~Closing => ctx.nb_threads > 0
  /\ ctx.finished <=> pc[Main] \in {"stop", "join", "freed"}
  /\ Creating => i <= NbWorkers /\ (pc[Main] = "handshake" => i < NbWorkers)

WorkerInv(t) ==
  /\ Creating => /\ t < i => Parked(t)
                 /\ t > i => pc[t] = "none"
                 /\ t = i => \/ pc[Main] = "create" /\ pc[t] = "none"
                             \/ pc[Main] = "handshake" /\ Parked(t)
                             \/ pc[Main] = "handshake" /\ pc[t] = "start" /\ ~wdone[t]
  /\ ~Creating => (pc[t] = "none" <=> t >= NbWorkers) /\ pc[t] # "start"
  /\ pc[t] = "exit" => ctx.finished
  /\ pc[t] = "none" => ~wdone[t]

(* A worker has its mutex from the end of one wait to the next; Main has   *)
(* that of a worker it has just started.                                   *)
MutexInv(t) ==
  /\ mutex[t] \in {t, Main, None}
  /\ mutex[t] = t <=> pc[t] \in {"begin", "job", "next", "ran", "park"}
  /\ mutex[t] = Main => pc[Main] = "handshake" /\ t = i

PoolInv == SizesInv /\ \A t \in Workers : WorkerInv(t) /\ MutexInv(t)

(* The threads that have still to begin the batch, and those that have     *)
(* still to find the counter at its end.                                   *)
Pending(x) ==
  IF x = Main THEN pc[Main] = "begin" \/ (pc[Main] = "wake" /\ ~ctx.main)
  ELSE pc[x] = "begin" \/ (pc[x] = "wait" /\ ~wdone[x])
       \/ (pc[Main] = "wake" /\ i <= x /\ x < ActiveWorkers)
Running(x) == pc[x] \in {"job", "next"}
ToBegin == {x \in Runners : Pending(x)}
ToFail == {x \in Runners : Pending(x) \/ Running(x)}

(* A worker that has nothing to do with the batch any more, or yet.        *)
Rests(t) == pc[t] \in {"none", "park"} \/ (pc[t] = "ran" /\ ~r[t].last) \/ Parked(t)

(* Which jobs have been taken, who runs which, and how many attempts at    *)
(* the counter are still to come.                                          *)
Taken == {j \in 0 .. ctx.nb_jobs - 1 : j < ctx.first_job \/ (ctx.nb_active <= j /\ j < ctx.current_job)}
SizeInv ==
  InBatch => /\ ctx.nb_active > 0 /\ ctx.nb_active <= ctx.nb_jobs
             /\ ctx.nb_active <= ctx.nb_threads /\ ctx.nb_active <= ctx.current_job
             /\ pc[Main] = "wake" => i <= ActiveWorkers
CountInv ==
  InBatch =>
    /\ Cardinality(ToBegin) = ctx.nb_active - ctx.first_job
    /\ Cardinality(ToFail) = IF ctx.current_job <= ctx.nb_jobs THEN ctx.nb_active
                             ELSE ctx.nb_active + ctx.nb_jobs - ctx.current_job
RestsInv(t) == pc[Main] = "wake" /\ t >= i => Rests(t)

JobInv(x) ==
  InBatch /\ Running(x) =>
    /\ r[x].nb_jobs = ctx.nb_jobs /\ r[x].nb_active = ctx.nb_active
    /\ r[x].first < ctx.first_job
    /\ pc[x] = "job" => r[x].job \in Taken \ ran
PairInv(x, y) ==
  InBatch /\ Running(x) /\ Running(y) /\ x # y =>
    r[x].first # r[y].first /\ (pc[x] = "job" /\ pc[y] = "job" => r[x].job # r[y].job)
TakenInv == InBatch => Taken = ran \cup {r[x].job : x \in InJob}

(* Whoever has made the last attempt of all has not finished the batch     *)
(* yet: it is Main, or a worker that is going to set done, or has set it.  *)
Last(x) == r[x].last /\ pc[x] = "ran"
Over == ctx.current_job >= ctx.nb_jobs + ctx.nb_active
LastInv(x) == InBatch /\ Last(x) => Over /\ ~ctx.done /\ \A y \in Runners : Last(y) => x = y
DoneInv == InBatch => (ctx.done => Over) /\ (r[Main].last => pc[Main] = "ran")

(* Between two batches nobody is in the last one. *)
OffInv == ~InBatch => ~ctx.done /\ AllRan
RestInv(t) ==
  ~InBatch => /\ pc[t] \notin {"begin", "job", "next"} /\ ~Last(t)
              /\ ctx.finished \/ pc[t] # "wait" \/ wdone[t]

BatchInv ==
  /\ SizeInv /\ CountInv /\ TakenInv /\ DoneInv /\ OffInv
  /\ \A x \in Runners : JobInv(x) /\ LastInv(x) /\ \A y \in Runners : PairInv(x, y)
  /\ \A t \in Workers : RestsInv(t) /\ RestInv(t)

IInv == TypeOK /\ PoolInv /\ BatchInv

-----------------------------------------------------------------------------
(* The threads are the workers and Main. *)
LEMMA RunnersAre ==
  /\ Main \in Runners /\ Workers \subseteq Runners /\ Main \notin Workers
  /\ \A x \in Runners : x # Main => x \in Workers
  BY SliceThreadAssumption DEF SliceThreadAssumption, Main, Workers, Runners

(* Their numbers: the workers from 0 on, Main the last. *)
LEMMA RunnersRange ==
  /\ Main \in Nat /\ None \notin Runners /\ Runners = 0 .. Main /\ Workers = 0 .. Main - 1
  /\ MaxThreads = Main + 1 /\ Runners \subseteq Nat
  BY SliceThreadAssumption DEF SliceThreadAssumption, Main, Workers, Runners, None

(* Every thread stays in the code of its kind. *)
LEMMA LabelsInductive == TypeOK /\ [Next]_vars => LabelsOK'
<1> SUFFICES ASSUME TypeOK, [Next]_vars PROVE LabelsOK'
  OBVIOUS
<1> USE RunnersAre DEF TypeOK, ControlOK, LabelsOK, Goto, MainLabels, WorkerLabels
<1>1. CASE Create
  BY <1>1 DEF Create, NbWorkers
<1>2. CASE CreateFails
  BY <1>2 DEF CreateFails, NbWorkers
<1>3. CASE Handshake
  BY <1>3 DEF Handshake
<1>4. CASE Wake
  BY <1>4 DEF Wake, Rouse
<1>5. CASE MainFunc
  BY <1>5 DEF MainFunc
<1>6. CASE AwaitDone
  BY <1>6 DEF AwaitDone
<1>7. ASSUME NEW x \in Runners, Begin(x) PROVE LabelsOK'
  BY <1>7 DEF Begin
<1>8. ASSUME NEW x \in Runners, RunJob(x) PROVE LabelsOK'
  BY <1>8 DEF RunJob
<1>9. ASSUME NEW x \in Runners, TakeNext(x) PROVE LabelsOK'
  BY <1>9 DEF TakeNext, IsLast
<1>10. CASE Stop
  BY <1>10 DEF Stop, Rouse
<1>11. CASE Join
  BY <1>11 DEF Join
<1>12. CASE Free
  BY <1>12 DEF Free
<1>13. ASSUME NEW n \in 1 .. MaxJobs, NEW main \in BOOLEAN, Execute(n, main) PROVE LabelsOK'
  BY <1>13, SliceThreadAssumption DEF Execute, SliceThreadAssumption
<1>14. ASSUME NEW t \in Workers, Park(t) PROVE LabelsOK'
  BY <1>14 DEF Park
<1>15. ASSUME NEW t \in Workers, WakeUp(t) PROVE LabelsOK'
  BY <1>15 DEF WakeUp
<1>16. ASSUME NEW t \in Workers, Notify(t) PROVE LabelsOK'
  BY <1>16 DEF Notify
<1>17. CASE SpuriousWake
  BY <1>17 DEF SpuriousWake
<1>18. CASE UNCHANGED vars
  BY <1>18 DEF vars
<1> QED
  BY <1>1, <1>2, <1>3, <1>4, <1>5, <1>6, <1>7, <1>8, <1>9, <1>10, <1>11, <1>12, <1>13, <1>14, <1>15, <1>16, <1>17, <1>18
     DEF Next, Call, MainStep, MainControl, WorkerStep, WorkerControl, Freed

(* The fields of the pool and the locals of run_jobs keep their types.     *)
LEMMA ContextInductive == TypeOK /\ [Next]_vars => (ContextOK /\ LocalsOK)'
<1> SUFFICES ASSUME TypeOK, [Next]_vars PROVE (ContextOK /\ LocalsOK)'
  OBVIOUS
<1> USE RunnersAre DEF TypeOK, ControlOK, ContextOK, LocalsOK, pool
<1>1. CASE Create
  BY <1>1 DEF Create, NbWorkers
<1>2. CASE CreateFails
  <2>1. i < MaxThreads /\ i + 1 \in 0 .. MaxThreads
    BY <1>2, SliceThreadAssumption DEF CreateFails, NbWorkers, SliceThreadAssumption
  <2> DEFINE n == IF ctx.main_func THEN i ELSE i + 1
  <2>2. n \in 0 .. MaxThreads /\ ctx' = [ctx EXCEPT !.nb_threads = n]
    BY <1>2, <2>1, SliceThreadAssumption DEF CreateFails, SliceThreadAssumption
  <2> HIDE DEF n
  <2> QED BY <1>2, <2>2 DEF CreateFails
<1>3. CASE Handshake
  BY <1>3 DEF Handshake
<1>4. CASE Wake
  BY <1>4 DEF Wake, Rouse
<1>5. CASE MainFunc
  BY <1>5 DEF MainFunc
<1>6. CASE AwaitDone
  BY <1>6 DEF AwaitDone
<1>7. ASSUME NEW x \in Runners, Begin(x) PROVE (ContextOK /\ LocalsOK)'
  BY <1>7 DEF Begin
<1>8. ASSUME NEW x \in Runners, RunJob(x) PROVE (ContextOK /\ LocalsOK)'
  BY <1>8 DEF RunJob
<1>9. ASSUME NEW x \in Runners, TakeNext(x) PROVE (ContextOK /\ LocalsOK)'
  <2>1. ContextOK'
    BY <1>9 DEF TakeNext
  <2>2. ctx.current_job \in Nat /\ IsLast(x) \in BOOLEAN
    BY DEF IsLast
  <2>3. LocalsOK'
    <3>1. PICK j \in Nat, b \in BOOLEAN : r' = [r EXCEPT ![x].job = j, ![x].last = b]
      BY <1>9, <2>2 DEF TakeNext
    <3>2. r' = [r EXCEPT ![x] = [r[x] EXCEPT !.job = j, !.last = b]]
      BY <3>1
    <3> QED BY <3>2
  <2> QED BY <2>1, <2>3
<1>10. CASE Stop
  BY <1>10 DEF Stop, Rouse
<1>11. CASE Join
  BY <1>11 DEF Join
<1>12. CASE Free
  BY <1>12 DEF Free
<1>13. ASSUME NEW n \in 1 .. MaxJobs, NEW main \in BOOLEAN, Execute(n, main) PROVE (ContextOK /\ LocalsOK)'
  <2>1. n \in Nat /\ n > 0
    BY SliceThreadAssumption DEF SliceThreadAssumption
  <2>2. ContextOK'
    <3> DEFINE active == IF n < ctx.nb_threads THEN n ELSE ctx.nb_threads
    <3>1. active \in Nat /\ (ctx.main_func /\ main) \in BOOLEAN
      BY <2>1
    <3>2. ctx' = [ctx EXCEPT !.nb_jobs = n, !.nb_active = active, !.first_job = 0,
                             !.current_job = active, !.main = ctx.main_func /\ main]
      BY <1>13 DEF Execute
    <3> HIDE DEF active
    <3> QED BY <2>1, <3>1, <3>2
  <2>3. LocalsOK'
    BY <1>13 DEF Execute
  <2> QED BY <2>2, <2>3
<1>14. ASSUME NEW t \in Workers, Park(t) PROVE (ContextOK /\ LocalsOK)'
  BY <1>14 DEF Park
<1>15. ASSUME NEW t \in Workers, WakeUp(t) PROVE (ContextOK /\ LocalsOK)'
  BY <1>15 DEF WakeUp
<1>16. ASSUME NEW t \in Workers, Notify(t) PROVE (ContextOK /\ LocalsOK)'
  <2>1. CASE r[t].last
    BY <1>16, <2>1 DEF Notify
  <2>2. CASE ~r[t].last
    BY <1>16, <2>2 DEF Notify
  <2> QED BY <2>1, <2>2
<1>17. CASE SpuriousWake
  BY <1>17 DEF SpuriousWake
<1>18. CASE UNCHANGED vars
  BY <1>18 DEF vars
<1> QED
  BY <1>1, <1>2, <1>3, <1>4, <1>5, <1>6, <1>7, <1>8, <1>9, <1>10, <1>11, <1>12, <1>13, <1>14, <1>15, <1>16, <1>17, <1>18
     DEF Next, Call, MainStep, MainControl, WorkerStep, WorkerControl, Freed

(* So do the other variables. *)
LEMMA ControlInductive == TypeOK /\ [Next]_vars => ControlOK'
<1> SUFFICES ASSUME TypeOK, [Next]_vars PROVE ControlOK'
  OBVIOUS
<1> USE RunnersAre DEF TypeOK, ControlOK, LocalsOK, pool
<1>1. CASE Create
  BY <1>1 DEF Create, NbWorkers
<1>2. CASE CreateFails
  BY <1>2 DEF CreateFails, NbWorkers
<1>3. CASE Handshake
  <2>1. i' \in Nat
    BY <1>3 DEF Handshake
  <2>2. wait' \in [Workers -> SUBSET Runners]
    BY <1>3 DEF Handshake
  <2>3. mutex' \in [Workers -> Runners \cup {None}]
    BY <1>3 DEF Handshake
  <2> QED BY <1>3, <2>1, <2>2, <2>3 DEF Handshake
<1>4. CASE Wake
  <2>1. i' \in Nat
    BY <1>4 DEF Wake
  <2>2. wdone' \in [Workers -> BOOLEAN]
    BY <1>4 DEF Wake, Rouse
  <2>3. wait' \in [Workers -> SUBSET Runners]
    BY <1>4 DEF Wake, Rouse
  <2> QED BY <1>4, <2>1, <2>2, <2>3 DEF Wake
<1>5. CASE MainFunc
  BY <1>5 DEF MainFunc
<1>6. CASE AwaitDone
  BY <1>6 DEF AwaitDone
<1>7. ASSUME NEW x \in Runners, Begin(x) PROVE ControlOK'
  BY <1>7 DEF Begin
<1>8. ASSUME NEW x \in Runners, RunJob(x) PROVE ControlOK'
  BY <1>8 DEF RunJob
<1>9. ASSUME NEW x \in Runners, TakeNext(x) PROVE ControlOK'
  BY <1>9 DEF TakeNext, IsLast
<1>10. CASE Stop
  <2>1. i' \in Nat
    BY <1>10 DEF Stop
  <2>2. wdone' \in [Workers -> BOOLEAN]
    BY <1>10 DEF Stop, Rouse
  <2>3. wait' \in [Workers -> SUBSET Runners]
    BY <1>10 DEF Stop, Rouse
  <2> QED BY <1>10, <2>1, <2>2, <2>3 DEF Stop
<1>11. CASE Join
  BY <1>11 DEF Join
<1>12. CASE Free
  BY <1>12 DEF Free
<1>13. ASSUME NEW n \in 1 .. MaxJobs, NEW main \in BOOLEAN, Execute(n, main) PROVE ControlOK'
  BY <1>13, SliceThreadAssumption DEF Execute, SliceThreadAssumption
<1>14. ASSUME NEW t \in Workers, Park(t) PROVE ControlOK'
  BY <1>14 DEF Park
<1>15. ASSUME NEW t \in Workers, WakeUp(t) PROVE ControlOK'
  BY <1>15 DEF WakeUp
<1>16. ASSUME NEW t \in Workers, Notify(t) PROVE ControlOK'
  BY <1>16 DEF Notify
<1>17. CASE SpuriousWake
  BY <1>17 DEF SpuriousWake
<1>18. CASE UNCHANGED vars
  BY <1>18 DEF vars
<1> QED
  BY <1>1, <1>2, <1>3, <1>4, <1>5, <1>6, <1>7, <1>8, <1>9, <1>10, <1>11, <1>12, <1>13, <1>14, <1>15, <1>16, <1>17, <1>18
     DEF Next, Call, MainStep, MainControl, WorkerStep, WorkerControl, Freed

(* Every step keeps what is known of who holds the mutexes.                *)
LEMMA MutexInductive == (TypeOK /\ PoolInv) /\ [Next]_vars => (\A t \in Workers : MutexInv(t))'
<1> SUFFICES ASSUME (TypeOK /\ PoolInv), [Next]_vars PROVE (\A t \in Workers : MutexInv(t))'
  OBVIOUS
<1> SUFFICES ASSUME NEW u \in Workers PROVE MutexInv(u)'
  OBVIOUS
<1>0. /\ u # Main /\ u # None /\ None # Main /\ u \in Runners /\ Main \in Runners
      /\ \A t \in Workers : t # Main /\ t # None /\ t \in Runners
      /\ pc = [x \in Runners |-> pc[x]] /\ mutex = [t \in Workers |-> mutex[t]]
      /\ WorkerInv(u) /\ MutexInv(u) /\ i \in Nat /\ u \in Nat
  BY RunnersAre, RunnersRange DEF TypeOK, ControlOK, LabelsOK, PoolInv
<1> USE <1>0, RunnersAre DEF WorkerInv, MutexInv, Creating, Parked, Goto, pool
<1>1. CASE Create
  BY <1>1 DEF Create
<1>2. CASE CreateFails
  BY <1>2 DEF CreateFails
<1>3. CASE Handshake
  BY <1>3 DEF Handshake
<1>4. CASE Wake
  BY <1>4 DEF Wake, Rouse
<1>5. CASE MainFunc
  BY <1>5 DEF MainFunc
<1>6. CASE AwaitDone
  BY <1>6 DEF AwaitDone
<1>7. ASSUME NEW x \in Runners, Begin(x) PROVE MutexInv(u)'
  BY <1>7 DEF Begin
<1>8. ASSUME NEW x \in Runners, RunJob(x) PROVE MutexInv(u)'
  BY <1>8 DEF RunJob
<1>9. ASSUME NEW x \in Runners, TakeNext(x) PROVE MutexInv(u)'
  BY <1>9 DEF TakeNext
<1>10. CASE Stop
  BY <1>10 DEF Stop, Rouse
<1>11. CASE Join
  BY <1>11 DEF Join
<1>12. CASE Free
  BY <1>12 DEF Free
<1>13. ASSUME NEW n \in 1 .. MaxJobs, NEW main \in BOOLEAN, Execute(n, main) PROVE MutexInv(u)'
  BY <1>13 DEF Execute
<1>14. ASSUME NEW t \in Workers, Park(t) PROVE MutexInv(u)'
  BY <1>14 DEF Park
<1>15. ASSUME NEW t \in Workers, WakeUp(t) PROVE MutexInv(u)'
  BY <1>15 DEF WakeUp
<1>16. ASSUME NEW t \in Workers, Notify(t) PROVE MutexInv(u)'
  BY <1>16 DEF Notify
<1>17. CASE SpuriousWake
  BY <1>17 DEF SpuriousWake
<1>18. CASE UNCHANGED vars
  BY <1>18 DEF vars
<1> QED
  BY <1>1, <1>2, <1>3, <1>4, <1>5, <1>6, <1>7, <1>8, <1>9, <1>10, <1>11, <1>12, <1>13, <1>14, <1>15, <1>16, <1>17, <1>18
     DEF Next, Call, MainStep, MainControl, WorkerStep, WorkerControl, Freed

(* Every step keeps what is known of the workers while the pool is created *)
(* and freed.                                                              *)
LEMMA WorkersInductive == (TypeOK /\ PoolInv) /\ [Next]_vars => (\A t \in Workers : WorkerInv(t))'
<1> SUFFICES ASSUME (TypeOK /\ PoolInv), [Next]_vars PROVE (\A t \in Workers : WorkerInv(t))'
  OBVIOUS
<1> SUFFICES ASSUME NEW u \in Workers PROVE WorkerInv(u)'
  OBVIOUS
<1>0. /\ u # Main /\ u \in Runners /\ Main \in Runners
      /\ \A t \in Workers : t # Main /\ t \in Runners /\ t \in Nat
      /\ pc = [x \in Runners |-> pc[x]] /\ wdone = [t \in Workers |-> wdone[t]]
      /\ SizesInv /\ WorkerInv(u) /\ MutexInv(u) /\ i \in Nat /\ u \in Nat /\ ContextOK
  BY RunnersAre, RunnersRange DEF TypeOK, ControlOK, LabelsOK, PoolInv
<1> USE <1>0 DEF WorkerInv, MutexInv, SizesInv, Creating, Closing, Parked, Goto, pool, NbWorkers, ContextOK
<1>1. CASE Create
  <2>1. i < NbWorkers => i # Main
    BY <1>1, RunnersRange DEF Create
  <2>2. CASE i < NbWorkers /\ u = i
    BY <1>1, <2>1, <2>2 DEF Create
  <2>3. CASE i < NbWorkers /\ u # i
    BY <1>1, <2>1, <2>3 DEF Create
  <2>4. CASE ~(i < NbWorkers)
    BY <1>1, <2>4 DEF Create
  <2> QED BY <2>2, <2>3, <2>4
<1>2. CASE CreateFails
  BY <1>2 DEF CreateFails
<1>3. CASE Handshake
  BY <1>3 DEF Handshake
<1>4. CASE Wake
  BY <1>4 DEF Wake, Rouse
<1>5. CASE MainFunc
  BY <1>5 DEF MainFunc
<1>6. CASE AwaitDone
  BY <1>6 DEF AwaitDone
<1>7. ASSUME NEW x \in Runners, Begin(x) PROVE WorkerInv(u)'
  BY <1>7 DEF Begin
<1>8. ASSUME NEW x \in Runners, RunJob(x) PROVE WorkerInv(u)'
  BY <1>8 DEF RunJob
<1>9. ASSUME NEW x \in Runners, TakeNext(x) PROVE WorkerInv(u)'
  BY <1>9 DEF TakeNext
<1>10. CASE Stop
  BY <1>10 DEF Stop, Rouse
<1>11. CASE Join
  BY <1>11 DEF Join
<1>12. CASE Free
  BY <1>12 DEF Free
<1>13. ASSUME NEW n \in 1 .. MaxJobs, NEW main \in BOOLEAN, Execute(n, main) PROVE WorkerInv(u)'
  BY <1>13 DEF Execute
<1>14. ASSUME NEW t \in Workers, Park(t) PROVE WorkerInv(u)'
  BY <1>14 DEF Park
<1>15. ASSUME NEW t \in Workers, WakeUp(t) PROVE WorkerInv(u)'
  BY <1>15 DEF WakeUp
<1>16. ASSUME NEW t \in Workers, Notify(t) PROVE WorkerInv(u)'
  BY <1>16 DEF Notify
<1>17. CASE SpuriousWake
  BY <1>17 DEF SpuriousWake
<1>18. CASE UNCHANGED vars
  BY <1>18 DEF vars
<1> QED
  BY <1>1, <1>2, <1>3, <1>4, <1>5, <1>6, <1>7, <1>8, <1>9, <1>10, <1>11, <1>12, <1>13, <1>14, <1>15, <1>16, <1>17, <1>18
     DEF Next, Call, MainStep, MainControl, WorkerStep, WorkerControl, Freed

(* Every step keeps what is known of the number of threads.                *)
LEMMA SizesInductive == (TypeOK /\ PoolInv) /\ [Next]_vars => SizesInv'
<1> SUFFICES ASSUME TypeOK, PoolInv, [Next]_vars PROVE SizesInv'
  OBVIOUS
<1>0. /\ Main \in Runners /\ \A t \in Workers : t # Main
      /\ pc = [x \in Runners |-> pc[x]] 
      /\ SizesInv /\ i \in Nat /\ ContextOK /\ MaxThreads \in Nat
  BY RunnersAre, RunnersRange DEF TypeOK, ControlOK, LabelsOK, PoolInv
<1> USE <1>0 DEF SizesInv, Creating, Closing, Goto, pool, NbWorkers, ContextOK
<1>1. CASE Create
  BY <1>1 DEF Create
<1>2. CASE CreateFails
  BY <1>2 DEF CreateFails
<1>3. CASE Handshake
  BY <1>3 DEF Handshake
<1>4. CASE Wake
  BY <1>4 DEF Wake, Rouse
<1>5. CASE MainFunc
  BY <1>5 DEF MainFunc
<1>6. CASE AwaitDone
  BY <1>6 DEF AwaitDone
<1>7. ASSUME NEW x \in Runners, Begin(x) PROVE SizesInv'
  BY <1>7 DEF Begin
<1>8. ASSUME NEW x \in Runners, RunJob(x) PROVE SizesInv'
  BY <1>8 DEF RunJob
<1>9. ASSUME NEW x \in Runners, TakeNext(x) PROVE SizesInv'
  BY <1>9 DEF TakeNext
<1>10. CASE Stop
  BY <1>10 DEF Stop, Rouse
<1>11. CASE Join
  BY <1>11 DEF Join
<1>12. CASE Free
  BY <1>12 DEF Free
<1>13. ASSUME NEW n \in 1 .. MaxJobs, NEW main \in BOOLEAN, Execute(n, main) PROVE SizesInv'
  BY <1>13 DEF Execute
<1>14. ASSUME NEW t \in Workers, Park(t) PROVE SizesInv'
  BY <1>14 DEF Park
<1>15. ASSUME NEW t \in Workers, WakeUp(t) PROVE SizesInv'
  BY <1>15 DEF WakeUp
<1>16. ASSUME NEW t \in Workers, Notify(t) PROVE SizesInv'
  BY <1>16 DEF Notify
<1>17. CASE SpuriousWake
  BY <1>17 DEF SpuriousWake
<1>18. CASE UNCHANGED vars
  BY <1>18 DEF vars
<1> HIDE <1>0 DEF Creating, Closing, Goto, pool, NbWorkers, ContextOK
<1> QED
  BY RunnersAre, <1>1, <1>2, <1>3, <1>4, <1>5, <1>6, <1>7, <1>8, <1>9, <1>10, <1>11, <1>12, <1>13, <1>14, <1>15, <1>16, <1>17, <1>18
     DEF Next, Call, MainStep, MainControl, WorkerStep, WorkerControl, Freed

-----------------------------------------------------------------------------
(* What the counts say: nobody begins twice, no attempt is made after the  *)
(* last, and when that has been made nobody is in the batch any more.      *)
LEMMA CountBounds ==
  ASSUME TypeOK, SizeInv, CountInv, InBatch
  PROVE  /\ IsFiniteSet(ToBegin) /\ IsFiniteSet(ToFail) /\ ToBegin \subseteq ToFail
         /\ ctx.first_job <= ctx.nb_active
         /\ ctx.current_job <= ctx.nb_jobs + ctx.nb_active
         /\ Over => ToFail = {} /\ ctx.first_job = ctx.nb_active
<1>1. IsFiniteSet(Runners)
  BY RunnersRange, FS_Interval
<1>2. /\ IsFiniteSet(ToBegin) /\ IsFiniteSet(ToFail) /\ ToBegin \subseteq ToFail
  BY <1>1, FS_Subset DEF ToBegin, ToFail
<1>3. /\ Cardinality(ToBegin) \in Nat /\ Cardinality(ToFail) \in Nat
      /\ Cardinality(ToBegin) <= Cardinality(ToFail)
  BY <1>2, FS_CardinalityType, FS_Subset
<1>4. /\ ctx.nb_active \in Nat /\ ctx.nb_jobs \in Nat /\ ctx.first_job \in Nat /\ ctx.current_job \in Nat
      /\ ctx.nb_active > 0 /\ ctx.nb_active <= ctx.nb_jobs
  BY DEF TypeOK, ControlOK, ContextOK, SizeInv
<1>5. /\ Cardinality(ToBegin) = ctx.nb_active - ctx.first_job
      /\ Cardinality(ToFail) = IF ctx.current_job <= ctx.nb_jobs THEN ctx.nb_active
                               ELSE ctx.nb_active + ctx.nb_jobs - ctx.current_job
  BY DEF CountInv
<1>6. ctx.first_job <= ctx.nb_active /\ ctx.current_job <= ctx.nb_jobs + ctx.nb_active
  BY <1>3, <1>4, <1>5
<1>7. Over => Cardinality(ToFail) = 0 /\ Cardinality(ToBegin) = 0
  BY <1>3, <1>4, <1>5 DEF Over
<1>8. Over => ToFail = {} /\ ctx.first_job = ctx.nb_active
  BY <1>2, <1>4, <1>5, <1>7, FS_EmptySet
<1> QED BY <1>2, <1>6, <1>8

(* A batch wakes workers that exist. *)
LEMMA ActiveBound ==
  ASSUME TypeOK, SizesInv, SizeInv, InBatch
  PROVE  ActiveWorkers \in Nat /\ ActiveWorkers <= NbWorkers /\ NbWorkers <= Main
  BY RunnersRange DEF TypeOK, ControlOK, ContextOK, SizesInv, SizeInv, ActiveWorkers, NbWorkers

(* A step that takes no job, begins nothing and ends nothing.              *)
LEMMA Unmoved ==
  ASSUME TypeOK, BatchInv, InBatch, InBatch', UNCHANGED <<ran, r>>,
         ctx'.nb_jobs = ctx.nb_jobs, ctx'.nb_active = ctx.nb_active,
         ctx'.first_job = ctx.first_job, ctx'.current_job = ctx.current_job,
         \A x \in Runners : /\ Pending(x)' <=> Pending(x)
                            /\ pc'[x] = "job" <=> pc[x] = "job"
                            /\ pc'[x] = "next" <=> pc[x] = "next"
  PROVE  CountInv' /\ TakenInv' /\ \A x \in Runners : JobInv(x)' /\ \A y \in Runners : PairInv(x, y)'
<1>1. \A x \in Runners : Running(x)' <=> Running(x)
  BY DEF Running
<1>2. ToBegin' = ToBegin /\ ToFail' = ToFail
  BY <1>1 DEF ToBegin, ToFail
<1>3. InJob' = InJob /\ Taken' = Taken
  BY DEF InJob, Taken
<1>4. CountInv'
  BY <1>2 DEF BatchInv, CountInv
<1>5. TakenInv'
  BY <1>3 DEF BatchInv, TakenInv
<1>6. ASSUME NEW x \in Runners, NEW y \in Runners
      PROVE  JobInv(x)' /\ PairInv(x, y)'
  <2>1. JobInv(x) /\ PairInv(x, y)
    BY DEF BatchInv
  <2>2. JobInv(x)'
    BY <1>1, <1>3, <2>1 DEF JobInv
  <2>3. PairInv(x, y)'
    BY <1>1, <2>1 DEF PairInv
  <2> QED BY <2>2, <2>3
<1> QED BY <1>4, <1>5, <1>6

(* Outside of a batch only two parts of the invariant say anything. *)
LEMMA OffBatch ==
  ASSUME ~InBatch', OffInv', \A t \in Workers : RestInv(t)'
  PROVE  BatchInv'
<1>1. pc'[Main] # "wake"
  BY DEF InBatch
<1>2. SizeInv' /\ CountInv' /\ TakenInv' /\ DoneInv'
  BY DEF SizeInv, CountInv, TakenInv, DoneInv
<1>3. \A x \in Runners : JobInv(x)' /\ LastInv(x)' /\ \A y \in Runners : PairInv(x, y)'
  BY DEF JobInv, LastInv, PairInv
<1>4. \A t \in Workers : RestsInv(t)'
  BY <1>1 DEF RestsInv
<1> QED BY <1>2, <1>3, <1>4 DEF BatchInv

(* And in a batch the others say nothing. *)
LEMMA InBatchNow ==
  ASSUME InBatch', SizeInv', CountInv', TakenInv', DoneInv',
         \A x \in Runners : JobInv(x)' /\ LastInv(x)' /\ \A y \in Runners : PairInv(x, y)',
         \A t \in Workers : RestsInv(t)'
  PROVE  BatchInv'
  BY DEF BatchInv, OffInv, RestInv

(* One lemma per action now: it keeps what is known of the batch.  A worker *)
(* that goes back to wait has nothing to do with the batch any more.       *)
LEMMA ParkKeeps == ASSUME IInv, NEW t \in Workers, Park(t) PROVE BatchInv'
<1>1. /\ t # Main /\ t \in Runners /\ Main \in Runners /\ \A u \in Workers : u # Main /\ u \in Runners
      /\ pc = [x \in Runners |-> pc[x]] /\ wdone = [u \in Workers |-> wdone[u]]
      /\ WorkerInv(t) /\ BatchInv /\ TypeOK
  BY RunnersAre DEF IInv, PoolInv, TypeOK, ControlOK, LabelsOK
<1>2. /\ pc[t] \in {"start", "park"} /\ pc'[t] = "wait" /\ wdone'[t]
      /\ \A x \in Runners : x # t => pc'[x] = pc[x]
      /\ \A u \in Workers : u # t => wdone'[u] = wdone[u]
      /\ UNCHANGED <<i, ctx, r, ran>>
  BY <1>1 DEF Park, Goto
<1>3. InBatch' <=> InBatch
  BY <1>1, <1>2 DEF InBatch
<1>4. CASE InBatch
  <2>1. pc[t] = "park"
    BY <1>1, <1>2, <1>4 DEF WorkerInv, InBatch, Creating
  <2>2. ASSUME NEW x \in Runners
        PROVE  /\ Pending(x)' <=> Pending(x)
               /\ pc'[x] = "job" <=> pc[x] = "job"
               /\ pc'[x] = "next" <=> pc[x] = "next"
               /\ Last(x)' <=> Last(x)
    BY <1>1, <1>2, <2>1, RunnersAre DEF Pending, Last, ActiveWorkers
  <2>3. CountInv' /\ TakenInv' /\ \A x \in Runners : JobInv(x)' /\ \A y \in Runners : PairInv(x, y)'
    BY <1>1, <1>2, <1>3, <1>4, <2>2, Unmoved
  <2>4. SizeInv' /\ DoneInv'
    BY <1>1, <1>2, <1>4 DEF BatchInv, SizeInv, DoneInv, Over, InBatch, ActiveWorkers
  <2>5. ASSUME NEW x \in Runners PROVE LastInv(x)'
    <3>1. LastInv(x)
      BY <1>1 DEF BatchInv
    <3> QED BY <1>2, <1>4, <2>2, <3>1 DEF LastInv, Over
  <2>6. ASSUME NEW u \in Workers PROVE RestsInv(u)'
    <3>1. RestsInv(u)
      BY <1>1 DEF BatchInv
    <3> QED BY <1>1, <1>2, <3>1 DEF RestsInv, Rests, Parked
  <2> QED BY <1>3, <1>4, <2>3, <2>4, <2>5, <2>6, InBatchNow
<1>5. CASE ~InBatch
  <2>1. OffInv'
    BY <1>1, <1>2, <1>5 DEF BatchInv, OffInv, AllRan
  <2>2. ASSUME NEW u \in Workers PROVE RestInv(u)'
    <3>1. RestInv(u)
      BY <1>1 DEF BatchInv
    <3> QED BY <1>1, <1>2, <1>5, <3>1 DEF RestInv, Last
  <2> QED BY <1>3, <1>5, <2>1, <2>2, OffBatch
<1> QED BY <1>4, <1>5

(* A worker that leaves its wait begins the batch if it was to begin it.   *)
LEMMA WakeUpKeeps == ASSUME IInv, NEW t \in Workers, WakeUp(t) PROVE BatchInv'
<1>1. /\ t # Main /\ t \in Runners /\ Main \in Runners /\ \A u \in Workers : u # Main /\ u \in Runners
      /\ pc = [x \in Runners |-> pc[x]]
      /\ SizesInv /\ RestsInv(t) /\ RestInv(t) /\ BatchInv /\ TypeOK
  BY RunnersAre DEF IInv, PoolInv, BatchInv, TypeOK, ControlOK, LabelsOK
<1>2. /\ pc[t] = "wait"
      /\ \/ wdone[t] /\ pc'[t] = "wait"
         \/ ~wdone[t] /\ ctx.finished /\ pc'[t] = "exit"
         \/ ~wdone[t] /\ ~ctx.finished /\ pc'[t] = "begin"
      /\ \A x \in Runners : x # t => pc'[x] = pc[x]
      /\ UNCHANGED <<i, ctx, r, wdone, ran>>
  BY <1>1 DEF WakeUp, Goto
<1>3. InBatch' <=> InBatch
  BY <1>1, <1>2 DEF InBatch
<1>4. CASE InBatch
  <2>1. ~ctx.finished
    BY <1>1, <1>4 DEF SizesInv, InBatch
  <2>2. ASSUME NEW x \in Runners
        PROVE  /\ Pending(x)' <=> Pending(x)
               /\ pc'[x] = "job" <=> pc[x] = "job"
               /\ pc'[x] = "next" <=> pc[x] = "next"
               /\ Last(x)' <=> Last(x)
    BY <1>1, <1>2, <2>1, RunnersAre DEF Pending, Last, ActiveWorkers
  <2>3. CountInv' /\ TakenInv' /\ \A x \in Runners : JobInv(x)' /\ \A y \in Runners : PairInv(x, y)'
    BY <1>1, <1>2, <1>3, <1>4, <2>2, Unmoved
  <2>4. SizeInv' /\ DoneInv'
    BY <1>1, <1>2, <1>4 DEF BatchInv, SizeInv, DoneInv, Over, InBatch, ActiveWorkers
  <2>5. ASSUME NEW x \in Runners PROVE LastInv(x)'
    <3>1. LastInv(x)
      BY <1>1 DEF BatchInv
    <3> QED BY <1>2, <1>4, <2>2, <3>1 DEF LastInv, Over
  <2>6. ASSUME NEW u \in Workers PROVE RestsInv(u)'
    <3>1. RestsInv(u)
      BY <1>1 DEF BatchInv
    <3> QED BY <1>1, <1>2, <3>1 DEF RestsInv, Rests, Parked
  <2> QED BY <1>3, <1>4, <2>3, <2>4, <2>5, <2>6, InBatchNow
<1>5. CASE ~InBatch
  <2>1. OffInv'
    BY <1>1, <1>2, <1>5 DEF BatchInv, OffInv, AllRan
  <2>2. ASSUME NEW u \in Workers PROVE RestInv(u)'
    <3>1. RestInv(u)
      BY <1>1 DEF BatchInv
    <3> QED BY <1>1, <1>2, <1>5, <3>1 DEF RestInv, Last
  <2> QED BY <1>3, <1>5, <2>1, <2>2, OffBatch
<1> QED BY <1>4, <1>5

(* Only the thread that made the last attempt sets done.                   *)
LEMMA NotifyKeeps == ASSUME IInv, NEW t \in Workers, Notify(t) PROVE BatchInv'
<1>1. /\ t # Main /\ t \in Runners /\ Main \in Runners /\ \A u \in Workers : u # Main /\ u \in Runners
      /\ pc = [x \in Runners |-> pc[x]] /\ ContextOK
      /\ LastInv(t) /\ RestInv(t) /\ BatchInv /\ TypeOK
  BY RunnersAre DEF IInv, PoolInv, BatchInv, TypeOK, ControlOK, LabelsOK
<1>2. /\ pc[t] = "ran" /\ pc'[t] = "park"
      /\ ctx' = IF r[t].last THEN [ctx EXCEPT !.done = TRUE] ELSE ctx
      /\ \A x \in Runners : x # t => pc'[x] = pc[x]
      /\ UNCHANGED <<i, r, wdone, ran>>
  BY <1>1 DEF Notify, Goto, pool
<1>3. /\ ctx'.nb_jobs = ctx.nb_jobs /\ ctx'.nb_active = ctx.nb_active
      /\ ctx'.first_job = ctx.first_job /\ ctx'.current_job = ctx.current_job
      /\ ctx'.main = ctx.main /\ ctx'.nb_threads = ctx.nb_threads /\ ctx'.finished = ctx.finished
      /\ ctx'.done <=> (r[t].last \/ ctx.done)
  BY <1>1, <1>2 DEF ContextOK
<1>4. InBatch' <=> InBatch
  BY <1>1, <1>2 DEF InBatch
<1>5. CASE InBatch
  <2>2. ASSUME NEW x \in Runners
        PROVE  /\ Pending(x)' <=> Pending(x)
               /\ pc'[x] = "job" <=> pc[x] = "job"
               /\ pc'[x] = "next" <=> pc[x] = "next"
               /\ Last(x)' <=> x # t /\ Last(x)
    BY <1>1, <1>2, <1>3, RunnersAre DEF Pending, Last, ActiveWorkers
  <2>3. CountInv' /\ TakenInv' /\ \A x \in Runners : JobInv(x)' /\ \A y \in Runners : PairInv(x, y)'
    BY <1>1, <1>2, <1>3, <1>4, <1>5, <2>2, Unmoved
  <2>4. SizeInv'
    BY <1>1, <1>2, <1>3, <1>5 DEF BatchInv, SizeInv, InBatch, ActiveWorkers
  <2>5. DoneInv'
    BY <1>1, <1>2, <1>3, <1>5 DEF BatchInv, DoneInv, LastInv, Last, Over
  <2>6. ASSUME NEW x \in Runners PROVE LastInv(x)'
    <3>1. LastInv(x)
      BY <1>1 DEF BatchInv
    <3>2. Last(x)' => ~Last(t)
      BY <1>1, <1>5, <2>2, <3>1 DEF LastInv
    <3> QED BY <1>1, <1>2, <1>3, <1>5, <2>2, <3>1, <3>2 DEF LastInv, Over, Last
  <2>7. ASSUME NEW u \in Workers PROVE RestsInv(u)'
    <3>1. RestsInv(u)
      BY <1>1 DEF BatchInv
    <3> QED BY <1>1, <1>2, <3>1 DEF RestsInv, Rests, Parked
  <2> QED BY <1>4, <1>5, <2>3, <2>4, <2>5, <2>6, <2>7, InBatchNow
<1>6. CASE ~InBatch
  <2>1. OffInv'
    BY <1>1, <1>2, <1>3, <1>6 DEF BatchInv, OffInv, AllRan, RestInv, Last
  <2>2. ASSUME NEW u \in Workers PROVE RestInv(u)'
    <3>1. RestInv(u)
      BY <1>1 DEF BatchInv
    <3> QED BY <1>1, <1>2, <1>3, <1>6, <3>1 DEF RestInv, Last
  <2> QED BY <1>4, <1>6, <2>1, <2>2, OffBatch
<1> QED BY <1>5, <1>6

(* A thread that begins takes the next first job, which was not taken yet. *)
LEMMA BeginKeeps == ASSUME IInv, NEW x \in Runners, Begin(x) PROVE BatchInv'
<1>1. /\ Main \in Runners /\ \A u \in Workers : u # Main /\ u \in Runners
      /\ \A y \in Runners : y # Main => y \in Workers
      /\ pc = [y \in Runners |-> pc[y]] /\ LocalsOK /\ ContextOK
      /\ BatchInv /\ TypeOK
  BY RunnersAre DEF IInv, TypeOK, ControlOK, LabelsOK
<1>2. /\ pc[x] = "begin" /\ pc'[x] = "job"
      /\ \A y \in Runners : y # x => pc'[y] = pc[y] /\ r'[y] = r[y]
      /\ r'[x] = [first |-> ctx.first_job, job |-> ctx.first_job, nb_jobs |-> ctx.nb_jobs,
                  nb_active |-> ctx.nb_active, last |-> FALSE]
      /\ ctx' = [ctx EXCEPT !.first_job = @ + 1]
      /\ UNCHANGED <<i, wdone, ran>>
  BY <1>1 DEF Begin, Goto, pool, LocalsOK
<1>3. /\ ctx'.nb_jobs = ctx.nb_jobs /\ ctx'.nb_active = ctx.nb_active
      /\ ctx'.first_job = ctx.first_job + 1 /\ ctx'.current_job = ctx.current_job
      /\ ctx'.main = ctx.main /\ ctx'.nb_threads = ctx.nb_threads /\ ctx'.done = ctx.done
      /\ {ctx.nb_jobs, ctx.nb_active, ctx.first_job, ctx.current_job} \subseteq Nat
  BY <1>1, <1>2 DEF ContextOK
<1>4. InBatch /\ InBatch'
  BY <1>1, <1>2 DEF InBatch, BatchInv, RestInv
<1>5. SizeInv /\ CountInv /\ TakenInv /\ DoneInv /\ ctx.nb_active > 0
      /\ ctx.nb_active <= ctx.nb_jobs /\ ctx.nb_active <= ctx.current_job
  BY <1>1, <1>4 DEF BatchInv, SizeInv
<1>6. x \in ToBegin /\ ToBegin' = ToBegin \ {x} /\ ToFail' = ToFail
  <2>1. \A y \in Runners : y # x => (Pending(y)' <=> Pending(y)) /\ (Running(y)' <=> Running(y))
    BY <1>1, <1>2, <1>3 DEF Pending, Running, ActiveWorkers
  <2>2. x # Main => pc[Main] # "wake" \/ ~(i <= x)
    <3>1. x # Main /\ x >= i /\ pc[Main] = "wake" => Rests(x)
      BY <1>1 DEF BatchInv, RestsInv
    <3>2. i \in Int /\ x \in Int
      BY <1>1, RunnersRange DEF TypeOK, ControlOK
    <3> QED BY <1>2, <3>1, <3>2 DEF Rests, Parked
  <2>3. Pending(x) /\ ~Pending(x)' /\ Running(x)'
    BY <1>1, <1>2, <2>2 DEF Pending, Running
  <2> QED BY <2>1, <2>3 DEF ToBegin, ToFail
<1>7. IsFiniteSet(ToBegin) /\ ctx.first_job < ctx.nb_active
  <2>1. IsFiniteSet(ToBegin) /\ ctx.first_job <= ctx.nb_active
    BY <1>1, <1>4, <1>5, CountBounds
  <2>2. ctx.first_job # ctx.nb_active
    BY <1>3, <1>4, <1>5, <1>6, <2>1, FS_EmptySet DEF CountInv
  <2> QED BY <1>3, <2>1, <2>2
<1>8. CountInv'
  <2>1. Cardinality(ToBegin \ {x}) = Cardinality(ToBegin) - 1
    BY <1>6, <1>7, FS_RemoveElement
  <2> QED BY <1>3, <1>4, <1>5, <1>6, <2>1 DEF CountInv
<1>9. ctx.first_job \notin Taken /\ Taken' = Taken \cup {ctx.first_job}
  BY <1>3, <1>5, <1>7 DEF Taken
<1>10. TakenInv'
  <2>1. InJob' = InJob \cup {x} /\ x \notin InJob
    BY <1>1, <1>2 DEF InJob
  <2>2. r'[x].job = ctx.first_job /\ \A y \in InJob : r'[y].job = r[y].job
    BY <1>2, <2>1 DEF InJob
  <2>3. {r'[y].job : y \in InJob'} = {r[y].job : y \in InJob} \cup {ctx.first_job}
    BY <2>1, <2>2
  <2> QED BY <1>2, <1>4, <1>5, <1>9, <2>3 DEF TakenInv
<1>11. SizeInv' /\ DoneInv'
  BY <1>1, <1>2, <1>3, <1>4, <1>5 DEF SizeInv, DoneInv, Over, InBatch, ActiveWorkers
<1>12. ASSUME NEW y \in Runners PROVE JobInv(y)' /\ LastInv(y)'
  <2>1. JobInv(y) /\ LastInv(y)
    BY <1>1 DEF BatchInv
  <2>2. \A z \in Runners : Last(z)' <=> z # x /\ Last(z)
    BY <1>2 DEF Last
  <2>3. LastInv(y)'
    BY <1>3, <1>4, <2>1, <2>2 DEF LastInv, Over
  <2>4. ctx.first_job \notin ran
    BY <1>4, <1>5, <1>9 DEF TakenInv
  <2>5. CASE y = x
    BY <1>2, <1>3, <1>9, <2>4, <2>3, <2>5 DEF JobInv
  <2>6. CASE y # x
    <3>1. r[y].first \in Nat
      BY <1>1 DEF LocalsOK
    <3> QED BY <1>2, <1>3, <1>4, <1>9, <2>1, <2>3, <2>6, <3>1 DEF JobInv, Running
  <2> QED BY <2>5, <2>6
<1>13. ASSUME NEW y \in Runners, NEW z \in Runners PROVE PairInv(y, z)'
  <2>1. PairInv(y, z) /\ JobInv(y) /\ JobInv(z)
    BY <1>1 DEF BatchInv
  <2>2. \A u \in Runners : u # x /\ Running(u) => r[u].first # ctx.first_job
                             /\ (pc[u] = "job" => r[u].job # ctx.first_job)
    <3> SUFFICES ASSUME NEW u \in Runners, u # x, Running(u)
                 PROVE  r[u].first # ctx.first_job /\ (pc[u] = "job" => r[u].job # ctx.first_job)
      OBVIOUS
    <3>1. JobInv(u) /\ r[u].first \in Nat
      BY <1>1 DEF BatchInv, LocalsOK
    <3> QED BY <1>3, <1>4, <1>9, <3>1 DEF JobInv
  <2>3. r'[x].first = ctx.first_job /\ r'[x].job = ctx.first_job
    BY <1>2
  <2> QED BY <1>2, <1>4, <2>1, <2>2, <2>3 DEF PairInv, Running
<1>14. ASSUME NEW u \in Workers PROVE RestsInv(u)'
  <2>1. RestsInv(u)
    BY <1>1 DEF BatchInv
  <2> QED BY <1>1, <1>2, <1>3, <2>1 DEF RestsInv, Rests, Parked
<1> QED BY <1>4, <1>8, <1>10, <1>11, <1>12, <1>13, <1>14, InBatchNow

(* A job that has been run is not run by anyone else.                      *)
LEMMA RunJobKeeps == ASSUME IInv, NEW x \in Runners, RunJob(x) PROVE BatchInv'
<1>1. /\ Main \in Runners /\ \A u \in Workers : u # Main /\ u \in Runners
      /\ \A y \in Runners : y # Main => y \in Workers
      /\ pc = [y \in Runners |-> pc[y]] /\ BatchInv /\ TypeOK
  BY RunnersAre DEF IInv, TypeOK, ControlOK, LabelsOK
<1>2. /\ pc[x] = "job" /\ pc'[x] = "next" /\ ran' = ran \cup {r[x].job}
      /\ \A y \in Runners : y # x => pc'[y] = pc[y]
      /\ UNCHANGED <<i, ctx, r, wdone>>
  BY <1>1 DEF RunJob, Goto, pool
<1>3. InBatch /\ InBatch'
  BY <1>1, <1>2 DEF InBatch, BatchInv, RestInv
<1>4. ASSUME NEW y \in Runners
      PROVE  (Pending(y)' <=> Pending(y)) /\ (Running(y)' <=> Running(y)) /\ (Last(y)' <=> Last(y))
  BY <1>1, <1>2 DEF Pending, Running, Last, ActiveWorkers
<1>5. CountInv'
  <2>1. ToBegin' = ToBegin /\ ToFail' = ToFail
    BY <1>4 DEF ToBegin, ToFail
  <2> QED BY <1>1, <1>2, <1>3, <2>1 DEF BatchInv, CountInv
<1>6. Taken' = Taken
  BY <1>2 DEF Taken
<1>7. TakenInv'
  <2>1. InJob = InJob' \cup {x}
    BY <1>2 DEF InJob
  <2>2. {r[y].job : y \in InJob} = {r[y].job : y \in InJob'} \cup {r[x].job}
    BY <2>1
  <2>3. Taken = ran \cup {r[y].job : y \in InJob}
    BY <1>1, <1>3 DEF BatchInv, TakenInv
  <2> QED BY <1>2, <1>6, <2>2, <2>3 DEF TakenInv
<1>8. SizeInv' /\ DoneInv'
  BY <1>1, <1>2, <1>3 DEF BatchInv, SizeInv, DoneInv, Over, InBatch, ActiveWorkers
<1>9. ASSUME NEW y \in Runners PROVE JobInv(y)' /\ LastInv(y)' /\ \A z \in Runners : PairInv(y, z)'
  <2>1. JobInv(y) /\ LastInv(y) /\ PairInv(y, x) /\ \A z \in Runners : PairInv(y, z)
    BY <1>1 DEF BatchInv
  <2>2. LastInv(y)'
    BY <1>2, <1>3, <1>4, <2>1 DEF LastInv, Over
  <2>3. JobInv(y)'
    BY <1>2, <1>3, <1>4, <1>6, <2>1 DEF JobInv, PairInv, Running
  <2>4. ASSUME NEW z \in Runners PROVE PairInv(y, z)'
    BY <1>2, <1>3, <2>1 DEF PairInv, Running
  <2> QED BY <2>2, <2>3, <2>4
<1>10. ASSUME NEW u \in Workers PROVE RestsInv(u)'
  <2>1. RestsInv(u)
    BY <1>1 DEF BatchInv
  <2> QED BY <1>1, <1>2, <2>1 DEF RestsInv, Rests, Parked
<1> QED BY <1>3, <1>5, <1>7, <1>8, <1>9, <1>10, InBatchNow

(* An attempt at the counter takes a fresh job, or is the last of its      *)
(* thread, and, when it is the last of all, leaves nobody else in a job.   *)
LEMMA TakeNextKeeps == ASSUME IInv, NEW x \in Runners, TakeNext(x) PROVE BatchInv'
<1>1. /\ Main \in Runners /\ \A u \in Workers : u # Main /\ u \in Runners
      /\ \A y \in Runners : y # Main => y \in Workers
      /\ pc = [y \in Runners |-> pc[y]] /\ LocalsOK /\ ContextOK
      /\ BatchInv /\ TypeOK
  BY RunnersAre DEF IInv, TypeOK, ControlOK, LabelsOK
<1>2. /\ pc[x] = "next"
      /\ pc'[x] = IF ctx.current_job < r[x].nb_jobs THEN "job" ELSE "ran"
      /\ \A y \in Runners : y # x => pc'[y] = pc[y] /\ r'[y] = r[y]
      /\ r'[x].job = ctx.current_job /\ r'[x].first = r[x].first
      /\ r'[x].nb_jobs = r[x].nb_jobs /\ r'[x].nb_active = r[x].nb_active
      /\ r'[x].last <=> IsLast(x)
      /\ ctx' = [ctx EXCEPT !.current_job = @ + 1]
      /\ UNCHANGED <<i, wdone, ran>>
  BY <1>1 DEF TakeNext, Goto, pool, LocalsOK
<1>3. /\ ctx'.nb_jobs = ctx.nb_jobs /\ ctx'.nb_active = ctx.nb_active
      /\ ctx'.first_job = ctx.first_job /\ ctx'.current_job = ctx.current_job + 1
      /\ ctx'.main = ctx.main /\ ctx'.nb_threads = ctx.nb_threads /\ ctx'.done = ctx.done
      /\ {ctx.nb_jobs, ctx.nb_active, ctx.first_job, ctx.current_job} \subseteq Nat
  BY <1>1, <1>2 DEF ContextOK
<1>4. InBatch /\ InBatch'
  BY <1>1, <1>2 DEF InBatch, BatchInv, RestInv
<1>5. /\ SizeInv /\ CountInv /\ TakenInv /\ DoneInv /\ JobInv(x) /\ ctx.nb_active > 0
      /\ ctx.nb_active <= ctx.nb_jobs /\ ctx.nb_active <= ctx.current_job
      /\ r[x].nb_jobs = ctx.nb_jobs /\ r[x].nb_active = ctx.nb_active
  BY <1>1, <1>2, <1>4 DEF BatchInv, SizeInv, JobInv, Running
<1>6. /\ x \in ToFail /\ ToBegin' = ToBegin
      /\ ToFail' = IF ctx.current_job < ctx.nb_jobs THEN ToFail ELSE ToFail \ {x}
  <2>1. \A y \in Runners : y # x => (Pending(y)' <=> Pending(y)) /\ (Running(y)' <=> Running(y))
    BY <1>1, <1>2, <1>3 DEF Pending, Running, ActiveWorkers
  <2>2. x # Main => pc[Main] # "wake" \/ ~(i <= x)
    <3>1. x # Main /\ x >= i /\ pc[Main] = "wake" => Rests(x)
      BY <1>1 DEF BatchInv, RestsInv
    <3>2. i \in Int /\ x \in Int
      BY <1>1, RunnersRange DEF TypeOK, ControlOK
    <3> QED BY <1>2, <3>1, <3>2 DEF Rests, Parked
  <2>3. ~Pending(x) /\ ~Pending(x)' /\ Running(x) /\ (Running(x)' <=> ctx.current_job < ctx.nb_jobs)
    BY <1>1, <1>2, <1>5, <2>2 DEF Pending, Running
  <2> QED BY <2>1, <2>3 DEF ToBegin, ToFail
<1>7. /\ IsFiniteSet(ToFail) /\ ctx.first_job <= ctx.nb_active
      /\ ctx.current_job < ctx.nb_jobs + ctx.nb_active /\ ~Over
  <2>1. IsFiniteSet(ToFail) /\ ctx.first_job <= ctx.nb_active
        /\ ctx.current_job <= ctx.nb_jobs + ctx.nb_active /\ (Over => ToFail = {})
    BY <1>1, <1>4, <1>5, CountBounds
  <2> QED BY <1>3, <1>6, <2>1 DEF Over
<1>8. CountInv'
  <2>1. Cardinality(ToFail \ {x}) = Cardinality(ToFail) - 1
    BY <1>6, <1>7, FS_RemoveElement
  <2> QED BY <1>3, <1>4, <1>5, <1>6, <2>1 DEF CountInv
<1>9. /\ ctx.current_job \notin Taken
      /\ Taken' = IF ctx.current_job < ctx.nb_jobs THEN Taken \cup {ctx.current_job} ELSE Taken
  BY <1>3, <1>5, <1>7 DEF Taken
<1>10. TakenInv'
  <2>1. InJob' = (IF ctx.current_job < ctx.nb_jobs THEN InJob \cup {x} ELSE InJob) /\ x \notin InJob
    BY <1>1, <1>2, <1>5 DEF InJob
  <2>2. r'[x].job = ctx.current_job /\ \A y \in InJob : r'[y].job = r[y].job
    BY <1>2, <2>1 DEF InJob
  <2>3. {r'[y].job : y \in InJob'} = {r[y].job : y \in InJob}
          \cup (IF ctx.current_job < ctx.nb_jobs THEN {ctx.current_job} ELSE {})
    BY <2>1, <2>2
  <2> QED BY <1>2, <1>4, <1>5, <1>9, <2>3 DEF TakenInv
<1>11. ~ctx.done /\ \A y \in Runners : ~Last(y)
  BY <1>1, <1>4, <1>5, <1>7 DEF BatchInv, DoneInv, LastInv
<1>12. /\ Over' <=> ctx.current_job + 1 >= ctx.nb_jobs + ctx.nb_active
       /\ r'[x].last => Over' /\ pc'[x] = "ran"
  BY <1>2, <1>3, <1>5 DEF Over, IsLast
<1>13. SizeInv' /\ DoneInv'
  BY <1>1, <1>2, <1>3, <1>4, <1>5, <1>11, <1>12 DEF SizeInv, DoneInv, InBatch, ActiveWorkers
<1>14. ASSUME NEW y \in Runners PROVE JobInv(y)' /\ LastInv(y)'
  <2>1. JobInv(y)
    BY <1>1 DEF BatchInv
  <2>2. \A z \in Runners : Last(z)' => z = x
    BY <1>2, <1>11 DEF Last
  <2>3. LastInv(y)'
    BY <1>3, <1>11, <1>12, <2>2 DEF LastInv, Last
  <2>4. ctx.current_job \notin ran
    BY <1>4, <1>5, <1>9 DEF TakenInv
  <2>5. CASE y = x
    BY <1>2, <1>3, <1>4, <1>5, <1>9, <2>1, <2>3, <2>4, <2>5 DEF JobInv, Running
  <2>6. CASE y # x
    BY <1>2, <1>3, <1>4, <1>9, <2>1, <2>3, <2>6 DEF JobInv, Running
  <2> QED BY <2>5, <2>6
<1>15. ASSUME NEW y \in Runners, NEW z \in Runners PROVE PairInv(y, z)'
  <2>1. PairInv(y, z)
    BY <1>1 DEF BatchInv
  <2>2. ASSUME NEW u \in Runners, u # x, pc[u] = "job" PROVE r[u].job # ctx.current_job
    <3>1. JobInv(u)
      BY <1>1 DEF BatchInv
    <3> QED BY <1>4, <1>9, <2>2, <3>1 DEF JobInv, Running
  <2> QED BY <1>2, <1>4, <2>1, <2>2 DEF PairInv, Running
<1>16. ASSUME NEW u \in Workers PROVE RestsInv(u)'
  <2>1. RestsInv(u)
    BY <1>1 DEF BatchInv
  <2> QED BY <1>1, <1>2, <1>3, <2>1 DEF RestsInv, Rests, Parked
<1> QED BY <1>4, <1>8, <1>10, <1>13, <1>14, <1>15, <1>16, InBatchNow

(* A step that only touches the condition variables leaves it alone.       *)
LEMMA StillKeeps == ASSUME BatchInv, UNCHANGED <<pc, i, ctx, r, wdone, ran>> PROVE BatchInv'
<1>1. (InBatch' <=> InBatch) /\ InJob' = InJob /\ Taken' = Taken /\ (Over' <=> Over)
  BY DEF InBatch, InJob, Taken, Over
<1>2. CountInv' /\ SizeInv' /\ TakenInv' /\ DoneInv' /\ OffInv'
  <2>1. ToBegin' = ToBegin /\ ToFail' = ToFail
    BY DEF ToBegin, ToFail, Pending, Running, ActiveWorkers
  <2> QED BY <1>1, <2>1 DEF BatchInv, CountInv, SizeInv, TakenInv, DoneInv, OffInv, AllRan, ActiveWorkers
<1>3. ASSUME NEW x \in Runners, NEW y \in Runners PROVE JobInv(x)' /\ LastInv(x)' /\ PairInv(x, y)'
  BY DEF BatchInv, JobInv, LastInv, PairInv, InBatch, Running, Taken, Over, Last
<1>4. ASSUME NEW t \in Workers PROVE RestsInv(t)' /\ RestInv(t)'
  BY DEF BatchInv, RestsInv, RestInv, Rests, Parked, InBatch, Last
<1> QED BY <1>2, <1>3, <1>4 DEF BatchInv

(* Main wakes workers that wait: who is woken has still to begin.          *)
LEMMA WakeKeeps == ASSUME IInv, Wake PROVE BatchInv'
<1>1. /\ Main \in Runners /\ \A u \in Workers : u # Main /\ u \in Runners /\ u \in Int
      /\ \A y \in Runners : y # Main => y \in Workers
      /\ pc = [y \in Runners |-> pc[y]] /\ wdone = [u \in Workers |-> wdone[u]]
      /\ BatchInv /\ TypeOK /\ SizesInv /\ i \in Nat
  BY RunnersAre, RunnersRange DEF IInv, PoolInv, TypeOK, ControlOK, LabelsOK
<1>2. InBatch /\ pc[Main] = "wake" /\ UNCHANGED <<ctx, r, ran>>
  BY DEF Wake, InBatch
<1>3. /\ ActiveWorkers \in Nat /\ ActiveWorkers <= NbWorkers /\ NbWorkers <= Main
      /\ i <= ActiveWorkers /\ ActiveWorkers' = ActiveWorkers
  BY <1>1, <1>2, ActiveBound DEF BatchInv, SizeInv, ActiveWorkers
<1>4. CASE i < ActiveWorkers
  <2>1. i \in Workers /\ i # Main
    <3>1. i < Main /\ Main \in Nat /\ Workers = 0 .. Main - 1
      BY <1>1, <1>3, <1>4, RunnersRange DEF TypeOK, ControlOK, ContextOK, NbWorkers
    <3> QED BY <1>1, <3>1
  <2>2. /\ mutex[i] = None /\ i' = i + 1 /\ pc' = pc /\ ~wdone'[i]
        /\ \A u \in Workers : u # i => wdone'[u] = wdone[u]
    BY <1>1, <1>4, <2>1 DEF Wake, Rouse
  <2>3. pc[i] = "wait" /\ wdone[i]
    <3>1. WorkerInv(i) /\ MutexInv(i) /\ RestsInv(i)
      BY <1>1, <2>1 DEF IInv, PoolInv, BatchInv
    <3>2. pc[i] # "none"
      BY <1>1, <1>2, <1>3, <1>4, <3>1 DEF WorkerInv, Creating, NbWorkers, ContextOK, TypeOK, ControlOK
    <3>3. i # None
      BY <1>1 DEF None
    <3> QED BY <1>1, <1>2, <2>2, <3>1, <3>2, <3>3 DEF MutexInv, RestsInv, Rests, Parked
  <2>4. InBatch'
    BY <1>2, <2>2 DEF InBatch
  <2>5. ASSUME NEW x \in Runners
        PROVE  /\ Pending(x)' <=> Pending(x)
               /\ pc'[x] = "job" <=> pc[x] = "job"
               /\ pc'[x] = "next" <=> pc[x] = "next"
               /\ Last(x)' <=> Last(x)
    <3>1. CASE x = Main
      BY <1>2, <2>2, <3>1 DEF Pending, Last
    <3>2. CASE x = i
      <4>1. i <= i /\ ~(i + 1 <= i)
        BY <1>1
      <4> QED BY <1>2, <1>4, <2>1, <2>2, <2>3, <3>2, <4>1 DEF Pending, Last
    <3>3. CASE x # Main /\ x # i
      <4>1. x \in Workers /\ x \in Int /\ (i + 1 <= x <=> i <= x) /\ wdone'[x] = wdone[x]
        BY <1>1, <2>2, <3>3
      <4> QED BY <1>2, <1>3, <2>2, <3>3, <4>1 DEF Pending, Last
    <3> QED BY <3>1, <3>2, <3>3
  <2>6. CountInv' /\ TakenInv' /\ \A x \in Runners : JobInv(x)' /\ \A y \in Runners : PairInv(x, y)'
    BY <1>1, <1>2, <2>4, <2>5, Unmoved
  <2>7. SizeInv' /\ DoneInv'
    BY <1>1, <1>2, <1>3, <1>4, <2>2, <2>4 DEF BatchInv, SizeInv, DoneInv, Over
  <2>8. ASSUME NEW x \in Runners PROVE LastInv(x)'
    <3>1. LastInv(x)
      BY <1>1 DEF BatchInv
    <3> QED BY <1>2, <2>5, <3>1 DEF LastInv, Over
  <2>9. ASSUME NEW u \in Workers PROVE RestsInv(u)'
    <3>1. RestsInv(u) /\ (u >= i + 1 => u >= i /\ u # i)
      BY <1>1 DEF BatchInv
    <3> QED BY <1>1, <1>2, <2>2, <3>1 DEF RestsInv, Rests, Parked
  <2> QED BY <2>4, <2>6, <2>7, <2>8, <2>9, InBatchNow
<1>5. CASE ~(i < ActiveWorkers)
  <2>1. /\ pc'[Main] = IF ctx.main THEN "main_func" ELSE "begin"
        /\ \A x \in Runners : x # Main => pc'[x] = pc[x]
        /\ UNCHANGED <<i, wdone>>
    BY <1>1, <1>5 DEF Wake, Goto
  <2>2. InBatch'
    BY <2>1 DEF InBatch
  <2>3. ASSUME NEW x \in Runners
        PROVE  /\ Pending(x)' <=> Pending(x)
               /\ pc'[x] = "job" <=> pc[x] = "job"
               /\ pc'[x] = "next" <=> pc[x] = "next"
               /\ Last(x)' <=> Last(x)
    <3>1. CASE x = Main
      BY <1>2, <2>1, <3>1 DEF Pending, Last
    <3>2. CASE x # Main
      <4>1. x \in Int /\ ~(i <= x /\ x < ActiveWorkers)
        BY <1>1, <1>3, <1>5, <3>2
      <4> QED BY <1>2, <2>1, <3>2, <4>1 DEF Pending, Last
    <3> QED BY <3>1, <3>2
  <2>4. CountInv' /\ TakenInv' /\ \A x \in Runners : JobInv(x)' /\ \A y \in Runners : PairInv(x, y)'
    BY <1>1, <1>2, <2>2, <2>3, Unmoved
  <2>5. SizeInv' /\ DoneInv'
    BY <1>1, <1>2, <1>3, <2>1, <2>2 DEF BatchInv, SizeInv, DoneInv, Over
  <2>6. ASSUME NEW x \in Runners PROVE LastInv(x)'
    <3>1. LastInv(x)
      BY <1>1 DEF BatchInv
    <3> QED BY <1>2, <2>3, <3>1 DEF LastInv, Over
  <2>7. ASSUME NEW u \in Workers PROVE RestsInv(u)'
    BY <2>1 DEF RestsInv
  <2> QED BY <2>2, <2>4, <2>5, <2>6, <2>7, InBatchNow
<1> QED BY <1>4, <1>5

(* main_func takes no part in the jobs. *)
LEMMA MainFuncKeeps == ASSUME IInv, MainFunc PROVE BatchInv'
<1>1. /\ Main \in Runners /\ \A u \in Workers : u # Main /\ u \in Runners
      /\ pc = [y \in Runners |-> pc[y]] /\ BatchInv /\ TypeOK
  BY RunnersAre DEF IInv, TypeOK, ControlOK, LabelsOK
<1>2. /\ pc[Main] = "main_func" /\ pc'[Main] = "ran"
      /\ \A x \in Runners : x # Main => pc'[x] = pc[x]
      /\ UNCHANGED <<i, ctx, r, wdone, ran>>
  BY <1>1 DEF MainFunc, Goto, pool
<1>3. InBatch /\ InBatch' /\ DoneInv
  BY <1>1, <1>2 DEF InBatch, BatchInv
<1>4. ASSUME NEW x \in Runners
      PROVE  /\ Pending(x)' <=> Pending(x)
             /\ pc'[x] = "job" <=> pc[x] = "job"
             /\ pc'[x] = "next" <=> pc[x] = "next"
             /\ Last(x)' <=> Last(x)
  BY <1>1, <1>2, <1>3 DEF Pending, Last, ActiveWorkers, DoneInv
<1>5. CountInv' /\ TakenInv' /\ \A x \in Runners : JobInv(x)' /\ \A y \in Runners : PairInv(x, y)'
  BY <1>1, <1>2, <1>3, <1>4, Unmoved
<1>6. SizeInv' /\ DoneInv'
  BY <1>1, <1>2, <1>3 DEF BatchInv, SizeInv, DoneInv, Over, ActiveWorkers
<1>7. ASSUME NEW x \in Runners PROVE LastInv(x)'
  <2>1. LastInv(x)
    BY <1>1 DEF BatchInv
  <2> QED BY <1>2, <1>3, <1>4, <2>1 DEF LastInv, Over
<1>8. ASSUME NEW u \in Workers PROVE RestsInv(u)'
  BY <1>2 DEF RestsInv
<1> QED BY <1>3, <1>5, <1>6, <1>7, <1>8, InBatchNow

(* Main ends the batch when it, or a worker that says so, made the last    *)
(* attempt: then every job has been run.                                   *)
LEMMA AwaitDoneKeeps == ASSUME IInv, AwaitDone PROVE BatchInv'
<1>1. /\ Main \in Runners /\ \A u \in Workers : u # Main /\ u \in Runners
      /\ pc = [y \in Runners |-> pc[y]] /\ BatchInv /\ TypeOK /\ ContextOK
  BY RunnersAre DEF IInv, TypeOK, ControlOK, LabelsOK
<1>2. pc[Main] = "ran" /\ InBatch /\ UNCHANGED <<i, r, wdone, ran>>
  BY DEF AwaitDone, InBatch, pool
<1>3. CASE pc' = pc
  <2>1. UNCHANGED ctx
    BY <1>1, <1>2, <1>3 DEF AwaitDone, Goto
  <2> QED BY <1>1, <1>2, <1>3, <2>1, StillKeeps
<1>4. CASE pc' # pc
  <2>1. /\ pc'[Main] = "idle" /\ \A x \in Runners : x # Main => pc'[x] = pc[x]
        /\ ctx'.nb_jobs = ctx.nb_jobs /\ ctx'.finished = ctx.finished
        /\ \/ r[Main].last /\ ctx'.done = ctx.done
           \/ ctx.done /\ ~ctx'.done
    BY <1>1, <1>4 DEF AwaitDone, Goto, ContextOK
  <2>2. /\ SizeInv /\ CountInv /\ TakenInv /\ DoneInv /\ LastInv(Main)
        /\ {ctx.nb_jobs, ctx.nb_active, ctx.first_job, ctx.current_job} \subseteq Nat
    BY <1>1 DEF BatchInv, ContextOK
  <2>3. /\ Over /\ ~ctx'.done
        /\ \A t \in Workers : ~Last(t)
    <3>1. CASE r[Main].last
      BY <1>1, <1>2, <2>1, <2>2, <3>1 DEF LastInv, Last
    <3>2. CASE ctx.done /\ ~ctx'.done
      <4>1. \A t \in Workers : LastInv(t)
        BY <1>1 DEF BatchInv
      <4> QED BY <1>2, <2>2, <3>2, <4>1 DEF LastInv, DoneInv
    <3> QED BY <2>1, <3>1, <3>2
  <2>4. ToFail = {} /\ ctx.first_job = ctx.nb_active
    BY <1>1, <1>2, <2>2, <2>3, CountBounds
  <2>5. Taken = 0 .. ctx.nb_jobs - 1
    BY <2>2, <2>3, <2>4 DEF Taken, Over
  <2>6. InJob = {}
    BY <2>4 DEF InJob, ToFail, Running
  <2>7. ran = 0 .. ctx.nb_jobs - 1
    BY <1>2, <2>2, <2>5, <2>6 DEF TakenInv
  <2>8. OffInv'
    BY <1>2, <2>1, <2>3, <2>7 DEF OffInv, AllRan
  <2>9. ASSUME NEW t \in Workers PROVE RestInv(t)'
    <3>1. ~Pending(t) /\ ~Running(t)
      BY <1>1, <2>4 DEF ToFail
    <3> QED BY <1>1, <1>2, <2>1, <2>3, <3>1 DEF RestInv, Pending, Running, Last
  <2>10. ~InBatch'
    BY <2>1 DEF InBatch
  <2> QED BY <2>8, <2>9, <2>10, OffBatch
<1> QED BY <1>3, <1>4

(* A new batch starts with the right number of threads to begin, and with  *)
(* no thread left over from the last.                                      *)
LEMMA ExecuteKeeps ==
  ASSUME IInv, NEW n \in 1 .. MaxJobs, NEW main \in BOOLEAN, Execute(n, main)
  PROVE  BatchInv'
<1> DEFINE active == IF n < ctx.nb_threads THEN n ELSE ctx.nb_threads
<1>1. /\ Main \in Runners /\ \A u \in Workers : u # Main /\ u \in Runners /\ u \in Nat
      /\ \A y \in Runners : y # Main => y \in Workers
      /\ pc = [y \in Runners |-> pc[y]] /\ BatchInv /\ TypeOK /\ ContextOK /\ LocalsOK /\ SizesInv
  BY RunnersAre, RunnersRange DEF IInv, PoolInv, TypeOK, ControlOK, LabelsOK
<1>2. /\ pc[Main] = "idle" /\ pc'[Main] = "wake"
      /\ \A x \in Runners : x # Main => pc'[x] = pc[x] /\ r'[x] = r[x]
      /\ ~r'[Main].last
      /\ i' = 0 /\ ran' = {} /\ wdone' = wdone
      /\ ctx' = [ctx EXCEPT !.nb_jobs = n, !.nb_active = active, !.first_job = 0,
                            !.current_job = active, !.main = ctx.main_func /\ main]
  BY <1>1 DEF Execute, Goto, pool, LocalsOK
<1>3. /\ n \in Nat /\ n > 0 /\ active \in Nat /\ active > 0 /\ active <= n /\ active <= ctx.nb_threads
      /\ ctx.nb_threads \in Nat /\ ~ctx.finished
  BY <1>1, <1>2, SliceThreadAssumption DEF ContextOK, SizesInv, Closing, SliceThreadAssumption
<1> HIDE DEF active
<1>4. /\ ctx'.nb_jobs = n /\ ctx'.nb_active = active /\ ctx'.first_job = 0
      /\ ctx'.current_job = active /\ ctx'.done = ctx.done /\ ctx'.nb_threads = ctx.nb_threads
      /\ ctx'.main_func = ctx.main_func /\ ctx'.main = (ctx.main_func /\ main)
  BY <1>1, <1>2 DEF ContextOK
<1>5. ~InBatch /\ InBatch' /\ ~ctx.done
  BY <1>1, <1>2 DEF InBatch, BatchInv, OffInv
<1>6. ASSUME NEW t \in Workers
      PROVE  /\ pc[t] \notin {"start", "begin", "job", "next", "exit"} /\ ~Last(t)
             /\ Rests(t) /\ (pc[t] = "wait" => wdone[t])
  <2>1. WorkerInv(t) /\ RestInv(t) /\ pc[t] \in WorkerLabels
    BY <1>1 DEF IInv, PoolInv, BatchInv, TypeOK, ControlOK, LabelsOK
  <2> QED BY <1>2, <1>3, <1>5, <2>1
       DEF WorkerInv, RestInv, Creating, Rests, Parked, Last, WorkerLabels
<1>7. ActiveWorkers' \in Nat /\ ActiveWorkers' <= Main
      /\ active = IF ctx'.main THEN ActiveWorkers' ELSE ActiveWorkers' + 1
  BY <1>1, <1>3, <1>4, RunnersRange DEF ActiveWorkers, SizesInv, ContextOK
<1>8. /\ ToFail' = ToBegin'
      /\ ToBegin' = IF ctx'.main THEN 0 .. ActiveWorkers' - 1 ELSE (0 .. ActiveWorkers' - 1) \cup {Main}
  <2>1. \A x \in Runners : ~Running(x)'
    BY <1>1, <1>2, <1>6 DEF Running
  <2>2. \A t \in Workers : Pending(t)' <=> t < ActiveWorkers'
    BY <1>1, <1>2, <1>6 DEF Pending
  <2>3. Pending(Main)' <=> ~ctx'.main
    BY <1>2 DEF Pending
  <2>4. 0 .. ActiveWorkers' - 1 = {t \in Workers : t < ActiveWorkers'}
    <3> DEFINE A == ActiveWorkers'
    <3>1. A \in Nat /\ A <= Main /\ Main \in Nat /\ Workers = 0 .. Main - 1
      BY <1>7, RunnersRange
    <3> HIDE DEF A
    <3>2. 0 .. A - 1 = {t \in Workers : t < A}
      BY <3>1
    <3> QED BY <3>2 DEF A
  <2> QED BY <1>1, <2>1, <2>2, <2>3, <2>4 DEF ToBegin, ToFail
<1>9. Cardinality(ToBegin') = active
  <2>1. /\ IsFiniteSet(0 .. ActiveWorkers' - 1) /\ Cardinality(0 .. ActiveWorkers' - 1) = ActiveWorkers'
    <3> DEFINE A == ActiveWorkers'
    <3>1. A \in Nat
      BY <1>7
    <3> HIDE DEF A
    <3>2. /\ IsFiniteSet(0 .. A - 1) /\ Cardinality(0 .. A - 1) = A
      BY <3>1, FS_Interval
    <3> QED BY <3>2 DEF A
  <2>2. Main \notin 0 .. ActiveWorkers' - 1
    <3> DEFINE A == ActiveWorkers'
    <3>1. A \in Nat /\ A <= Main /\ Main \in Nat
      BY <1>7, RunnersRange
    <3> HIDE DEF A
    <3>2. Main \notin 0 .. A - 1
      BY <3>1
    <3> QED BY <3>2 DEF A
  <2>3. Cardinality((0 .. ActiveWorkers' - 1) \cup {Main}) = ActiveWorkers' + 1
    BY <2>1, <2>2, FS_AddElement
  <2> QED BY <1>7, <1>8, <2>1, <2>3
<1>10. CountInv'
  BY <1>3, <1>4, <1>8, <1>9 DEF CountInv
<1>11. Taken' = {} /\ InJob' = {}
  BY <1>1, <1>2, <1>3, <1>4, <1>6 DEF Taken, InJob
<1>12. SizeInv' /\ TakenInv' /\ DoneInv'
  BY <1>1, <1>2, <1>3, <1>4, <1>5, <1>7, <1>11 DEF SizeInv, TakenInv, DoneInv
<1>13. ASSUME NEW x \in Runners, NEW y \in Runners PROVE JobInv(x)' /\ LastInv(x)' /\ PairInv(x, y)'
  <2>1. ~Running(x)' /\ ~Last(x)'
    BY <1>1, <1>2, <1>6 DEF Running, Last
  <2> QED BY <2>1 DEF JobInv, LastInv, PairInv
<1>14. ASSUME NEW t \in Workers PROVE RestsInv(t)'
  BY <1>1, <1>2, <1>6 DEF RestsInv, Rests, Parked
<1> QED BY <1>5, <1>10, <1>12, <1>13, <1>14, InBatchNow

(* Between two batches the pool is created or freed. *)
LEMMA OffBatchKeeps ==
  ASSUME IInv, Create \/ CreateFails \/ Handshake \/ Free \/ Stop \/ Join
  PROVE  BatchInv'
<1>1. /\ Main \in Runners /\ \A u \in Workers : u # Main /\ u \in Runners
      /\ pc = [y \in Runners |-> pc[y]] /\ BatchInv /\ ContextOK /\ SizesInv
  BY RunnersAre DEF IInv, PoolInv, TypeOK, ControlOK, LabelsOK
<1>2. ~InBatch /\ UNCHANGED <<r, ran>>
  BY DEF InBatch, Create, CreateFails, Handshake, Free, Stop, Join, pool
<1>3. ~InBatch'
  BY <1>1, <1>2 DEF InBatch, Create, CreateFails, Handshake, Free, Stop, Join, Goto
<1>4. ctx'.done = ctx.done /\ ctx'.nb_jobs = ctx.nb_jobs
      /\ (ctx.finished => ctx'.finished)
  BY <1>1 DEF ContextOK, Create, CreateFails, Handshake, Free, Stop, Join
<1>5. OffInv'
  BY <1>1, <1>2, <1>4 DEF BatchInv, OffInv, AllRan
<1>6. ASSUME NEW t \in Workers PROVE RestInv(t)'
  <2>1. pc'[t] = pc[t] \/ pc'[t] = "start"
    BY <1>1 DEF Create, CreateFails, Handshake, Free, Stop, Join, Goto
  <2>2. wdone' = wdone \/ ctx'.finished
    BY <1>1 DEF SizesInv, ContextOK, Create, CreateFails, Handshake, Free, Stop, Join, pool
  <2>3. RestInv(t)
    BY <1>1 DEF BatchInv
  <2> QED BY <1>2, <1>4, <2>1, <2>2, <2>3 DEF RestInv, Last
<1> QED BY <1>3, <1>5, <1>6, OffBatch

(* Every step keeps the invariant of the batch. *)
LEMMA BatchInductive == IInv /\ [Next]_vars => BatchInv'
<1> SUFFICES ASSUME IInv, [Next]_vars PROVE BatchInv'
  OBVIOUS
<1>1. CASE Create \/ CreateFails \/ Handshake \/ Free \/ Stop \/ Join
  BY <1>1, OffBatchKeeps
<1>2. ASSUME NEW x \in Runners, Begin(x) \/ RunJob(x) \/ TakeNext(x) PROVE BatchInv'
  BY <1>2, BeginKeeps, RunJobKeeps, TakeNextKeeps
<1>3. ASSUME NEW t \in Workers, Park(t) \/ WakeUp(t) \/ Notify(t) PROVE BatchInv'
  BY <1>3, ParkKeeps, WakeUpKeeps, NotifyKeeps
<1>4. CASE Wake \/ MainFunc \/ AwaitDone
  BY <1>4, WakeKeeps, MainFuncKeeps, AwaitDoneKeeps
<1>5. ASSUME NEW n \in 1 .. MaxJobs, NEW main \in BOOLEAN, Execute(n, main) PROVE BatchInv'
  BY <1>5, ExecuteKeeps
<1>6. CASE SpuriousWake \/ UNCHANGED vars
  BY <1>6, StillKeeps DEF IInv, SpuriousWake, vars
<1> QED
  BY <1>1, <1>2, <1>3, <1>4, <1>5, <1>6, RunnersAre
     DEF Next, Call, MainStep, MainControl, WorkerStep, WorkerControl, Freed

-----------------------------------------------------------------------------
(* A pool that is about to be created satisfies the invariant. *)
LEMMA InitialInvariant == Init => IInv
<1> SUFFICES ASSUME Init PROVE IInv
  OBVIOUS
<1>1. PICK q \in Pools :
        /\ ctx = [nb_threads |-> q.nb_threads, main_func |-> q.main_func, nb_active |-> 0,
                  nb_jobs |-> 0, first_job |-> 0, current_job |-> 0, done |-> FALSE,
                  finished |-> FALSE, main |-> FALSE]
        /\ batches = q.calls
  BY DEF Init
<1>2. /\ q.nb_threads \in 1 .. MaxThreads /\ q.main_func \in BOOLEAN /\ q.calls \in Nat
      /\ q.main_func => q.nb_threads < MaxThreads
      /\ MaxThreads \in Nat
  BY SliceThreadAssumption DEF SliceThreadAssumption, Pool
<1>3. /\ pc = [x \in Runners |-> IF x = Main THEN "create" ELSE "none"]
      /\ i = 0 /\ r = [x \in Runners |-> [first |-> 0, job |-> 0, nb_jobs |-> 0, nb_active |-> 0,
                                          last |-> FALSE]]
      /\ wdone = [t \in Workers |-> FALSE] /\ wait = [t \in Workers |-> {}]
      /\ mutex = [t \in Workers |-> None] /\ doneWait = FALSE /\ ran = {}
  BY DEF Init
<1>4. TypeOK
  <2>1. LabelsOK
    BY <1>3, RunnersAre DEF LabelsOK, MainLabels, WorkerLabels
  <2>2. ContextOK /\ batches \in Nat
    BY <1>1, <1>2 DEF ContextOK
  <2>3. LocalsOK
    BY <1>3 DEF LocalsOK
  <2> QED BY <1>3, <2>1, <2>2, <2>3 DEF TypeOK, ControlOK
<1>5. /\ pc[Main] = "create" /\ \A t \in Workers : t # Main /\ pc[t] = "none" /\ t \in Nat
  BY <1>3, RunnersAre, RunnersRange
<1>6. PoolInv
  <2>1. SizesInv
    BY <1>1, <1>2, <1>3, <1>5 DEF SizesInv, Closing, Creating, NbWorkers
  <2>2. ASSUME NEW t \in Workers PROVE WorkerInv(t) /\ MutexInv(t)
    <3>1. None # t /\ None # Main
      BY RunnersRange, RunnersAre
    <3> QED BY <1>3, <1>5, <3>1 DEF WorkerInv, MutexInv, Creating
  <2> QED BY <2>1, <2>2 DEF PoolInv
<1>7. BatchInv
  <2>1. ~InBatch /\ pc[Main] # "wake"
    BY <1>5 DEF InBatch
  <2>2. OffInv
    BY <1>1, <1>3 DEF OffInv, AllRan
  <2>3. \A t \in Workers : RestInv(t)
    BY <1>5 DEF RestInv, Last
  <2> QED BY <2>1, <2>2, <2>3 DEF BatchInv, SizeInv, CountInv, TakenInv, DoneInv, JobInv, LastInv, PairInv, RestsInv
<1> QED BY <1>4, <1>6, <1>7 DEF IInv

(* Every step keeps the whole invariant. *)
LEMMA Inductive == IInv /\ [Next]_vars => IInv'
<1> SUFFICES ASSUME IInv, [Next]_vars PROVE IInv'
  OBVIOUS
<1>1. TypeOK'
  BY LabelsInductive, ContextInductive, ControlInductive DEF IInv, TypeOK, ControlOK
<1>2. PoolInv'
  BY SizesInductive, WorkersInductive, MutexInductive DEF IInv, PoolInv
<1> QED BY <1>1, <1>2, BatchInductive DEF IInv

(* Every reachable state of the pool satisfies the inductive invariant, of *)
(* which the types are a part.                                             *)
THEOREM PoolCorrect == Spec => []IInv
  BY InitialInvariant, Inductive, PTL DEF Spec

(* When the last attempt at the counter has been made every job has been   *)
(* run: nobody is between taking a job and the end of it any more.         *)
LEMMA OverMeansAllRan ==
  ASSUME IInv, InBatch, Over
  PROVE  AllRan
<1>1. /\ TypeOK /\ SizeInv /\ CountInv /\ TakenInv
      /\ {ctx.nb_jobs, ctx.nb_active, ctx.first_job, ctx.current_job} \subseteq Nat
  BY DEF IInv, TypeOK, ControlOK, BatchInv, ContextOK
<1>2. ToFail = {} /\ ctx.first_job = ctx.nb_active
  BY <1>1, CountBounds
<1>3. Taken = 0 .. ctx.nb_jobs - 1
  BY <1>1, <1>2 DEF Taken, Over
<1>4. InJob = {}
  BY <1>2 DEF InJob, ToFail, Running
<1> QED BY <1>1, <1>3, <1>4 DEF TakenInv, AllRan

(* The invariant says that every batch is exact. *)
LEMMA InvariantImpliesExact == IInv => BatchesExact
<1> SUFFICES ASSUME IInv PROVE BatchesExact
  OBVIOUS
<1>1. /\ TypeOK /\ ContextOK /\ LocalsOK /\ BatchInv
      /\ Main \in Runners /\ \A x \in Runners : x # Main => x \in Workers
  BY RunnersAre DEF IInv, TypeOK, ControlOK
<1>2. JobsExclusive
  <2>1. ASSUME NEW x \in InJob
        PROVE  /\ r[x].job \notin ran /\ r[x].job < ctx.nb_jobs /\ r[x].first < ctx.nb_active
               /\ InBatch /\ Running(x) /\ x \in Runners
    <3>1. x \in Runners /\ pc[x] = "job"
      BY DEF InJob
    <3>2. InBatch
      BY <1>1, <3>1 DEF BatchInv, RestInv, InBatch
    <3>3. ctx.first_job <= ctx.nb_active /\ JobInv(x) /\ Running(x)
      BY <1>1, <3>1, <3>2, CountBounds DEF BatchInv, Running
    <3>4. r[x].job \in Taken \ ran /\ r[x].first < ctx.first_job
      BY <3>1, <3>2, <3>3 DEF JobInv
    <3>5. r[x].first < ctx.nb_active
      BY <1>1, <3>1, <3>3, <3>4 DEF ContextOK, LocalsOK
    <3>6. r[x].job < ctx.nb_jobs
      BY <1>1, <3>4 DEF ContextOK, Taken
    <3> QED BY <3>1, <3>2, <3>3, <3>4, <3>5, <3>6
  <2>2. ASSUME NEW x \in InJob, NEW y \in InJob, x # y
        PROVE  r[x].job # r[y].job /\ r[x].first # r[y].first
    <3>1. PairInv(x, y) /\ pc[x] = "job" /\ pc[y] = "job"
      BY <1>1 DEF BatchInv, InJob
    <3> QED BY <2>1, <2>2, <3>1 DEF PairInv
  <2> QED BY <2>1, <2>2 DEF JobsExclusive
<1>3. BatchComplete
  <2>1. ASSUME ~InBatch
        PROVE  /\ AllRan /\ ~ctx.done
               /\ \A t \in Workers : pc[t] \notin {"begin", "job", "next"}
               /\ ~ctx.finished => \A t \in Workers : pc[t] = "wait" => wdone[t]
    BY <1>1, <2>1 DEF BatchInv, OffInv, RestInv
  <2>2. ASSUME ctx.done, InBatch PROVE AllRan /\ ~r[Main].last
    <3>1. LastInv(Main) /\ DoneInv
      BY <1>1 DEF BatchInv
    <3> QED BY <2>2, <3>1, OverMeansAllRan DEF DoneInv, LastInv, Last
  <2> QED BY <2>1, <2>2 DEF BatchComplete
<1> QED BY <1>2, <1>3 DEF BatchesExact

(* Every job of a batch is run once, the thread numbers in use at a time   *)
(* differ, and execute returns when all jobs have been run and nobody is   *)
(* inside run_jobs.                                                        *)
THEOREM BatchesAreExact == Spec => []BatchesExact
  BY PoolCorrect, InvariantImpliesExact, PTL

-----------------------------------------------------------------------------
(* A step that neither runs a job nor starts or ends a batch is not seen   *)
(* by the user of the loop.                                                *)
LEMMA LoopStutters ==
  ASSUME InBatch' <=> InBatch, ran' = ran, ctx'.nb_jobs = ctx.nb_jobs
  PROVE  UNCHANGED Batch!vars
<1>1. InBatch' = InBatch
  BY DEF InBatch
<1> QED BY <1>1 DEF Batch!vars

(* Every step of the pool starts a call of the loop, runs one of its jobs  *)
(* for the first time, returns after the last, or leaves the loop alone.   *)
LEMMA LoopStep == IInv /\ [Next]_vars => [Batch!Next]_(Batch!vars)
<1> SUFFICES ASSUME IInv, [Next]_vars PROVE [Batch!Next]_(Batch!vars)
  OBVIOUS
<1>1. /\ Main \in Runners /\ \A u \in Workers : u # Main /\ u \in Runners
      /\ pc = [y \in Runners |-> pc[y]] /\ BatchInv /\ ContextOK
  BY RunnersAre DEF IInv, TypeOK, ControlOK, LabelsOK
<1>2. CASE Create \/ CreateFails \/ Handshake \/ Free \/ Stop \/ Join
  <2>1. (InBatch' <=> InBatch) /\ ran' = ran
    BY <1>1, <1>2 DEF InBatch, Create, CreateFails, Handshake, Free, Stop, Join, Goto
  <2>2. ctx'.nb_jobs = ctx.nb_jobs
    BY <1>1, <1>2 DEF ContextOK, Create, CreateFails, Handshake, Free, Stop, Join
  <2> QED BY <2>1, <2>2, LoopStutters
<1>3. ASSUME NEW x \in Runners, Begin(x) \/ TakeNext(x) PROVE UNCHANGED Batch!vars
  <2>1. (InBatch' <=> InBatch) /\ ran' = ran
    BY <1>1, <1>3 DEF InBatch, Begin, TakeNext, Goto
  <2>2. ctx'.nb_jobs = ctx.nb_jobs
    BY <1>1, <1>3 DEF ContextOK, Begin, TakeNext
  <2> QED BY <2>1, <2>2, LoopStutters
<1>4. ASSUME NEW t \in Workers, Park(t) \/ WakeUp(t) \/ Notify(t) PROVE UNCHANGED Batch!vars
  <2>1. (InBatch' <=> InBatch) /\ ran' = ran
    BY <1>1, <1>4 DEF InBatch, Park, WakeUp, Notify, Goto
  <2>2. ctx'.nb_jobs = ctx.nb_jobs
    BY <1>1, <1>4 DEF ContextOK, Park, WakeUp, Notify
  <2> QED BY <2>1, <2>2, LoopStutters
<1>5. CASE Wake \/ MainFunc \/ SpuriousWake \/ UNCHANGED vars
  <2>1. (InBatch' <=> InBatch) /\ ran' = ran /\ ctx' = ctx
    BY <1>1, <1>5 DEF InBatch, Wake, MainFunc, SpuriousWake, Goto, vars
  <2> QED BY <2>1, LoopStutters
<1>6. ASSUME NEW x \in Runners, RunJob(x) PROVE Batch!Run
  <2>1. InBatch /\ InBatch'
    BY <1>1, <1>6, RunnersAre DEF RunJob, Goto, InBatch, BatchInv, RestInv
  <2>2. ctx' = ctx /\ ran' = ran \cup {r[x].job}
    BY <1>6 DEF RunJob
  <2>3. r[x].job \in (0 .. ctx.nb_jobs - 1) \ ran
    <3>1. JobInv(x) /\ pc[x] = "job"
      BY <1>1, <1>6 DEF BatchInv, RunJob
    <3> QED BY <2>1, <3>1 DEF JobInv, Running, Taken
  <2>4. (0 .. ctx'.nb_jobs - 1) \ ran' = ((0 .. ctx.nb_jobs - 1) \ ran) \ {r[x].job}
    BY <2>2
  <2>5. InBatch' = InBatch
    BY <2>1 DEF InBatch
  <2> QED BY <2>1, <2>3, <2>4, <2>5 DEF Batch!Run
<1>7. CASE AwaitDone
  <2>1. InBatch /\ ran' = ran
    BY <1>7 DEF AwaitDone, InBatch
  <2>2. CASE pc' = pc
    <3>1. (InBatch' <=> InBatch) /\ ctx' = ctx
      BY <1>1, <1>7, <2>2 DEF AwaitDone, Goto, InBatch
    <3> QED BY <2>1, <3>1, LoopStutters
  <2>3. CASE pc' # pc
    <3>1. ~InBatch' /\ (r[Main].last \/ ctx.done) /\ pc[Main] = "ran"
      BY <1>1, <1>7, <2>3 DEF AwaitDone, Goto, InBatch
    <3>2. LastInv(Main) /\ DoneInv
      BY <1>1 DEF BatchInv
    <3>3. AllRan
      BY <1>1, <2>1, <3>1, <3>2, OverMeansAllRan DEF LastInv, DoneInv, Last
    <3>4. InBatch' = FALSE
      BY <3>1 DEF InBatch
    <3> QED BY <2>1, <3>1, <3>3, <3>4 DEF Batch!Return, Batch!Next, AllRan
  <2> QED BY <2>2, <2>3
<1>8. ASSUME NEW n \in 1 .. MaxJobs, NEW main \in BOOLEAN, Execute(n, main) PROVE Batch!Start
  <2>1. ~InBatch /\ InBatch' /\ ran' = {}
    BY <1>1, <1>8 DEF Execute, Goto, InBatch
  <2>2. ctx'.nb_jobs = n
    BY <1>1, <1>8 DEF Execute, ContextOK
  <2>3. InBatch' = TRUE
    BY <2>1 DEF InBatch
  <2> QED BY <2>1, <2>2, <2>3 DEF Batch!Start
<1> QED
  BY <1>2, <1>3, <1>4, <1>5, <1>6, <1>7, <1>8, RunnersAre
     DEF Next, Call, MainStep, MainControl, WorkerStep, WorkerControl, Freed, Batch!Next

(* The pool implements the parallel loop. *)
THEOREM PoolImplementsLoop == Spec => ImplementsLoop
<1>1. Init => Batch!Init
  BY RunnersAre DEF Init, Batch!Init, InBatch
<1> QED BY <1>1, PoolCorrect, LoopStep, PTL DEF Spec, ImplementsLoop, Batch!Spec

-----------------------------------------------------------------------------
(* The rows.                                                               *)
Places == {"start", "await", "check", "decode", "report", "report_end", "fail", "finish"}

WaveTypeOK ==
  /\ rows \in BOOLEAN
  /\ at \in [Runners -> Places]
  /\ entries \in [Jobs -> Nat] /\ decoded \in [Jobs -> Nat]
  /\ wpp_err \in BOOLEAN
  /\ progWait \in [Conds -> SUBSET Runners]

(* Nobody is in a row outside of a job, and nobody at all without rows.    *)
AtInv(x) == pc[x] # "job" \/ ~rows => at[x] = "start"
QuietInv == /\ ~rows => \A k \in Conds : progWait[k] = {}
            /\ ctx.nb_jobs <= MaxJobs

(* The row is as good as over: decoded to its end, or not to be decoded.   *)
Ended(row) == wpp_err \/ decoded[row] = Width \/ row = LastRow

(* The row above is ahead by what the row may refer to.                    *)
Ahead(row) ==
  row # 0 => decoded[row - 1] >= decoded[row] + SHIFT_CTB_WPP \/ decoded[row - 1] = Width

(* A row is where its reports say, but for the CTB that is to be reported. *)
Unreported(x) == IF at[x] \in {"report", "report_end"} THEN 1 ELSE 0
RowAt(x, row) ==
  /\ entries[row] + Unreported(x) = decoded[row] /\ decoded[row] <= Width
  /\ at[x] \in {"start", "await", "check", "decode"} => decoded[row] < Width
  /\ row # 0 => decoded[row] <= decoded[row - 1]
  /\ at[x] = "check" => wpp_err \/ Ahead(row)
  /\ at[x] = "decode" => Ahead(row)
  /\ at[x] = "finish" => Ended(row)
RowInv(x) == rows /\ pc[x] = "job" => RowAt(x, r[x].job)

(* A row that has been run is over, and has let the next one through; one  *)
(* that has not been taken is as it was.                                   *)
RanInv(row) == rows /\ row \in ran => Ended(row) /\ entries[row] = decoded[row] + SHIFT_CTB_WPP
FreshInv(row) == rows /\ InBatch /\ row \notin Taken => entries[row] = 0 /\ decoded[row] = 0

(* Whoever waits on a condition variable waits for the row above.          *)
WaiterInv(x, k) ==
  x \in progWait[k] => In(x, "await") /\ r[x].job # 0 /\ k = Cond(r[x].job - 1)

WaveInv ==
  /\ WaveTypeOK /\ QuietInv
  /\ \A x \in Runners : AtInv(x) /\ RowInv(x) /\ \A k \in Conds : WaiterInv(x, k)
  /\ \A row \in 0 .. ctx.nb_jobs - 1 : RanInv(row) /\ FreshInv(row)

(* As long as no row has failed, rows end in order: before a row that is,  *)
(* or is going to be, decoded to its end, all rows above it have been run. *)
AllRanAbove(row) == \A q \in 0 .. row - 1 : q \in ran
EndsNext(x) ==
  In(x, "check") \/ In(x, "decode") =>
    (decoded[r[x].job] + 1 >= Width => AllRanAbove(r[x].job))
RowOrderInv ==
  rows /\ ~wpp_err => /\ \A row \in Jobs : decoded[row] = Width => AllRanAbove(row)
                     /\ \A x \in Runners : EndsNext(x)

(* As long as no row has failed, and with at most three threads also       *)
(* later, whoever waits has reason to.                                     *)
Calm == Few \/ ~wpp_err
NeedsWait(x) ==
  (\E k \in Conds : x \in progWait[k]) => r[x].job # 0 /\ ~FarEnough(r[x].job)
WakeInv == Calm => \A x \in Runners : NeedsWait(x)

-----------------------------------------------------------------------------
(* Every step of the rows is one of the pool, or leaves the pool alone: a  *)
(* row that ends is a job that has been run.                               *)
LEMMA RowsAreJobs == [WaveNext]_allVars => [Next]_vars
<1> SUFFICES ASSUME [WaveNext]_allVars PROVE [Next]_vars
  OBVIOUS
<1>1. ASSUME NEW x, RowStep(x) PROVE RunJob(x) \/ UNCHANGED vars
  BY <1>1 DEF RowStep, RowStart, AwaitRow, CheckError, Decode, Report, Fail, Finish
<1>2. CASE WaveMain
  BY <1>1, <1>2 DEF WaveMain, Next, MainStep
<1>3. ASSUME NEW t \in Workers, WaveWorker(t) PROVE [Next]_vars
  BY <1>1, <1>3 DEF WaveWorker, Next, WorkerStep
<1>4. ASSUME NEW n \in 1 .. MaxJobs, SliceData(n) PROVE Next
  BY <1>4 DEF SliceData, Next, Call
<1>5. CASE SpuriousProgress
  BY <1>5 DEF SpuriousProgress
<1>6. CASE Free \/ SpuriousWake \/ Freed
  BY <1>6 DEF Next, Call
<1>7. CASE UNCHANGED allVars
  BY <1>7 DEF allVars
<1> QED BY <1>2, <1>3, <1>4, <1>5, <1>6, <1>7 DEF WaveNext

(* A job in progress is a row of the slice, which nobody else decodes.     *)
LEMMA Located ==
  ASSUME IInv, ctx.nb_jobs <= MaxJobs, NEW x \in Runners, pc[x] = "job"
  PROVE  /\ InBatch /\ r[x].job \in Taken /\ r[x].job \notin ran /\ r[x].job \in Nat
         /\ r[x].job \in Jobs /\ r[x].job \in 0 .. ctx.nb_jobs - 1
         /\ r[x].job # 0 => r[x].job - 1 \in Jobs /\ r[x].job - 1 \in 0 .. ctx.nb_jobs - 1
         /\ \A y \in Runners : y # x /\ pc[y] = "job" => r[y].job # r[x].job
<1>1. BatchInv /\ ContextOK
  BY DEF IInv, TypeOK
<1>2. InBatch
  BY <1>1, RunnersAre DEF BatchInv, RestInv, InBatch
<1>3. r[x].job \in Taken /\ r[x].job \notin ran
  BY <1>1, <1>2 DEF BatchInv, JobInv, Running
<1>4. \A y \in Runners : y # x /\ pc[y] = "job" => r[y].job # r[x].job
  BY <1>1, <1>2 DEF BatchInv, PairInv, Running
<1>5. r[x].job \in 0 .. ctx.nb_jobs - 1 /\ ctx.nb_jobs \in Nat /\ MaxJobs \in Nat
  BY <1>1, <1>3, SliceThreadAssumption DEF Taken, ContextOK, SliceThreadAssumption
<1>6. /\ r[x].job \in Nat /\ r[x].job \in Jobs
      /\ r[x].job # 0 => r[x].job - 1 \in Jobs /\ r[x].job - 1 \in 0 .. ctx.nb_jobs - 1
  BY <1>5 DEF Jobs
<1> QED BY <1>2, <1>3, <1>4, <1>5, <1>6

(* The condition variable of a row is one of the pool.                     *)
LEMMA CondExists ==
  ASSUME IInv, InBatch, NEW row \in Nat
  PROVE  Cond(row) \in Conds
<1>1. ctx.nb_threads \in Nat /\ ctx.nb_threads > 0 /\ ctx.nb_threads <= MaxThreads /\ MaxThreads \in Nat
  BY RunnersRange DEF IInv, TypeOK, ContextOK, PoolInv, SizesInv, InBatch, Closing
<1>2. row % ctx.nb_threads \in 0 .. ctx.nb_threads - 1
  BY <1>1
<1> QED BY <1>1, <1>2 DEF Cond, Conds

(* A thread takes a row that nobody has taken, and leaves it by RunJob.    *)
LEMMA TakenFresh ==
  ASSUME IInv, NEW x \in Runners, Begin(x) \/ TakeNext(x)
  PROVE  /\ InBatch /\ InBatch' /\ Taken \subseteq Taken'
         /\ pc[x] # "job"
         /\ pc'[x] = "job" => r'[x].job \in (0 .. ctx.nb_jobs - 1) \ Taken
         /\ \A y \in Runners : y # x => pc'[y] = pc[y] /\ r'[y] = r[y]
         /\ ctx'.nb_jobs = ctx.nb_jobs /\ ctx'.nb_threads = ctx.nb_threads /\ ran' = ran
<1>1. /\ BatchInv /\ ContextOK /\ LocalsOK /\ TypeOK /\ Main \in Runners
      /\ pc = [y \in Runners |-> pc[y]] /\ \A y \in Runners : y # Main => y \in Workers
  BY RunnersAre DEF IInv, TypeOK, LabelsOK
<1>2. /\ pc[x] \in {"begin", "next"} /\ ran' = ran
      /\ \A y \in Runners : y # x => pc'[y] = pc[y] /\ r'[y] = r[y]
  BY <1>1 DEF Begin, TakeNext, Goto, LocalsOK
<1>3. /\ ctx'.nb_jobs = ctx.nb_jobs /\ ctx'.nb_threads = ctx.nb_threads
      /\ ctx'.nb_active = ctx.nb_active
      /\ \/ ctx'.first_job = ctx.first_job + 1 /\ ctx'.current_job = ctx.current_job
         \/ ctx'.first_job = ctx.first_job /\ ctx'.current_job = ctx.current_job + 1
  BY <1>1 DEF Begin, TakeNext, ContextOK
<1>4. InBatch /\ InBatch'
  BY <1>1, <1>2 DEF InBatch, BatchInv, RestInv, Begin, TakeNext, Goto
<1>5. /\ SizeInv /\ CountInv /\ JobInv(x)
      /\ {ctx.nb_jobs, ctx.nb_active, ctx.first_job, ctx.current_job} \subseteq Nat
  BY <1>1 DEF BatchInv, ContextOK
<1>6. Taken \subseteq Taken'
  BY <1>3, <1>5 DEF Taken
<1>7. ctx.first_job <= ctx.nb_active /\ IsFiniteSet(ToBegin)
      /\ ctx.nb_active <= ctx.nb_jobs /\ ctx.nb_active <= ctx.current_job
  BY <1>1, <1>4, <1>5, CountBounds DEF SizeInv
<1>8. CASE Begin(x)
  <2>1. x \in ToBegin
    BY <1>1, <1>8 DEF ToBegin, Pending, Begin
  <2>2. ctx.first_job # ctx.nb_active
    BY <1>4, <1>5, <1>7, <2>1, FS_EmptySet DEF CountInv
  <2>3. r'[x].job = ctx.first_job
    BY <1>1, <1>8 DEF Begin, LocalsOK
  <2>4. ctx.first_job \in (0 .. ctx.nb_jobs - 1) \ Taken
    BY <1>5, <1>7, <2>2 DEF Taken
  <2> QED BY <1>2, <1>3, <1>4, <1>6, <2>3, <2>4
<1>9. CASE TakeNext(x)
  <2>1. r'[x].job = ctx.current_job /\ (pc'[x] = "job" => ctx.current_job < r[x].nb_jobs)
    BY <1>1, <1>9 DEF TakeNext, Goto, LocalsOK
  <2>2. r[x].nb_jobs = ctx.nb_jobs
    BY <1>4, <1>5, <1>9 DEF JobInv, Running, TakeNext
  <2>3. ctx.current_job < ctx.nb_jobs => ctx.current_job \in (0 .. ctx.nb_jobs - 1) \ Taken
    BY <1>5, <1>7 DEF Taken
  <2> QED BY <1>2, <1>3, <1>4, <1>6, <2>1, <2>2, <2>3
<1> QED BY <1>8, <1>9

(* The other steps of the control take no row and leave none.              *)
LEMMA OthersKeepRows ==
  ASSUME IInv,
         \/ Create \/ CreateFails \/ Handshake \/ Wake \/ MainFunc \/ AwaitDone \/ Stop \/ Join
         \/ Free \/ SpuriousWake \/ UNCHANGED vars
         \/ \E t \in Workers : Park(t) \/ WakeUp(t) \/ Notify(t)
  PROVE  /\ \A x \in Runners : (pc'[x] = "job" <=> pc[x] = "job") /\ r'[x] = r[x]
         /\ ctx'.nb_jobs = ctx.nb_jobs /\ ran' = ran
         /\ InBatch => ctx'.nb_threads = ctx.nb_threads
         /\ InBatch' => InBatch /\ Taken' = Taken
<1>1. /\ Main \in Runners /\ \A u \in Workers : u # Main /\ u \in Runners
      /\ pc = [y \in Runners |-> pc[y]] /\ ContextOK
  BY RunnersAre DEF IInv, TypeOK, LabelsOK
<1>2. CASE Create \/ CreateFails \/ Handshake
  <2>1. r' = r /\ ran' = ran /\ ctx'.nb_jobs = ctx.nb_jobs /\ ~InBatch
    BY <1>1, <1>2 DEF Create, CreateFails, Handshake, InBatch, ContextOK
  <2>2. ~InBatch'
    BY <1>1, <1>2 DEF Create, CreateFails, Handshake, Goto, InBatch
  <2>3. \A t \in Workers : pc[t] # "job"
    BY <2>1 DEF IInv, BatchInv, RestInv
  <2>4. \A x \in Runners : x # Main => x \in Workers /\ (pc'[x] = pc[x] \/ pc'[x] = "start")
    BY <1>1, <1>2, RunnersAre DEF Create, CreateFails, Handshake, Goto
  <2>5. \A x \in Runners : pc'[x] = "job" <=> pc[x] = "job"
    BY <1>1, <2>1, <2>2, <2>3, <2>4 DEF InBatch
  <2> QED BY <2>1, <2>2, <2>5
<1>3. CASE Stop \/ Join \/ Free
  BY <1>1, <1>3 DEF Stop, Join, Free, Goto, InBatch, ContextOK
<1>4. CASE Wake \/ MainFunc \/ SpuriousWake \/ UNCHANGED vars
  BY <1>1, <1>4 DEF Wake, MainFunc, SpuriousWake, vars, Goto, InBatch, Taken
<1>5. CASE AwaitDone
  BY <1>1, <1>5 DEF AwaitDone, Goto, InBatch, Taken, ContextOK
<1>6. ASSUME NEW t \in Workers, Park(t) \/ WakeUp(t)
      PROVE  /\ \A x \in Runners : (pc'[x] = "job" <=> pc[x] = "job")
             /\ r' = r /\ ctx' = ctx /\ ran' = ran /\ pc'[Main] = pc[Main]
  BY <1>1, <1>6 DEF Park, WakeUp, Goto
<1>7. ASSUME NEW t \in Workers, Notify(t)
      PROVE  /\ \A x \in Runners : (pc'[x] = "job" <=> pc[x] = "job")
             /\ r' = r /\ ctx'.nb_jobs = ctx.nb_jobs /\ ctx'.nb_active = ctx.nb_active
             /\ ctx'.first_job = ctx.first_job /\ ctx'.current_job = ctx.current_job
             /\ ctx'.nb_threads = ctx.nb_threads
             /\ ran' = ran /\ pc'[Main] = pc[Main]
  BY <1>1, <1>7 DEF Notify, Goto, ContextOK
<1> QED BY <1>2, <1>3, <1>4, <1>5, <1>6, <1>7 DEF InBatch, Taken

-----------------------------------------------------------------------------
(* A row that is left alone stays as it was: the row above only gets       *)
(* further, and an error stays one.                                        *)
LEMMA RowLeftAlone ==
  ASSUME WaveTypeOK, NEW y \in Runners, RowInv(y), pc[y] = "job", rows, r[y].job \in Nat,
         r[y].job \in Jobs, r[y].job # 0 => r[y].job - 1 \in Jobs,
         UNCHANGED <<rows, r>>, at'[y] = at[y], ctx'.nb_jobs = ctx.nb_jobs,
         entries'[r[y].job] = entries[r[y].job], decoded'[r[y].job] = decoded[r[y].job],
         r[y].job # 0 => /\ decoded'[r[y].job - 1] >= decoded[r[y].job - 1]
                         /\ decoded[r[y].job - 1] = Width => decoded'[r[y].job - 1] = Width
                         /\ decoded'[r[y].job - 1] \in Nat,
         wpp_err => wpp_err'
  PROVE  RowInv(y)'
<1>0. PICK row \in Nat : row = r[y].job
  OBVIOUS
<1>1. /\ entries[row] \in Nat /\ decoded[row] \in Nat /\ Width \in Nat
      /\ row # 0 => decoded[row - 1] \in Nat
  BY <1>0, WavefrontAssumption DEF WaveTypeOK, WavefrontAssumption
<1>2. Ended(row) => Ended(row)'
  BY <1>0 DEF Ended, LastRow
<1>3. Ahead(row) => Ahead(row)'
  BY <1>0, <1>1 DEF Ahead, SHIFT_CTB_WPP
<1>4. r'[y].job = row /\ entries'[row] = entries[row] /\ decoded'[row] = decoded[row]
      /\ (row # 0 => decoded[row - 1] <= decoded'[row - 1] /\ decoded'[row - 1] \in Nat)
  BY <1>0, <1>1
<1>5. RowAt(y, row)
  BY <1>0 DEF RowInv
<1>6. RowAt(y, row)'
  BY <1>0, <1>1, <1>2, <1>3, <1>4, <1>5 DEF RowAt, Unreported
<1> QED BY <1>4, <1>6 DEF RowInv

(* What a step that changes nothing of the wavefront itself keeps of it:   *)
(* threads may have taken a row, which is as it was at the start.          *)
LEMMA ControlKeepsRows ==
  ASSUME IInv, WaveInv, UNCHANGED wave,
         ctx'.nb_jobs = ctx.nb_jobs, ran' = ran, InBatch => ctx'.nb_threads = ctx.nb_threads,
         InBatch' => InBatch /\ Taken \subseteq Taken',
         \A x \in Runners : \/ (pc'[x] = "job" <=> pc[x] = "job") /\ r'[x] = r[x]
                            \/ /\ pc[x] # "job" /\ InBatch
                               /\ pc'[x] = "job" => r'[x].job \in (0 .. ctx.nb_jobs - 1) \ Taken
  PROVE  WaveInv'
<1>1. /\ WaveTypeOK /\ QuietInv /\ ctx.nb_jobs \in Nat /\ MaxJobs \in Nat /\ Width \in Nat /\ Width > 0
      /\ ctx.nb_jobs <= MaxJobs
  BY SliceThreadAssumption, WavefrontAssumption
     DEF WaveInv, QuietInv, IInv, TypeOK, ContextOK, SliceThreadAssumption, WavefrontAssumption
<1>2. UNCHANGED <<rows, at, entries, wpp_err, progWait, decoded>>
  BY DEF wave
<1>3. WaveTypeOK' /\ QuietInv'
  BY <1>1, <1>2 DEF WaveTypeOK, QuietInv
<1>4. ASSUME NEW row \in 0 .. ctx.nb_jobs - 1 PROVE RanInv(row)' /\ FreshInv(row)'
  BY <1>2 DEF WaveInv, RanInv, FreshInv, Ended, LastRow
<1>5. ASSUME NEW x \in Runners PROVE AtInv(x)' /\ RowInv(x)' /\ \A k \in Conds : WaiterInv(x, k)'
  <2>1. AtInv(x) /\ RowInv(x) /\ \A k \in Conds : WaiterInv(x, k)
    BY DEF WaveInv
  <2>2. CASE (pc'[x] = "job" <=> pc[x] = "job") /\ r'[x] = r[x]
    <3>1. AtInv(x)' /\ RowInv(x)'
      BY <1>2, <2>1, <2>2 DEF AtInv, RowInv, RowAt, Unreported, Ended, LastRow, Ahead
    <3>2. pc[x] = "job" => InBatch
      BY <1>1, Located
    <3>3. \A k \in Conds : WaiterInv(x, k)'
      BY <1>2, <2>1, <2>2, <3>2 DEF WaiterInv, In, Cond
    <3> QED BY <3>1, <3>3
  <2>3. CASE /\ pc[x] # "job" /\ InBatch
             /\ pc'[x] = "job" => r'[x].job \in (0 .. ctx.nb_jobs - 1) \ Taken
    <3>1. at[x] = "start" /\ \A k \in Conds : x \notin progWait[k]
      BY <2>1, <2>3 DEF AtInv, WaiterInv, In
    <3>2. AtInv(x)' /\ \A k \in Conds : WaiterInv(x, k)'
      BY <1>2, <3>1 DEF AtInv, WaiterInv
    <3>3. CASE pc'[x] = "job" /\ rows
      <4>1. PICK row \in 0 .. ctx.nb_jobs - 1 : row = r'[x].job /\ row \notin Taken
        BY <2>3, <3>3
      <4>2. FreshInv(row)
        BY <4>1 DEF WaveInv
      <4>3. entries[row] = 0 /\ decoded[row] = 0
        BY <2>3, <3>3, <4>1, <4>2 DEF FreshInv
      <4>4. row # 0 => decoded[row - 1] \in Nat
        <5>1. row # 0 => row - 1 \in Jobs
          BY <1>1, <4>1 DEF Jobs
        <5> QED BY <1>1, <5>1 DEF WaveTypeOK
      <4>5. RowAt(x, row)'
        BY <1>1, <1>2, <3>1, <4>3, <4>4 DEF RowAt, Unreported
      <4> QED BY <3>2, <4>1, <4>5 DEF RowInv
    <3>4. CASE ~(pc'[x] = "job" /\ rows)
      <4>1. ~(rows' /\ pc'[x] = "job")
        BY <1>2, <3>4
      <4> QED BY <3>2, <4>1 DEF RowInv
    <3> QED BY <3>2, <3>3, <3>4
  <2> QED BY <2>2, <2>3
<1> QED BY <1>3, <1>4, <1>5 DEF WaveInv

(* The control of the pool keeps the rows. *)
LEMMA ControlStep ==
  ASSUME IInv, WaveInv, UNCHANGED wave,
         \/ MainControl \/ Free \/ SpuriousWake \/ UNCHANGED vars
         \/ \E t \in Workers : WorkerControl(t)
  PROVE  WaveInv'
<1>1. ASSUME NEW x \in Runners, Begin(x) \/ TakeNext(x) PROVE WaveInv'
  <2>1. /\ InBatch /\ InBatch' /\ Taken \subseteq Taken' /\ pc[x] # "job"
        /\ pc'[x] = "job" => r'[x].job \in (0 .. ctx.nb_jobs - 1) \ Taken
        /\ \A y \in Runners : y # x => pc'[y] = pc[y] /\ r'[y] = r[y]
        /\ ctx'.nb_jobs = ctx.nb_jobs /\ ctx'.nb_threads = ctx.nb_threads /\ ran' = ran
    BY <1>1, TakenFresh
  <2> QED BY <2>1, ControlKeepsRows
<1>2. CASE \/ Create \/ CreateFails \/ Handshake \/ Wake \/ MainFunc \/ AwaitDone \/ Stop \/ Join
           \/ Free \/ SpuriousWake \/ UNCHANGED vars
           \/ \E t \in Workers : Park(t) \/ WakeUp(t) \/ Notify(t)
  <2>1. /\ \A x \in Runners : (pc'[x] = "job" <=> pc[x] = "job") /\ r'[x] = r[x]
        /\ ctx'.nb_jobs = ctx.nb_jobs /\ ran' = ran
        /\ InBatch => ctx'.nb_threads = ctx.nb_threads
        /\ InBatch' => InBatch /\ Taken' = Taken
    BY <1>2, OthersKeepRows
  <2> QED BY <2>1, ControlKeepsRows
<1> QED BY <1>1, <1>2, RunnersAre DEF MainControl, WorkerControl

-----------------------------------------------------------------------------
(* A step of thread x in its row: only that row changes, which gets        *)
(* further or ends, and some threads may be woken.                         *)
LEMMA RowMoves ==
  ASSUME IInv, WaveInv, rows, NEW x \in Runners, pc[x] = "job", NEW row \in Nat, row = r[x].job,
         UNCHANGED <<ctx, r, rows>>, WaveTypeOK',
         \A k \in Conds : x \notin progWait[k] /\ progWait'[k] \subseteq progWait[k],
         \A y \in Runners : y # x => pc'[y] = pc[y] /\ at'[y] = at[y],
         \A z \in Jobs : z # row => entries'[z] = entries[z] /\ decoded'[z] = decoded[z],
         decoded'[row] >= decoded[row], decoded[row] = Width => decoded'[row] = Width,
         wpp_err => wpp_err',
         \/ pc'[x] = "job" /\ ran' = ran /\ RowAt(x, row)'
         \/ pc'[x] # "job" /\ at'[x] = "start" /\ ran' = ran \cup {row} /\ RanInv(row)'
  PROVE  WaveInv'
<1>1. /\ WaveTypeOK /\ QuietInv /\ ctx.nb_jobs \in Nat /\ ctx.nb_jobs <= MaxJobs /\ MaxJobs \in Nat
  BY SliceThreadAssumption DEF WaveInv, QuietInv, IInv, TypeOK, ContextOK, SliceThreadAssumption
<1>2. /\ InBatch /\ row \in Taken /\ row \notin ran /\ row \in Jobs
      /\ \A y \in Runners : y # x /\ pc[y] = "job" => r[y].job # row
  BY <1>1, Located
<1>3. \A z \in Jobs : /\ decoded'[z] \in Nat /\ decoded'[z] >= decoded[z]
                      /\ decoded[z] = Width => decoded'[z] = Width
  <2>1. \A z \in Jobs : decoded'[z] \in Nat /\ decoded[z] \in Nat
    BY <1>1 DEF WaveTypeOK
  <2>2. ASSUME NEW z \in Jobs
        PROVE  decoded'[z] >= decoded[z] /\ (decoded[z] = Width => decoded'[z] = Width)
    <3>1. CASE z = row
      BY <3>1
    <3>2. CASE z # row
      BY <2>1, <3>2
    <3> QED BY <3>1, <3>2
  <2> QED BY <2>1, <2>2
<1>4. QuietInv'
  BY <1>1 DEF QuietInv
<1>5. ASSUME NEW z \in 0 .. ctx.nb_jobs - 1 PROVE RanInv(z)' /\ FreshInv(z)'
  <2>1. RanInv(z) /\ FreshInv(z) /\ z \in Jobs
    BY <1>1 DEF WaveInv, Jobs
  <2>2. Taken' = Taken
    BY DEF Taken
  <2>3. CASE z = row
    <3>1. FreshInv(z)'
      BY <1>2, <2>2, <2>3 DEF FreshInv
    <3>2. RanInv(z)'
      BY <1>2, <2>3 DEF RanInv
    <3> QED BY <3>1, <3>2
  <2>4. CASE z # row
    <3>1. entries'[z] = entries[z] /\ decoded'[z] = decoded[z] /\ (z \in ran' => z \in ran)
      BY <2>1, <2>4
    <3> QED BY <1>2, <2>1, <2>2, <3>1 DEF RanInv, FreshInv, Ended, LastRow
  <2> QED BY <2>3, <2>4
<1>6. ASSUME NEW y \in Runners PROVE AtInv(y)' /\ RowInv(y)'
  <2>1. AtInv(y) /\ RowInv(y)
    BY DEF WaveInv
  <2>2. CASE y = x
    BY <2>2 DEF AtInv, RowInv
  <2>3. CASE y # x
    <3>1. AtInv(y)'
      BY <2>1, <2>3 DEF AtInv
    <3>2. CASE pc[y] = "job"
      <4>1. /\ r[y].job \in Nat /\ r[y].job \in Jobs /\ r[y].job # row
            /\ r[y].job # 0 => r[y].job - 1 \in Jobs
        BY <1>1, <1>2, <2>3, <3>2, Located
      <4>2. RowInv(y)'
        BY <1>1, <1>3, <2>1, <2>3, <3>2, <4>1, RowLeftAlone
      <4> QED BY <3>1, <4>2
    <3>3. CASE pc[y] # "job"
      BY <2>3, <3>1, <3>3 DEF RowInv
    <3> QED BY <3>2, <3>3
  <2> QED BY <2>2, <2>3
<1>7. ASSUME NEW y \in Runners, NEW k \in Conds PROVE WaiterInv(y, k)'
  BY DEF WaveInv, WaiterInv, In, Cond
<1> QED BY <1>4, <1>5, <1>6, <1>7 DEF WaveInv

(* A report counts, and wakes at most one thread. *)
LEMMA ReportEffect ==
  ASSUME WaveTypeOK, NEW row \in Jobs, NEW n \in Nat, Cond(row) \in Conds, ReportProgress2(row, n)
  PROVE  /\ entries' \in [Jobs -> Nat] /\ entries'[row] = entries[row] + n
         /\ \A z \in Jobs : z # row => entries'[z] = entries[z]
         /\ progWait' \in [Conds -> SUBSET Runners]
         /\ \A k \in Conds : progWait'[k] \subseteq progWait[k]
<1>1. /\ entries' \in [Jobs -> Nat] /\ entries'[row] = entries[row] + n
      /\ \A z \in Jobs : z # row => entries'[z] = entries[z]
  BY DEF WaveTypeOK, ReportProgress2
<1>2. CASE progWait' = progWait
  BY <1>1, <1>2 DEF WaveTypeOK
<1>3. CASE \E w \in progWait[Cond(row)] :
             progWait' = [progWait EXCEPT ![Cond(row)] = @ \ {w}]
  BY <1>1, <1>3 DEF WaveTypeOK
<1> QED BY <1>2, <1>3 DEF ReportProgress2

(* Every step of a row keeps what is known of the rows. *)
LEMMA RowStepKeeps ==
  ASSUME IInv, WaveInv, rows, NEW x \in Runners, RowStep(x)
  PROVE  WaveInv'
<1>1. pc[x] = "job"
  BY DEF RowStep, RowStart, AwaitRow, CheckError, Decode, Report, Fail, Finish, In
<1>2. /\ WaveTypeOK /\ QuietInv /\ AtInv(x) /\ RowInv(x) /\ ctx.nb_jobs <= MaxJobs
      /\ \A k \in Conds : WaiterInv(x, k)
      /\ Width \in Nat /\ ctx.nb_jobs \in Nat
  BY WavefrontAssumption DEF WaveInv, QuietInv, WavefrontAssumption, IInv, TypeOK, ContextOK
<1>3. PICK row \in Jobs : /\ row = r[x].job /\ row \in Nat /\ InBatch
                          /\ row # 0 => row - 1 \in Jobs /\ row - 1 \in 0 .. ctx.nb_jobs - 1
                          /\ row \in 0 .. ctx.nb_jobs - 1
  BY <1>1, <1>2, Located
<1>4. RowAt(x, row) /\ Cond(row) \in Conds
  BY <1>1, <1>2, <1>3, CondExists DEF RowInv
<1>5. /\ at = [y \in Runners |-> at[y]] /\ at[x] \in Places
      /\ entries[row] \in Nat /\ decoded[row] \in Nat
      /\ row # 0 => entries[row - 1] \in Nat /\ decoded[row - 1] \in Nat
  BY <1>2, <1>3 DEF WaveTypeOK
<1>6. at[x] # "await" => \A k \in Conds : x \notin progWait[k]
  BY <1>2 DEF WaiterInv, In
<1>7. CASE RowStart(x)
  <2>1. PICK l \in {"await", "fail"} : at' = [at EXCEPT ![x] = l]
    BY <1>7 DEF RowStart, To
  <2>2. /\ at[x] = "start" /\ at'[x] = l /\ \A y \in Runners : y # x => at'[y] = at[y]
        /\ UNCHANGED <<vars, rows, entries, wpp_err, progWait, decoded>>
    BY <1>5, <1>7, <2>1 DEF RowStart, In
  <2>3. WaveTypeOK' /\ RowAt(x, row)'
    BY <1>2, <1>4, <1>5, <2>1, <2>2 DEF WaveTypeOK, Places, RowAt, Unreported
  <2> QED BY <1>1, <1>3, <1>5, <1>6, <2>2, <2>3, RowMoves DEF vars
<1>8. CASE AwaitRow(x)
  <2>1. /\ at[x] = "await" /\ \A k \in Conds : x \notin progWait[k]
        /\ UNCHANGED <<vars, rows, entries, wpp_err, decoded>>
    BY <1>8 DEF AwaitRow, In
  <2>2. CASE FarEnough(row) /\ To(x, "check") /\ UNCHANGED progWait
    <3>1. /\ at' = [at EXCEPT ![x] = "check"]
          /\ at'[x] = "check" /\ \A y \in Runners : y # x => at'[y] = at[y]
      BY <1>5, <2>2 DEF To
    <3>2. WaveTypeOK'
      BY <1>2, <2>1, <2>2, <3>1 DEF WaveTypeOK, Places
    <3>3. wpp_err \/ Ahead(row)
      <4>1. SUFFICES ASSUME row # 0 PROVE wpp_err \/ Ahead(row)
        BY DEF Ahead
      <4>2. entries[row - 1] - entries[row] >= 2
        BY <2>2, <4>1 DEF FarEnough, SHIFT_CTB_WPP
      <4>3. entries[row] = decoded[row]
        BY <1>4, <1>5, <2>1 DEF RowAt, Unreported
      <4>4. RanInv(row - 1) /\ FreshInv(row - 1)
        BY <1>3, <4>1 DEF WaveInv
      <4>5. CASE row - 1 \in ran
        <5>1. row - 1 # LastRow
          BY <1>2, <1>3 DEF LastRow
        <5> QED BY <1>5, <4>2, <4>3, <4>4, <4>5, <5>1 DEF RanInv, Ended, Ahead, SHIFT_CTB_WPP
      <4>6. CASE row - 1 \notin ran
        <5>1. row - 1 \in Taken
          BY <1>3, <1>5, <4>1, <4>2, <4>4 DEF FreshInv
        <5>2. PICK y \in InJob : row - 1 = r[y].job
          BY <1>3, <4>6, <5>1 DEF IInv, BatchInv, TakenInv
        <5>3. RowAt(y, row - 1)
          BY <5>2 DEF WaveInv, RowInv, InJob
        <5>4. entries[row - 1] <= decoded[row - 1]
          BY <1>5, <4>1, <5>3 DEF RowAt, Unreported
        <5> QED BY <1>5, <4>1, <4>2, <4>3, <5>4 DEF Ahead, SHIFT_CTB_WPP
      <4> QED BY <4>5, <4>6
    <3>4. RowAt(x, row)'
      <4>1. (wpp_err \/ Ahead(row))'
        BY <2>1, <3>3 DEF Ahead
      <4> QED BY <1>4, <1>5, <2>1, <3>1, <4>1 DEF RowAt, Unreported
    <3> QED BY <1>1, <1>3, <1>5, <2>1, <2>2, <3>1, <3>2, <3>4, RowMoves DEF vars
  <2>3. CASE /\ ~FarEnough(row)
             /\ progWait' = [progWait EXCEPT ![Cond(row - 1)] = @ \cup {x}] /\ UNCHANGED at
    <3>1. row # 0
      BY <2>3 DEF FarEnough
    <3>2. Cond(row - 1) \in Conds
      BY <1>3, <3>1, CondExists
    <3>3. WaveTypeOK'
      BY <1>2, <2>1, <2>3, <3>2 DEF WaveTypeOK
    <3>4. ASSUME NEW y \in Runners, NEW k \in Conds PROVE WaiterInv(y, k)'
      <4>1. WaiterInv(y, k)
        BY DEF WaveInv
      <4> QED BY <1>1, <1>2, <1>3, <2>1, <2>3, <3>1, <3>2, <4>1 DEF WaiterInv, In, Cond, vars, WaveTypeOK
    <3>5. QuietInv' /\ \A y \in Runners : AtInv(y)' /\ RowInv(y)'
      BY <2>1, <2>3 DEF WaveInv, QuietInv, AtInv, RowInv, RowAt, Unreported, Ended, LastRow, Ahead, vars
    <3>6. ASSUME NEW z \in 0 .. ctx.nb_jobs - 1 PROVE RanInv(z)' /\ FreshInv(z)'
      BY <2>1 DEF WaveInv, RanInv, FreshInv, Ended, LastRow, Taken, InBatch, vars
    <3>7. ctx' = ctx
      BY <2>1 DEF vars
    <3> QED BY <3>3, <3>4, <3>5, <3>6, <3>7 DEF WaveInv
  <2> QED BY <1>3, <1>8, <2>2, <2>3 DEF AwaitRow
<1>9. CASE CheckError(x)
  <2>1. PICK l \in {"finish", "decode"} : at' = [at EXCEPT ![x] = l] /\ (l = "finish" <=> wpp_err)
    BY <1>9 DEF CheckError, To
  <2>2. /\ at[x] = "check" /\ at'[x] = l /\ \A y \in Runners : y # x => at'[y] = at[y]
        /\ UNCHANGED <<vars, rows, entries, wpp_err, progWait, decoded>>
    BY <1>5, <1>9, <2>1 DEF CheckError, In
  <2>3. WaveTypeOK' /\ RowAt(x, row)'
    BY <1>2, <1>4, <1>5, <2>1, <2>2 DEF WaveTypeOK, Places, RowAt, Unreported, Ended, Ahead
  <2> QED BY <1>1, <1>3, <1>5, <1>6, <2>2, <2>3, RowMoves DEF vars
<1>10. CASE Decode(x)
  <2>1. at[x] = "decode" /\ UNCHANGED <<vars, rows, entries, wpp_err, progWait>>
    BY <1>10 DEF Decode, In
  <2>2. CASE To(x, "fail") /\ UNCHANGED decoded
    <3>1. at'[x] = "fail" /\ \A y \in Runners : y # x => at'[y] = at[y]
      BY <1>5, <2>2 DEF To
    <3>2. WaveTypeOK' /\ RowAt(x, row)'
      BY <1>2, <1>4, <1>5, <2>1, <2>2, <3>1 DEF To, WaveTypeOK, Places, RowAt, Unreported
    <3> QED BY <1>1, <1>3, <1>5, <1>6, <2>1, <2>2, <3>1, <3>2, RowMoves DEF vars
  <2>3. CASE /\ decoded' = [decoded EXCEPT ![row] = @ + 1]
             /\ To(x, "report") \/ To(x, "report_end")
    <3>1. /\ at'[x] \in {"report", "report_end"} /\ \A y \in Runners : y # x => at'[y] = at[y]
          /\ at' \in [Runners -> Places]
      BY <1>2, <1>5, <2>3 DEF To, Places, WaveTypeOK
    <3>2. /\ decoded' \in [Jobs -> Nat] /\ decoded'[row] = decoded[row] + 1
          /\ \A z \in Jobs : z # row => decoded'[z] = decoded[z]
      BY <1>2, <2>3 DEF WaveTypeOK
    <3>3. WaveTypeOK'
      BY <1>2, <2>1, <3>1, <3>2 DEF WaveTypeOK
    <3>4. decoded[row] < Width /\ entries[row] = decoded[row] /\ Ahead(row)
      BY <1>4, <1>5, <2>1 DEF RowAt, Unreported
    <3>5. row # 0 => decoded'[row] <= decoded'[row - 1]
      BY <1>2, <1>3, <1>5, <3>2, <3>4 DEF Ahead, SHIFT_CTB_WPP
    <3>6. RowAt(x, row)'
      BY <1>2, <1>5, <2>1, <3>1, <3>2, <3>4, <3>5 DEF RowAt, Unreported
    <3> QED BY <1>1, <1>2, <1>3, <1>5, <1>6, <2>1, <3>1, <3>2, <3>3, <3>4, <3>6, RowMoves DEF vars
  <2> QED BY <1>3, <1>10, <2>2, <2>3 DEF Decode
<1>11. CASE Report(x)
  <2>1. PICK l \in {"finish", "await", "fail"} :
          /\ at' = [at EXCEPT ![x] = l]
          /\ l = "finish" => decoded[row] = Width \/ row = LastRow
          /\ l = "await" => decoded[row] # Width
    BY <1>3, <1>11 DEF Report, To
  <2>2. /\ at[x] \in {"report", "report_end"} /\ at'[x] = l
        /\ \A y \in Runners : y # x => at'[y] = at[y]
        /\ UNCHANGED <<vars, rows, wpp_err, decoded>>
        /\ ReportProgress2(row, 1)
    BY <1>3, <1>5, <1>11, <2>1 DEF Report
  <2>3. /\ entries' \in [Jobs -> Nat] /\ entries'[row] = entries[row] + 1
        /\ \A z \in Jobs : z # row => entries'[z] = entries[z]
        /\ progWait' \in [Conds -> SUBSET Runners]
        /\ \A k \in Conds : progWait'[k] \subseteq progWait[k]
    BY <1>2, <1>4, <2>2, ReportEffect
  <2>4. WaveTypeOK'
    BY <1>2, <2>1, <2>2, <2>3 DEF WaveTypeOK, Places
  <2>5. RowAt(x, row)'
    <3>1. entries'[row] = decoded'[row] /\ decoded'[row] <= Width
          /\ (row # 0 => decoded'[row] <= decoded'[row - 1])
      BY <1>4, <1>5, <2>2, <2>3 DEF RowAt, Unreported
    <3>2. l = "finish" => Ended(row)'
      BY <2>1, <2>2 DEF Ended, LastRow, vars
    <3> QED BY <1>2, <1>5, <2>1, <2>2, <3>1, <3>2 DEF RowAt, Unreported
  <2> QED BY <1>1, <1>3, <1>5, <1>6, <2>2, <2>3, <2>4, <2>5, RowMoves DEF vars
<1>12. CASE Fail(x)
  <2>1. /\ at' = [at EXCEPT ![x] = "finish"] /\ wpp_err'
        /\ at[x] = "fail" /\ at'[x] = "finish" /\ \A y \in Runners : y # x => at'[y] = at[y]
        /\ UNCHANGED <<vars, rows, entries, progWait, decoded>>
    BY <1>5, <1>12 DEF Fail, To, In
  <2>2. WaveTypeOK' /\ RowAt(x, row)'
    BY <1>2, <1>4, <1>5, <1>12, <2>1 DEF Fail, WaveTypeOK, Places, RowAt, Unreported, Ended
  <2> QED BY <1>1, <1>3, <1>5, <1>6, <2>1, <2>2, RowMoves DEF vars
<1>13. CASE Finish(x)
  <2>1. /\ at' = [at EXCEPT ![x] = "start"]
        /\ at[x] = "finish" /\ at'[x] = "start" /\ \A y \in Runners : y # x => at'[y] = at[y]
        /\ UNCHANGED <<ctx, r, rows, wpp_err, decoded>>
        /\ ran' = ran \cup {row} /\ RunJob(x)
        /\ ReportProgress2(row, 2)
    BY <1>3, <1>5, <1>13 DEF Finish, To, In, RunJob, SHIFT_CTB_WPP
  <2>2. pc'[x] # "job" /\ \A y \in Runners : y # x => pc'[y] = pc[y]
    <3>1. pc = [y \in Runners |-> pc[y]]
      BY DEF IInv, TypeOK, LabelsOK
    <3> QED BY <2>1, <3>1 DEF RunJob, Goto
  <2>3. /\ entries' \in [Jobs -> Nat] /\ entries'[row] = entries[row] + 2
        /\ \A z \in Jobs : z # row => entries'[z] = entries[z]
        /\ progWait' \in [Conds -> SUBSET Runners]
        /\ \A k \in Conds : progWait'[k] \subseteq progWait[k]
    BY <1>2, <1>4, <2>1, ReportEffect
  <2>4. WaveTypeOK'
    BY <1>2, <2>1, <2>3 DEF WaveTypeOK, Places
  <2>5. RanInv(row)'
    <3>1. entries[row] = decoded[row] /\ Ended(row)
      BY <1>4, <1>5, <2>1 DEF RowAt, Unreported
    <3>2. Ended(row)'
      BY <2>1, <3>1 DEF Ended, LastRow
    <3> QED BY <1>5, <2>1, <2>3, <3>1, <3>2 DEF RanInv, SHIFT_CTB_WPP
  <2> QED BY <1>1, <1>3, <1>5, <1>6, <2>1, <2>2, <2>3, <2>4, <2>5, RowMoves
<1> QED BY <1>7, <1>8, <1>9, <1>10, <1>11, <1>12, <1>13 DEF RowStep

(* A slice starts with rows of which nothing has been decoded. *)
LEMMA SliceDataKeeps ==
  ASSUME IInv, WaveInv, NEW n \in 1 .. MaxJobs, SliceData(n)
  PROVE  WaveInv'
<1>1. /\ WaveTypeOK /\ QuietInv /\ ContextOK /\ BatchInv /\ LocalsOK /\ Main \in Runners
      /\ \A x \in Runners : x # Main => x \in Workers
      /\ pc = [x \in Runners |-> pc[x]]
      /\ Width \in Nat /\ MaxJobs \in Nat
  BY RunnersAre, WavefrontAssumption, SliceThreadAssumption
     DEF IInv, TypeOK, LabelsOK, WaveInv, WavefrontAssumption, SliceThreadAssumption
<1>2. /\ pc[Main] = "idle" /\ pc'[Main] = "wake" /\ ran' = {}
      /\ \A x \in Runners : x # Main => pc'[x] = pc[x]
      /\ UNCHANGED <<rows, at>>
      /\ entries' = [row \in Jobs |-> 0] /\ decoded' = [row \in Jobs |-> 0] /\ wpp_err' = FALSE
      /\ progWait' = [k \in Conds |-> {}]
  BY <1>1 DEF SliceData, Execute, Goto
<1>3. ctx'.nb_jobs = n
  BY <1>1 DEF SliceData, Execute, ContextOK
<1>4. WaveTypeOK' /\ QuietInv'
  <2>1. /\ entries' \in [Jobs -> Nat] /\ decoded' \in [Jobs -> Nat]
        /\ progWait' \in [Conds -> SUBSET Runners] /\ \A k \in Conds : progWait'[k] = {}
    BY <1>2
  <2>2. WaveTypeOK'
    BY <1>1, <1>2, <2>1 DEF WaveTypeOK
  <2>3. n <= MaxJobs
    BY <1>1
  <2> QED BY <1>3, <2>1, <2>2, <2>3 DEF QuietInv
<1>5. \A x \in Runners : pc[x] # "job" /\ pc'[x] # "job"
  BY <1>1, <1>2 DEF BatchInv, RestInv, InBatch
<1>6. ASSUME NEW x \in Runners
      PROVE  AtInv(x)' /\ RowInv(x)' /\ \A k \in Conds : WaiterInv(x, k)'
  BY <1>2, <1>5 DEF WaveInv, AtInv, RowInv, WaiterInv
<1>7. ASSUME NEW row \in 0 .. n - 1 PROVE RanInv(row)' /\ FreshInv(row)'
  <2>1. row \in Jobs
    BY <1>1 DEF Jobs
  <2> QED BY <1>2, <2>1 DEF RanInv, FreshInv
<1> QED BY <1>3, <1>4, <1>6, <1>7 DEF WaveInv

(* Every step keeps what is known of the rows; without rows nothing of     *)
(* the wavefront changes at all.                                           *)
LEMMA WaveInductive == IInv /\ WaveInv /\ [WaveNext]_allVars => WaveInv'
<1> SUFFICES ASSUME IInv, WaveInv, [WaveNext]_allVars PROVE WaveInv'
  OBVIOUS
<1>1. ASSUME rows, NEW x \in Runners, RowStep(x) PROVE WaveInv'
  BY <1>1, RowStepKeeps
<1>2. ASSUME UNCHANGED wave,
             \/ MainControl \/ Free \/ SpuriousWake \/ UNCHANGED vars
             \/ \E t \in Workers : WorkerControl(t)
      PROVE  WaveInv'
  BY <1>2, ControlStep
<1>3. ASSUME rows, WaveMain PROVE WaveInv'
  BY <1>1, <1>2, <1>3, RunnersAre DEF WaveMain
<1>4. ASSUME rows, NEW t \in Workers, WaveWorker(t) PROVE WaveInv'
  BY <1>1, <1>2, <1>4, RunnersAre DEF WaveWorker
<1>5. ASSUME NEW n \in 1 .. MaxJobs, SliceData(n) PROVE WaveInv'
  BY <1>5, SliceDataKeeps
<1>6. CASE SpuriousProgress
  <2>1. /\ UNCHANGED <<vars, rows, at, entries, wpp_err, decoded>>
        /\ progWait' \in [Conds -> SUBSET Runners]
        /\ \A k \in Conds : progWait'[k] \subseteq progWait[k]
    BY <1>6 DEF SpuriousProgress, WaveInv, WaveTypeOK
  <2>2. WaveTypeOK' /\ QuietInv'
    BY <2>1 DEF WaveInv, WaveTypeOK, QuietInv, vars
  <2>3. ASSUME NEW x \in Runners
        PROVE  AtInv(x)' /\ RowInv(x)' /\ \A k \in Conds : WaiterInv(x, k)'
    <3>1. AtInv(x)' /\ RowInv(x)'
      BY <2>1 DEF WaveInv, AtInv, RowInv, RowAt, Unreported, Ended, LastRow, Ahead, vars
    <3>2. \A k \in Conds : WaiterInv(x, k)'
      BY <2>1 DEF WaveInv, WaiterInv, In, Cond, vars
    <3> QED BY <3>1, <3>2
  <2>4. ctx' = ctx /\ \A row \in 0 .. ctx.nb_jobs - 1 : RanInv(row)' /\ FreshInv(row)'
    BY <2>1 DEF WaveInv, RanInv, FreshInv, Ended, LastRow, Taken, InBatch, vars
  <2> QED BY <2>2, <2>3, <2>4 DEF WaveInv
<1>7. CASE ~rows /\ Next /\ UNCHANGED wave
  <2>1. ASSUME NEW x \in Runners, RunJob(x) PROVE WaveInv'
    <3>1. /\ \A y \in Runners : y # x => pc'[y] = pc[y] 
          /\ pc[x] = "job" /\ pc'[x] = "next" /\ UNCHANGED <<ctx, r>> /\ ~rows' /\ UNCHANGED wave
      BY <1>7, <2>1 DEF RunJob, Goto, IInv, TypeOK, LabelsOK, wave
    <3>2. /\ \A y \in Runners : AtInv(y)' /\ RowInv(y)'
          /\ \A y \in Runners, k \in Conds : WaiterInv(y, k)'
          /\ \A row \in 0 .. ctx.nb_jobs - 1 : RanInv(row)' /\ FreshInv(row)'
      BY <1>7, <3>1 DEF WaveInv, QuietInv, AtInv, RowInv, WaiterInv, RanInv, FreshInv, wave
    <3>3. WaveTypeOK' /\ QuietInv'
      BY <3>1 DEF WaveInv, WaveTypeOK, QuietInv, wave
    <3> QED BY <3>1, <3>2, <3>3 DEF WaveInv
  <2>2. ASSUME NEW n \in 1 .. MaxJobs, NEW main \in BOOLEAN, Execute(n, main) PROVE WaveInv'
    <3>1. /\ ctx'.nb_jobs = n /\ ~rows' /\ UNCHANGED wave /\ n <= MaxJobs
      BY <1>7, <2>2, SliceThreadAssumption
         DEF Execute, IInv, TypeOK, ContextOK, wave, SliceThreadAssumption
    <3>2. /\ \A y \in Runners : AtInv(y)' /\ RowInv(y)'
          /\ \A y \in Runners, k \in Conds : WaiterInv(y, k)'
          /\ \A row \in 0 .. n - 1 : RanInv(row)' /\ FreshInv(row)'
      BY <1>7, <3>1 DEF WaveInv, QuietInv, AtInv, RowInv, WaiterInv, RanInv, FreshInv, wave
    <3>3. WaveTypeOK' /\ QuietInv'
      BY <3>1 DEF WaveInv, WaveTypeOK, QuietInv, wave
    <3> QED BY <3>1, <3>2, <3>3 DEF WaveInv
  <2> QED BY <1>2, <1>7, <2>1, <2>2, RunnersAre
          DEF Next, Call, MainStep, WorkerStep, Freed
<1>8. CASE (Free \/ SpuriousWake \/ Freed) /\ UNCHANGED wave
  BY <1>2, <1>8 DEF Freed
<1>9. CASE UNCHANGED allVars
  BY <1>2, <1>9 DEF allVars
<1> QED BY <1>3, <1>4, <1>5, <1>6, <1>7, <1>8, <1>9 DEF WaveNext

(* A pool that is about to be created has decoded nothing. *)
LEMMA WaveInitially == WaveInit => IInv /\ WaveInv
<1> SUFFICES ASSUME WaveInit PROVE IInv /\ WaveInv
  OBVIOUS
<1>1. IInv /\ Init
  BY InitialInvariant DEF WaveInit
<1>2. ctx.nb_jobs = 0 /\ \A x \in Runners : pc[x] # "job"
  BY <1>1 DEF Init
<1>3. MaxJobs \in Nat
  BY SliceThreadAssumption DEF SliceThreadAssumption
<1>4. rows \in BOOLEAN
  BY DEF WaveInit
<1>5. WaveTypeOK /\ QuietInv
  <2>1. /\ at \in [Runners -> Places] /\ wpp_err \in BOOLEAN
        /\ entries \in [Jobs -> Nat] /\ decoded \in [Jobs -> Nat]
        /\ progWait \in [Conds -> SUBSET Runners] /\ \A k \in Conds : progWait[k] = {}
    BY DEF WaveInit, Places
  <2>2. WaveTypeOK
    BY <1>4, <2>1 DEF WaveTypeOK
  <2> QED BY <1>2, <1>3, <2>1, <2>2 DEF QuietInv
<1>6. /\ \A x \in Runners : AtInv(x) /\ RowInv(x) /\ \A k \in Conds : WaiterInv(x, k)
      /\ \A row \in 0 .. ctx.nb_jobs - 1 : RanInv(row) /\ FreshInv(row)
  BY <1>2 DEF WaveInit, AtInv, RowInv, WaiterInv
<1> QED BY <1>1, <1>5, <1>6 DEF WaveInv

(* The invariant says that no row is ahead of what it refers to. *)
LEMMA InvariantImpliesNeverAhead == IInv /\ WaveInv => NeverAhead
<1> SUFFICES ASSUME IInv, WaveInv, NEW x \in Runners, In(x, "decode"), r[x].job # 0
             PROVE  LET row == r[x].job IN
                    decoded[row - 1] >= decoded[row] + SHIFT_CTB_WPP \/ decoded[row - 1] = Width
  BY DEF NeverAhead
<1>1. RowInv(x) /\ AtInv(x) /\ pc[x] = "job" /\ at[x] = "decode"
  BY DEF WaveInv, In
<1>2. RowAt(x, r[x].job)
  BY <1>1 DEF RowInv, AtInv
<1> QED BY <1>1, <1>2 DEF RowAt, Ahead

(* And that a slice without an error has been decoded to its end. *)
LEMMA InvariantImpliesComplete == IInv /\ WaveInv => RowsComplete
<1> SUFFICES ASSUME IInv, WaveInv, rows, ~InBatch, ~wpp_err, NEW row \in 0 .. ctx.nb_jobs - 2
             PROVE  decoded[row] = Width
  BY DEF RowsComplete
<1>1. ctx.nb_jobs \in Nat
  BY DEF IInv, TypeOK, ContextOK
<1>2. row \in 0 .. ctx.nb_jobs - 1 /\ row # LastRow
  BY <1>1 DEF LastRow
<1>3. row \in ran /\ RanInv(row)
  BY <1>2 DEF IInv, BatchInv, OffInv, AllRan, WaveInv
<1> QED BY <1>2, <1>3 DEF RanInv, Ended

-----------------------------------------------------------------------------
(* Four things make a set of four. *)
LEMMA FourMembers ==
  ASSUME NEW S, IsFiniteSet(S), NEW a \in S, NEW b \in S, NEW c \in S, NEW d \in S,
         a # b, a # c, a # d, b # c, b # d, c # d
  PROVE  Cardinality(S) >= 4
<1>1. /\ IsFiniteSet({a}) /\ Cardinality({a}) = 1
  BY FS_Singleton
<1>2. IsFiniteSet({a} \cup {b}) /\ Cardinality({a} \cup {b}) = 2
  BY <1>1, FS_AddElement
<1>3. IsFiniteSet(({a} \cup {b}) \cup {c}) /\ Cardinality(({a} \cup {b}) \cup {c}) = 3
  BY <1>2, FS_AddElement
<1>4. IsFiniteSet((({a} \cup {b}) \cup {c}) \cup {d}) /\ Cardinality((({a} \cup {b}) \cup {c}) \cup {d}) = 4
  BY <1>3, FS_AddElement
<1>5. (({a} \cup {b}) \cup {c}) \cup {d} \subseteq S
  OBVIOUS
<1>6. Cardinality(S) \in Nat
  BY FS_CardinalityType
<1> QED BY <1>4, <1>5, <1>6, FS_Subset

(* Two things make a set of two. *)
LEMMA TwoMembers ==
  ASSUME NEW S, IsFiniteSet(S), NEW a \in S, NEW b \in S, a # b
  PROVE  Cardinality(S) >= 2
<1>1. /\ IsFiniteSet({a}) /\ Cardinality({a}) = 1
  BY FS_Singleton
<1>2. IsFiniteSet({a} \cup {b}) /\ Cardinality({a} \cup {b}) = 2
  BY <1>1, FS_AddElement
<1>3. {a} \cup {b} \subseteq S /\ Cardinality(S) \in Nat
  BY FS_CardinalityType
<1> QED BY <1>2, <1>3, FS_Subset

(* A row that somebody waits for has not been run, nor, if it is not in    *)
(* progress, been taken.                                                   *)
LEMMA AwaitedRow ==
  ASSUME IInv, WaveInv, rows, NEW y \in Runners, pc[y] = "job", at[y] = "await",
         NEW b \in Nat, b = r[y].job, b # 0, ~FarEnough(b)
  PROVE  /\ b - 1 \notin ran
         /\ b - 1 \in Taken => \E z \in InJob : r[z].job = b - 1
<1>1. /\ WaveTypeOK /\ ctx.nb_jobs \in Nat /\ ctx.nb_jobs <= MaxJobs /\ RowInv(y)
  BY DEF WaveInv, QuietInv, IInv, TypeOK, ContextOK
<1>2. InBatch /\ b \in Jobs /\ b - 1 \in Jobs /\ b - 1 \in 0 .. ctx.nb_jobs - 1
  BY <1>1, Located
<1>3. /\ entries[b] \in Nat /\ decoded[b] \in Nat /\ entries[b - 1] \in Nat /\ decoded[b - 1] \in Nat
      /\ entries[b] = decoded[b] /\ decoded[b] <= decoded[b - 1]
  BY <1>1, <1>2 DEF WaveTypeOK, RowInv, RowAt, Unreported
<1>4. b - 1 \notin ran
  <2>1. RanInv(b - 1)
    BY <1>2 DEF WaveInv
  <2> QED BY <1>3, <2>1 DEF RanInv, FarEnough, SHIFT_CTB_WPP
<1>5. TakenInv
  BY DEF IInv, BatchInv
<1> QED BY <1>2, <1>4, <1>5 DEF TakenInv

-----------------------------------------------------------------------------
(* Rows end in order.                                                      *)

(* A row that has been let go to its last CTB has only rows above it that  *)
(* have been run.                                                          *)
LEMMA LetGo ==
  ASSUME IInv, WaveInv, RowOrderInv, rows, ~wpp_err, NEW x \in Runners, In(x, "await"),
         FarEnough(r[x].job), decoded[r[x].job] + 1 >= Width
  PROVE  AllRanAbove(r[x].job)
<1>1. /\ WaveTypeOK /\ ctx.nb_jobs \in Nat /\ ctx.nb_jobs <= MaxJobs /\ RowInv(x)
      /\ Width \in Nat /\ Width > 0
  BY WavefrontAssumption DEF WaveInv, QuietInv, IInv, TypeOK, ContextOK, WavefrontAssumption
<1>2. PICK b \in Nat : b = r[x].job /\ b \in Jobs /\ InBatch /\ pc[x] = "job" /\ b \in 0 .. ctx.nb_jobs - 1
                      /\ (b # 0 => b - 1 \in Jobs /\ b - 1 \in 0 .. ctx.nb_jobs - 1)
  BY <1>1, Located DEF In
<1>3. CASE b = 0
  BY <1>2, <1>3 DEF AllRanAbove
<1>4. CASE b # 0
  <2>1. /\ entries[b] = decoded[b] /\ entries[b] \in Nat /\ entries[b - 1] \in Nat
        /\ decoded[b - 1] \in Nat
    BY <1>1, <1>2, <1>4 DEF WaveTypeOK, RowInv, RowAt, Unreported, In
  <2>2. entries[b - 1] > Width
    BY <1>1, <1>2, <1>4, <2>1 DEF FarEnough, SHIFT_CTB_WPP
  <2>3. b - 1 \in Taken
    BY <1>1, <1>2, <1>4, <2>2 DEF WaveInv, FreshInv
  <2>4. ASSUME NEW z \in InJob, r[z].job = b - 1 PROVE FALSE
    <3>1. RowAt(z, b - 1)
      BY <2>4 DEF WaveInv, RowInv, InJob
    <3>2. entries[b - 1] <= decoded[b - 1] /\ decoded[b - 1] <= Width
      BY <2>1, <3>1 DEF RowAt, Unreported
    <3> QED BY <1>1, <2>1, <2>2, <3>2
  <2>5. b - 1 \in ran
    BY <1>2, <2>3, <2>4 DEF IInv, BatchInv, TakenInv
  <2>6. decoded[b - 1] = Width
    <3>1. Ended(b - 1)
      BY <1>2, <1>4, <2>5 DEF WaveInv, RanInv
    <3>2. b - 1 # LastRow
      BY <1>1, <1>2 DEF LastRow
    <3> QED BY <3>1, <3>2 DEF Ended
  <2>7. AllRanAbove(b - 1)
    BY <1>2, <1>4, <2>6 DEF RowOrderInv
  <2>8. \A q \in 0 .. b - 1 : q \in 0 .. (b - 1) - 1 \/ q = b - 1
    BY <1>2
  <2> QED BY <1>2, <2>5, <2>7, <2>8 DEF AllRanAbove
<1> QED BY <1>3, <1>4

(* Steps in which no row gets further keep the order. *)
LEMMA OrderUnmoved ==
  ASSUME IInv, WaveInv, RowOrderInv, rows' = rows, decoded' = decoded, wpp_err => wpp_err',
         ran \subseteq ran',
         \A x \in Runners : (In(x, "check") \/ In(x, "decode"))' =>
             (In(x, "check") \/ In(x, "decode")) /\ r'[x] = r[x]
  PROVE  RowOrderInv'
<1> SUFFICES ASSUME rows, ~wpp_err
             PROVE  /\ \A row \in Jobs : decoded[row] = Width => AllRanAbove(row)'
                    /\ \A x \in Runners : EndsNext(x)'
  BY DEF RowOrderInv, AllRanAbove
<1>1. ASSUME NEW row \in Jobs, decoded[row] = Width PROVE AllRanAbove(row)'
  BY <1>1 DEF RowOrderInv, AllRanAbove
<1>2. ASSUME NEW x \in Runners, (In(x, "check") \/ In(x, "decode"))',
             decoded[r[x].job] + 1 >= Width
      PROVE  r'[x] = r[x] /\ AllRanAbove(r[x].job)'
  BY <1>2 DEF RowOrderInv, EndsNext, AllRanAbove
<1>3. ASSUME NEW x \in Runners PROVE EndsNext(x)'
  <2> SUFFICES ASSUME (In(x, "check") \/ In(x, "decode"))', (decoded[r[x].job] + 1 >= Width)'
               PROVE  AllRanAbove(r[x].job)'
    BY DEF EndsNext
  <2>1. r'[x] = r[x]
    OBVIOUS
  <2> QED BY <1>2, <2>1 DEF AllRanAbove
<1> QED BY <1>1, <1>3

LEMMA RowStepOrders ==
  ASSUME IInv, WaveInv, RowOrderInv, rows, NEW x \in Runners, RowStep(x)
  PROVE  RowOrderInv'
<1>1. pc[x] = "job" /\ WaveTypeOK /\ ctx.nb_jobs <= MaxJobs /\ at = [y \in Runners |-> at[y]]
  BY DEF WaveInv, WaveTypeOK, QuietInv, RowStep, RowStart, AwaitRow, CheckError, Decode, Report,
         Fail, Finish, In
<1>2. CASE RowStart(x) \/ Report(x) \/ Fail(x)
  <2>1. /\ UNCHANGED <<rows, decoded, ran, r, pc>>
        /\ \A y \in Runners : y # x => at'[y] = at[y]
        /\ at'[x] \notin {"check", "decode"}
    BY <1>1, <1>2 DEF RowStart, Report, Fail, To, vars
  <2>2. wpp_err => wpp_err'
    BY <1>2, Zenon DEF RowStart, Report, Fail
  <2> QED BY <2>1, <2>2, OrderUnmoved DEF In
<1>3. CASE Finish(x)
  <2>1. /\ UNCHANGED <<rows, decoded, r, wpp_err>> /\ ran \subseteq ran'
        /\ \A y \in Runners : y # x => at'[y] = at[y] /\ pc'[y] = pc[y]
        /\ at'[x] \notin {"check", "decode"}
    BY <1>1, <1>3 DEF Finish, To, RunJob, Goto, IInv, TypeOK, LabelsOK
  <2> QED BY <2>1, OrderUnmoved DEF In
<1>4. CASE CheckError(x)
  <2>1. /\ UNCHANGED <<rows, decoded, ran, r, pc, wpp_err>>
        /\ \A y \in Runners : y # x => at'[y] = at[y]
        /\ at[x] = "check" /\ In(x, "check")
    BY <1>1, <1>4 DEF CheckError, To, In, vars
  <2> QED BY <2>1, OrderUnmoved DEF In
<1>5. CASE AwaitRow(x)
  <2>1. /\ UNCHANGED <<rows, decoded, ran, r, pc, wpp_err>> /\ In(x, "await")
        /\ \A y \in Runners : y # x => at'[y] = at[y]
        /\ at' = at \/ FarEnough(r[x].job)
    BY <1>1, <1>5 DEF AwaitRow, To, vars
  <2>2. SUFFICES ASSUME ~wpp_err, NEW y \in Runners, (In(y, "check") \/ In(y, "decode"))',
                        decoded[r[y].job] + 1 >= Width
                 PROVE  AllRanAbove(r[y].job)
    BY <2>1 DEF RowOrderInv, EndsNext, AllRanAbove
  <2>3. CASE at'[y] = at[y]
    BY <2>1, <2>2, <2>3 DEF RowOrderInv, EndsNext, In
  <2>4. CASE at'[y] # at[y]
    BY <2>1, <2>2, <2>4, LetGo
  <2> QED BY <2>3, <2>4
<1>6. CASE Decode(x)
  <2>1. PICK row \in Jobs : row = r[x].job /\ row \in Nat
                           /\ \A y \in Runners : y # x /\ pc[y] = "job" => r[y].job # row
    BY <1>1, Located
  <2>2. /\ UNCHANGED <<rows, ran, r, pc, wpp_err>> /\ In(x, "decode")
        /\ \A y \in Runners : y # x => at'[y] = at[y]
        /\ at'[x] \notin {"check", "decode"}
        /\ decoded' = decoded \/ decoded' = [decoded EXCEPT ![row] = @ + 1]
    BY <1>1, <1>6, <2>1 DEF Decode, To, vars
  <2>3. /\ \A q \in Jobs : q # row => decoded'[q] = decoded[q]
        /\ decoded'[row] \in {decoded[row], decoded[row] + 1}
        /\ Width \in Nat /\ decoded[row] \in Nat
    BY <1>1, <2>1, <2>2, WavefrontAssumption DEF WaveTypeOK, WavefrontAssumption
  <2> SUFFICES ASSUME ~wpp_err
               PROVE  /\ \A q \in Jobs : decoded'[q] = Width => AllRanAbove(q)
                      /\ \A y \in Runners : EndsNext(y)'
    BY <2>2 DEF RowOrderInv, AllRanAbove
  <2>4. ASSUME NEW q \in Jobs, decoded'[q] = Width PROVE AllRanAbove(q)
    <3>1. CASE decoded[q] = Width
      BY <3>1 DEF RowOrderInv
    <3>2. CASE decoded[q] # Width
      <4>1. q = row /\ decoded[row] + 1 >= Width
        BY <2>3, <2>4, <3>2
      <4> QED BY <2>1, <2>2, <4>1 DEF RowOrderInv, EndsNext
    <3> QED BY <3>1, <3>2
  <2>5. ASSUME NEW y \in Runners PROVE EndsNext(y)'
    <3> SUFFICES ASSUME (In(y, "check") \/ In(y, "decode"))', (decoded[r[y].job] + 1 >= Width)'
                 PROVE  AllRanAbove(r[y].job)'
      BY DEF EndsNext
    <3>1. y # x /\ (In(y, "check") \/ In(y, "decode")) /\ r'[y] = r[y] /\ pc[y] = "job"
      BY <2>2 DEF In
    <3>2. r[y].job \in Jobs /\ r[y].job # row
      BY <1>1, <2>1, <3>1, Located
    <3>3. decoded'[r[y].job] = decoded[r[y].job]
      BY <2>3, <3>2
    <3> QED BY <2>2, <3>1, <3>3 DEF RowOrderInv, EndsNext, AllRanAbove
  <2> QED BY <2>4, <2>5
<1> QED BY <1>2, <1>3, <1>4, <1>5, <1>6 DEF RowStep

LEMMA OrderInductive == IInv /\ WaveInv /\ RowOrderInv /\ [WaveNext]_allVars => RowOrderInv'
<1> SUFFICES ASSUME IInv, WaveInv, RowOrderInv, [WaveNext]_allVars PROVE RowOrderInv'
  OBVIOUS
<1>1. ASSUME rows, NEW x \in Runners, RowStep(x) PROVE RowOrderInv'
  BY <1>1, RowStepOrders
<1>2. ASSUME UNCHANGED wave,
             \/ MainControl \/ Free \/ SpuriousWake \/ UNCHANGED vars
             \/ \E t \in Workers : WorkerControl(t)
      PROVE  RowOrderInv'
  <2>1. UNCHANGED <<rows, decoded, wpp_err, at>>
    BY <1>2 DEF wave
  <2>2. ASSUME NEW x \in Runners, Begin(x) \/ TakeNext(x) PROVE RowOrderInv'
    <3>1. /\ pc[x] # "job" /\ \A y \in Runners : y # x => pc'[y] = pc[y] /\ r'[y] = r[y]
          /\ ran' = ran
      BY <2>2, TakenFresh
    <3>2. at'[x] = "start"
      BY <2>1, <3>1 DEF WaveInv, AtInv
    <3> QED BY <2>1, <3>1, <3>2, OrderUnmoved DEF In
  <2>3. CASE \/ Create \/ CreateFails \/ Handshake \/ Wake \/ MainFunc \/ AwaitDone \/ Stop \/ Join
             \/ Free \/ SpuriousWake \/ UNCHANGED vars
             \/ \E t \in Workers : Park(t) \/ WakeUp(t) \/ Notify(t)
    <3>1. ran' = ran /\ \A x \in Runners : (pc'[x] = "job" <=> pc[x] = "job") /\ r'[x] = r[x]
      BY <2>3, OthersKeepRows
    <3> QED BY <2>1, <3>1, OrderUnmoved DEF In
  <2> QED BY <1>2, <2>2, <2>3, RunnersAre DEF MainControl, WorkerControl
<1>3. ASSUME rows, WaveMain PROVE RowOrderInv'
  BY <1>1, <1>2, <1>3, RunnersAre DEF WaveMain
<1>4. ASSUME rows, NEW t \in Workers, WaveWorker(t) PROVE RowOrderInv'
  BY <1>1, <1>2, <1>4, RunnersAre DEF WaveWorker
<1>5. ASSUME NEW n \in 1 .. MaxJobs, SliceData(n) PROVE RowOrderInv'
  <2>1. decoded' = [row \in Jobs |-> 0] /\ at' = at
    BY <1>5 DEF SliceData
  <2>2. \A row \in Jobs : decoded'[row] # Width
    BY <2>1, WavefrontAssumption DEF WavefrontAssumption
  <2>3. \A x \in Runners : pc'[x] # "job" \/ pc[x] = "job"
    BY <1>5 DEF SliceData, Execute, Goto, IInv, TypeOK, LabelsOK
  <2>4. ~InBatch /\ ctx.nb_jobs <= MaxJobs
    BY <1>5 DEF SliceData, Execute, InBatch, WaveInv, QuietInv
  <2>5. \A x \in Runners : pc[x] # "job"
    BY <2>4, Located
  <2>6. \A x \in Runners : EndsNext(x)'
    BY <2>3, <2>5 DEF EndsNext, In
  <2> QED BY <2>2, <2>6 DEF RowOrderInv
<1>6. CASE SpuriousProgress
  <2>1. UNCHANGED <<vars, rows, at, wpp_err, decoded>>
    BY <1>6 DEF SpuriousProgress
  <2> QED BY <2>1, OrderUnmoved DEF In, vars
<1>7. CASE ~rows /\ Next /\ UNCHANGED wave
  BY <1>7 DEF RowOrderInv, wave
<1>8. CASE (Free \/ SpuriousWake \/ Freed) /\ UNCHANGED wave
  BY <1>2, <1>8 DEF Freed
<1>9. CASE UNCHANGED allVars
  BY <1>2, <1>9 DEF allVars
<1> QED BY <1>3, <1>4, <1>5, <1>6, <1>7, <1>8, <1>9 DEF WaveNext

-----------------------------------------------------------------------------
(* Numbers with the same remainder are n apart at least. *)
LEMMA Apart ==
  ASSUME NEW n \in Nat, n > 0, NEW a \in Nat, NEW b \in Nat, a < b, a % n = b % n
  PROVE  b >= a + n
<1>1. PICK p \in Int, q \in Int : a = (n * p) + (a % n) /\ b = (n * q) + (b % n)
  BY Z3
<1>2. b - a = n * q - n * p
  BY <1>1
<1>3. n * q - n * p = n * (q - p)
  BY <1>1
<1>4. q - p >= 1
  <2>1. CASE q - p <= 0
    <3>1. n * (q - p) <= 0
      BY <1>1, <2>1
    <3> QED BY <1>2, <1>3, <3>1
  <2> QED BY <1>1, <2>1
<1>5. n * (q - p) >= n
  BY <1>1, <1>4
<1> QED BY <1>2, <1>3, <1>5

(* A row and the one nb_threads below it cannot both be in progress while  *)
(* nothing in between has been run: there are not as many threads.         *)
LEMMA NotThatMany ==
  ASSUME IInv, InBatch, NEW a \in Nat, NEW b \in Nat, b >= a + ctx.nb_threads, a > 0,
         b \in Taken, \A q \in a .. b : q \notin ran
  PROVE  FALSE
<1>1. /\ TypeOK /\ SizeInv /\ CountInv /\ ContextOK /\ TakenInv
      /\ \A t \in Workers : RestsInv(t)
  BY DEF IInv, TypeOK, BatchInv
<1>2. /\ ctx.nb_active \in Nat /\ ctx.first_job \in Nat /\ ctx.nb_threads \in Nat
      /\ ctx.current_job \in Nat /\ ctx.nb_jobs \in Nat
      /\ ctx.nb_active <= ctx.nb_threads /\ ctx.first_job <= ctx.nb_active
      /\ IsFiniteSet(ToFail) /\ IsFiniteSet(ToBegin) /\ ToBegin \subseteq ToFail
      /\ Cardinality(ToBegin) = ctx.nb_active - ctx.first_job
      /\ Cardinality(ToFail) <= ctx.nb_active /\ Cardinality(ToFail) \in Nat
  BY <1>1, CountBounds, FS_CardinalityType DEF SizeInv, CountInv, ContextOK
<1>3. PICK inProgress : inProgress = {r[x].job : x \in InJob}
  OBVIOUS
<1>4. InJob \subseteq ToFail /\ InJob \cap ToBegin = {}
  <2>1. \A x \in ToBegin : x \notin InJob
    BY <1>1, RunnersAre DEF ToBegin, Pending, InJob, RestsInv, Rests, Parked
  <2> QED BY <2>1 DEF InJob, ToFail, Running
<1>5. IsFiniteSet(InJob) /\ Cardinality(InJob) \in Nat
  BY <1>2, <1>4, FS_Subset, FS_CardinalityType
<1>6. Cardinality(InJob) + Cardinality(ToBegin) <= ctx.nb_active
  <2>1. InJob \cup ToBegin \subseteq ToFail
    BY <1>2, <1>4
  <2>2. Cardinality(InJob \cup ToBegin) <= Cardinality(ToFail)
    BY <1>2, <2>1, FS_Subset
  <2>3. Cardinality(InJob \cup ToBegin) = Cardinality(InJob) + Cardinality(ToBegin) - Cardinality(InJob \cap ToBegin)
    BY <1>2, <1>5, FS_Union
  <2>4. Cardinality(InJob \cap ToBegin) = 0
    BY <1>4, FS_EmptySet
  <2> QED BY <1>2, <1>5, <2>2, <2>3, <2>4
<1>7. IsFiniteSet(inProgress) /\ Cardinality(inProgress) <= Cardinality(InJob)
  <2>1. PICK f : f = [x \in InJob |-> r[x].job]
    OBVIOUS
  <2>2. f \in Surjection(InJob, inProgress)
    BY <1>3, <2>1, Zenon DEF Surjection
  <2> QED BY <1>5, <2>2, FS_Surjection
<1>8. /\ IsFiniteSet(ctx.first_job .. ctx.nb_active - 1)
      /\ Cardinality(ctx.first_job .. ctx.nb_active - 1) = ctx.nb_active - ctx.first_job
  <2>1. ctx.first_job \in Int /\ ctx.nb_active - 1 \in Int
    BY <1>2
  <2>2. /\ IsFiniteSet(ctx.first_job .. ctx.nb_active - 1)
        /\ Cardinality(ctx.first_job .. ctx.nb_active - 1)
              = IF ctx.first_job > ctx.nb_active - 1 THEN 0 ELSE ctx.nb_active - 1 - ctx.first_job + 1
    BY <2>1, FS_Interval
  <2> QED BY <1>2, <2>2
<1>9. a .. b \subseteq inProgress \cup (ctx.first_job .. ctx.nb_active - 1)
  <2> SUFFICES ASSUME NEW q \in a .. b, q \notin ctx.first_job .. ctx.nb_active - 1
               PROVE  q \in inProgress
    OBVIOUS
  <2>1. q \in Nat /\ q \in 0 .. ctx.nb_jobs - 1 /\ q <= b
    BY <1>2 DEF Taken
  <2>2. q < ctx.first_job \/ ctx.nb_active <= q
    BY <1>2, <2>1
  <2>3. b < ctx.current_job \/ b < ctx.first_job
    BY DEF Taken
  <2>4. q \in Taken
    BY <1>2, <2>1, <2>2, <2>3 DEF Taken
  <2> QED BY <1>1, <1>3, <2>4 DEF TakenInv
<1>10. Cardinality(a .. b) = b - a + 1
  <2>1. a \in Int /\ b \in Int /\ ~(a > b)
    BY <1>2
  <2> QED BY <2>1, FS_Interval
<1>11. Cardinality(a .. b) <= ctx.nb_active
  <2> DEFINE begins == ctx.first_job .. ctx.nb_active - 1
  <2>1. IsFiniteSet(inProgress \cup begins)
    BY <1>7, <1>8, FS_Union
  <2>2. Cardinality(a .. b) <= Cardinality(inProgress \cup begins)
    BY <1>9, <2>1, FS_Subset
  <2>3. Cardinality(inProgress \cup begins)
          = Cardinality(inProgress) + Cardinality(begins) - Cardinality(inProgress \cap begins)
    BY <1>7, <1>8, FS_Union
  <2>4. /\ Cardinality(inProgress \cap begins) \in Nat /\ Cardinality(inProgress) \in Nat
        /\ Cardinality(inProgress \cup begins) \in Nat /\ Cardinality(a .. b) \in Int
    <3>1. IsFiniteSet(inProgress \cap begins)
      BY <1>7, FS_Intersection
    <3> QED BY <1>7, <1>10, <2>1, <3>1, FS_CardinalityType
  <2> HIDE DEF begins
  <2>5. Cardinality(begins) = ctx.nb_active - ctx.first_job
    BY <1>8 DEF begins
  <2> QED BY <1>2, <1>5, <1>6, <1>7, <2>2, <2>3, <2>4, <2>5
<1> QED BY <1>2, <1>10, <1>11

(* As long as no row has failed, two rows that wait on the same condition  *)
(* variable would have to have nb_threads rows from the one to the other,  *)
(* none of which has been run.                                             *)
LEMMA OrderedWaitersCalm ==
  ASSUME IInv, WaveInv, WakeInv, RowOrderInv, ~wpp_err, rows, NEW x \in Runners, NEW y \in Runners,
         NEW k \in Conds, x \in progWait[k], y \in progWait[k],
         NEW a \in Nat, NEW b \in Nat, a = r[x].job, b = r[y].job, a < b
  PROVE  FALSE
<1>1. /\ WaveTypeOK /\ ctx.nb_jobs \in Nat /\ ctx.nb_jobs <= MaxJobs
      /\ SizesInv /\ ContextOK
  BY DEF WaveInv, QuietInv, IInv, TypeOK, PoolInv, ContextOK
<1>2. /\ WaiterInv(x, k) /\ WaiterInv(y, k)
  BY DEF WaveInv
<1>3. /\ pc[x] = "job" /\ pc[y] = "job" /\ at[x] = "await" /\ at[y] = "await"
      /\ a # 0 /\ b # 0 /\ ~FarEnough(a) /\ ~FarEnough(b)
      /\ k = (a - 1) % ctx.nb_threads /\ k = (b - 1) % ctx.nb_threads
  BY <1>2 DEF WaiterInv, In, Cond, WakeInv, Calm, NeedsWait
<1>4. /\ InBatch /\ b \in Taken /\ b \notin ran /\ b \in 0 .. ctx.nb_jobs - 1
      /\ a \in Taken /\ a \notin ran
  BY <1>1, <1>3, Located
<1>5. ctx.nb_threads \in Nat /\ ctx.nb_threads > 0
  BY <1>1, <1>4 DEF SizesInv, InBatch, Closing, ContextOK
<1>6. b >= a + ctx.nb_threads
  <2>1. a - 1 \in Nat /\ b - 1 \in Nat /\ a - 1 < b - 1
    BY <1>3
  <2>2. b - 1 >= (a - 1) + ctx.nb_threads
    BY <1>3, <1>5, <2>1, Apart
  <2> QED BY <1>5, <2>2
<1>7. a - 1 \notin ran
  BY <1>3, AwaitedRow
<1>8. ASSUME NEW q \in a .. b, q \in ran PROVE FALSE
  <2>1. q \in Nat /\ q # b /\ q \in 0 .. ctx.nb_jobs - 1 /\ q # LastRow /\ a - 1 \in 0 .. q - 1
    BY <1>1, <1>3, <1>4, <1>8 DEF LastRow
  <2>2. RanInv(q) /\ q \in Jobs
    BY <1>1, <2>1, SliceThreadAssumption DEF WaveInv, Jobs, SliceThreadAssumption
  <2>3. decoded[q] = Width
    BY <1>8, <2>1, <2>2 DEF RanInv, Ended
  <2>4. AllRanAbove(q)
    BY <2>2, <2>3 DEF RowOrderInv
  <2> QED BY <1>7, <2>1, <2>4 DEF AllRanAbove
<1> QED BY <1>3, <1>4, <1>6, <1>8, NotThatMany

(* With at most three threads, two rows that wait on the same condition    *)
(* variable take four: one for each of them, and one for each of the rows  *)
(* above them.                                                             *)
LEMMA OrderedWaitersFew ==
  ASSUME IInv, WaveInv, WakeInv, Few, rows, NEW x \in Runners, NEW y \in Runners,
         NEW k \in Conds, x \in progWait[k], y \in progWait[k],
         NEW a \in Nat, NEW b \in Nat, a = r[x].job, b = r[y].job, a < b
  PROVE  FALSE
<1>1. /\ WaveTypeOK /\ ctx.nb_jobs \in Nat /\ ctx.nb_jobs <= MaxJobs
      /\ TypeOK /\ SizeInv /\ CountInv /\ ContextOK /\ SizesInv
      /\ \A t \in Workers : RestsInv(t)
  BY DEF WaveInv, QuietInv, IInv, TypeOK, ContextOK, BatchInv, PoolInv
<1>2. /\ WaiterInv(x, k) /\ WaiterInv(y, k)
  BY DEF WaveInv
<1>3. /\ pc[x] = "job" /\ pc[y] = "job" /\ at[x] = "await" /\ at[y] = "await"
      /\ a # 0 /\ b # 0 /\ ~FarEnough(a) /\ ~FarEnough(b)
      /\ k = (a - 1) % ctx.nb_threads /\ k = (b - 1) % ctx.nb_threads
  BY <1>2 DEF WaiterInv, In, Cond, WakeInv, Calm, NeedsWait
<1>4. /\ InBatch /\ a \in Taken /\ b \in Taken
  BY <1>1, <1>3, Located
<1>5. ctx.nb_threads \in {1, 2, 3}
  BY <1>1, <1>4 DEF Few, SizesInv, InBatch, Closing, ContextOK
<1>6. b - 1 >= (a - 1) + ctx.nb_threads
  BY <1>3, <1>5
<1>7. /\ ctx.nb_active \in Nat /\ ctx.first_job \in Nat /\ ctx.current_job \in Nat
      /\ ctx.nb_active <= ctx.nb_threads
      /\ IsFiniteSet(ToFail) /\ IsFiniteSet(ToBegin)
      /\ Cardinality(ToBegin) = ctx.nb_active - ctx.first_job
      /\ Cardinality(ToFail) <= ctx.nb_active /\ Cardinality(ToFail) \in Nat
  BY <1>1, <1>4, CountBounds, FS_CardinalityType DEF SizeInv, CountInv, ContextOK
<1>8. x \in ToFail /\ y \in ToFail /\ x # y /\ InJob \subseteq ToFail
  BY <1>3 DEF ToFail, Running, InJob
<1>9. Cardinality(ToFail) >= 2
  BY <1>7, <1>8, TwoMembers
<1>10. ctx.nb_threads \in {2, 3}
  BY <1>5, <1>7, <1>9
<1>11. PICK z \in InJob : r[z].job = b - 1
  <2>1. b - 1 \in Taken
    BY <1>1, <1>4, <1>5, <1>6, <1>7, <1>3 DEF Taken
  <2> QED BY <1>3, <2>1, AwaitedRow
<1>12. \E w \in ToFail : w \notin InJob \/ r[w].job = a - 1
  <2>1. CASE a - 1 \in Taken
    BY <1>3, <1>8, <2>1, AwaitedRow
  <2>2. CASE a - 1 \notin Taken
    <3>1. ctx.first_job < ctx.nb_active
      BY <1>1, <1>3, <1>4, <1>7, <2>2 DEF Taken
    <3>2. PICK w \in ToBegin : TRUE
      BY <1>7, <3>1, FS_EmptySet
    <3>3. w \in ToFail /\ Pending(w)
      BY <3>2 DEF ToBegin, ToFail
    <3>4. w \notin InJob
      BY <1>1, <3>3, RunnersAre DEF Pending, InJob, RestsInv, Rests, Parked, ToFail
    <3> QED BY <3>3, <3>4
  <2> QED BY <2>1, <2>2
<1>13. PICK w \in ToFail : w \notin InJob \/ r[w].job = a - 1
  BY <1>12
<1>14. x \in InJob /\ y \in InJob /\ z \in ToFail
  BY <1>3, <1>8, <1>11 DEF InJob
<1>15. /\ x # z /\ y # z /\ x # w /\ y # w /\ z # w
  BY <1>3, <1>6, <1>10, <1>11, <1>13, <1>14
<1>16. Cardinality(ToFail) >= 4
  BY <1>7, <1>8, <1>13, <1>14, <1>15, FourMembers
<1> QED BY <1>5, <1>7, <1>16

(* So nobody waits where somebody else waits.                              *)
LEMMA WaitersAlone ==
  ASSUME IInv, WaveInv, WakeInv, RowOrderInv, Calm, NEW x \in Runners, NEW y \in Runners,
         NEW k \in Conds, x \in progWait[k], y \in progWait[k]
  PROVE  x = y
<1>1. rows /\ pc[x] = "job" /\ pc[y] = "job" /\ ctx.nb_jobs <= MaxJobs
  BY DEF WaveInv, QuietInv, WaiterInv, In
<1>2. r[x].job \in Nat /\ r[y].job \in Nat /\ (x # y => r[x].job # r[y].job)
  BY <1>1, Located
<1>3. ~(r[x].job < r[y].job) /\ ~(r[y].job < r[x].job)
  BY <1>1, <1>2, OrderedWaitersFew, OrderedWaitersCalm DEF Calm
<1> QED BY <1>2, <1>3

LEMMA InvariantImpliesOneWaiter == IInv /\ WaveInv /\ WakeInv /\ RowOrderInv => OneWaiter
<1> SUFFICES ASSUME IInv, WaveInv, WakeInv, RowOrderInv, Calm, NEW k \in Conds
             PROVE  Cardinality(progWait[k]) <= 1
  BY DEF OneWaiter, Calm
<1>1. \A x, y \in progWait[k] : x \in Runners /\ x = y
  BY WaitersAlone DEF WaveInv, WaveTypeOK
<1>2. CASE progWait[k] = {}
  BY <1>2, FS_EmptySet
<1>3. CASE progWait[k] # {}
  <2>1. PICK x : progWait[k] = {x}
    BY <1>1, <1>3
  <2>2. Cardinality({x}) = 1
    BY FS_Singleton
  <2> QED BY <2>1, <2>2
<1> QED BY <1>2, <1>3

(* As long as nothing is reported nobody waits in vain.                    *)
LEMMA WaitersUnmoved ==
  ASSUME IInv, WaveInv, WakeInv, InBatch => ctx'.nb_threads = ctx.nb_threads,
         entries' = entries, \A k \in Conds : progWait'[k] \subseteq progWait[k],
         wpp_err => wpp_err', \A x \in Runners : pc[x] = "job" => r'[x] = r[x]
  PROVE  WakeInv'
<1> SUFFICES ASSUME Calm', NEW x \in Runners, NEW k \in Conds, x \in progWait'[k]
             PROVE  (r[x].job # 0 /\ ~FarEnough(r[x].job))'
  BY DEF WakeInv, NeedsWait
<1>1. x \in progWait[k] /\ pc[x] = "job" /\ ctx.nb_jobs <= MaxJobs
  BY DEF WaveInv, QuietInv, WaiterInv, In
<1>2. InBatch /\ r[x].job # 0 /\ ~FarEnough(r[x].job)
  BY <1>1, Located DEF WakeInv, NeedsWait, Calm, Few
<1> QED BY <1>1, <1>2 DEF FarEnough

(* A report wakes whoever waits for the row.                               *)
LEMMA ReportWakes ==
  ASSUME IInv, WaveInv, WakeInv, RowOrderInv, NEW x \in Runners, pc[x] = "job",
         \A k \in Conds : x \notin progWait[k],
         NEW n \in Nat, ReportProgress2(r[x].job, n), UNCHANGED <<ctx, r, wpp_err>>
  PROVE  WakeInv'
<1> SUFFICES ASSUME Calm', NEW y \in Runners, NEW k \in Conds, y \in progWait'[k]
             PROVE  (r[y].job # 0 /\ ~FarEnough(r[y].job))'
  BY DEF WakeInv, NeedsWait
<1>1. WaveTypeOK /\ ctx.nb_jobs <= MaxJobs /\ Calm
  BY DEF WaveInv, QuietInv, Calm, Few
<1>2. PICK row \in Jobs : row = r[x].job /\ row \in Nat /\ InBatch
  BY <1>1, Located
<1>3. Cond(row) \in Conds
  BY <1>2, CondExists
<1>4. /\ \A z \in Jobs : z # row => entries'[z] = entries[z]
      /\ \A c \in Conds : progWait'[c] \subseteq progWait[c]
  BY <1>1, <1>2, <1>3, ReportEffect
<1>5. y \in progWait[k] /\ y # x /\ WaiterInv(y, k)
  BY <1>4 DEF WaveInv
<1>6. PICK b \in Jobs : b = r[y].job /\ b \in Nat /\ b # row /\ b # 0 /\ ~FarEnough(b) /\ b - 1 \in Jobs
                        /\ k = Cond(b - 1)
  BY <1>1, <1>2, <1>5, Located DEF WakeInv, NeedsWait, WaiterInv, In
<1>7. b - 1 # row
  <2> SUFFICES ASSUME b - 1 = row PROVE FALSE
    OBVIOUS
  <2>1. k = Cond(row)
    BY <1>6
  <2>2. PICK w \in progWait[k] : progWait' = [progWait EXCEPT ![k] = @ \ {w}]
    BY <1>2, <1>5, <2>1 DEF ReportProgress2
  <2>3. w = y
    BY <1>1, <1>5, <2>2, WaitersAlone DEF WaveTypeOK
  <2> QED BY <1>1, <2>2, <2>3 DEF WaveTypeOK
<1>8. entries'[b] = entries[b] /\ entries'[b - 1] = entries[b - 1]
  BY <1>4, <1>6, <1>7
<1>9. ~FarEnough(b)' /\ r'[y].job = b
  BY <1>6, <1>8 DEF FarEnough
<1> QED BY <1>6, <1>9 DEF FarEnough

(* Every step of a row keeps it. *)
LEMMA RowStepWakes ==
  ASSUME IInv, WaveInv, WakeInv, RowOrderInv, rows, NEW x \in Runners, RowStep(x)
  PROVE  WakeInv'
<1>1. pc[x] = "job" /\ WaveTypeOK /\ \A k \in Conds : WaiterInv(x, k)
  BY DEF WaveInv, RowStep, RowStart, AwaitRow, CheckError, Decode, Report, Fail, Finish, In
<1>2. CASE RowStart(x) \/ CheckError(x) \/ Decode(x) \/ Fail(x)
  <2>1. UNCHANGED <<vars, entries, progWait>>
    BY <1>2 DEF RowStart, CheckError, Decode, Fail
  <2>2. wpp_err => wpp_err'
    BY <1>2, Zenon DEF RowStart, CheckError, Decode, Fail
  <2> QED BY <2>1, <2>2, WaitersUnmoved DEF vars
<1>3. CASE AwaitRow(x)
  <2>1. CASE UNCHANGED progWait
    BY <1>3, <2>1, WaitersUnmoved DEF AwaitRow, vars
  <2>2. CASE /\ ~FarEnough(r[x].job)
             /\ progWait' = [progWait EXCEPT ![Cond(r[x].job - 1)] = @ \cup {x}]
    <3>1. UNCHANGED <<ctx, r, entries, wpp_err>>
      BY <1>3 DEF AwaitRow, vars
    <3>2. ASSUME Calm, NEW y \in Runners PROVE NeedsWait(y)'
      <4>1. CASE y = x
        BY <2>2, <3>1, <4>1 DEF NeedsWait, FarEnough
      <4>2. CASE y # x
        <5>1. (\E k \in Conds : y \in progWait'[k]) => \E k \in Conds : y \in progWait[k]
          BY <1>1, <2>2, <4>2 DEF WaveTypeOK
        <5> QED BY <3>1, <3>2, <5>1 DEF WakeInv, NeedsWait, FarEnough
      <4> QED BY <4>1, <4>2
    <3> QED BY <3>1, <3>2 DEF WakeInv, Calm, Few
  <2> QED BY <1>3, <2>1, <2>2 DEF AwaitRow
<1>4. CASE Report(x)
  <2>1. \A k \in Conds : x \notin progWait[k]
    BY <1>1, <1>4 DEF Report, WaiterInv, In
  <2> QED BY <1>1, <1>4, <2>1, ReportWakes DEF Report, vars
<1>5. CASE Finish(x)
  <2>1. \A k \in Conds : x \notin progWait[k]
    BY <1>1, <1>5 DEF Finish, WaiterInv, In
  <2> QED BY <1>1, <1>5, <2>1, ReportWakes DEF Finish, RunJob, SHIFT_CTB_WPP
<1> QED BY <1>2, <1>3, <1>4, <1>5 DEF RowStep

LEMMA WakeInductive == IInv /\ WaveInv /\ WakeInv /\ RowOrderInv /\ [WaveNext]_allVars => WakeInv'
<1> SUFFICES ASSUME IInv, WaveInv, WakeInv, RowOrderInv, [WaveNext]_allVars PROVE WakeInv'
  OBVIOUS
<1>1. ASSUME rows, NEW x \in Runners, RowStep(x) PROVE WakeInv'
  BY <1>1, RowStepWakes
<1>2. ASSUME UNCHANGED wave,
             \/ MainControl \/ Free \/ SpuriousWake \/ UNCHANGED vars
             \/ \E t \in Workers : WorkerControl(t)
      PROVE  WakeInv'
  <2>1. UNCHANGED <<entries, progWait, wpp_err>>
    BY <1>2 DEF wave
  <2>2. ASSUME NEW x \in Runners, Begin(x) \/ TakeNext(x) PROVE WakeInv'
    <3>1. /\ pc[x] # "job" /\ \A y \in Runners : y # x => r'[y] = r[y]
          /\ ctx'.nb_threads = ctx.nb_threads
      BY <2>2, TakenFresh
    <3> QED BY <2>1, <3>1, WaitersUnmoved
  <2>3. CASE \/ Create \/ CreateFails \/ Handshake \/ Wake \/ MainFunc \/ AwaitDone \/ Stop \/ Join
             \/ Free \/ SpuriousWake \/ UNCHANGED vars
             \/ \E t \in Workers : Park(t) \/ WakeUp(t) \/ Notify(t)
    <3>1. /\ \A x \in Runners : r'[x] = r[x]
          /\ InBatch => ctx'.nb_threads = ctx.nb_threads
      BY <2>3, OthersKeepRows
    <3> QED BY <2>1, <3>1, WaitersUnmoved
  <2> QED BY <1>2, <2>2, <2>3, RunnersAre DEF MainControl, WorkerControl
<1>3. ASSUME rows, WaveMain PROVE WakeInv'
  BY <1>1, <1>2, <1>3, RunnersAre DEF WaveMain
<1>4. ASSUME rows, NEW t \in Workers, WaveWorker(t) PROVE WakeInv'
  BY <1>1, <1>2, <1>4, RunnersAre DEF WaveWorker
<1>5. ASSUME NEW n \in 1 .. MaxJobs, SliceData(n) PROVE WakeInv'
  BY <1>5 DEF SliceData, WakeInv, NeedsWait
<1>6. CASE SpuriousProgress
  <2>1. UNCHANGED <<vars, entries, wpp_err>> /\ \A k \in Conds : progWait'[k] \subseteq progWait[k]
    BY <1>6 DEF SpuriousProgress, WaveInv, WaveTypeOK
  <2> QED BY <2>1, WaitersUnmoved DEF vars
<1>7. CASE ~rows /\ Next /\ UNCHANGED wave
  BY <1>7 DEF WaveInv, QuietInv, WakeInv, NeedsWait, wave
<1>8. CASE (Free \/ SpuriousWake \/ Freed) /\ UNCHANGED wave
  BY <1>2, <1>8 DEF Freed
<1>9. CASE UNCHANGED allVars
  BY <1>2, <1>9 DEF allVars
<1> QED BY <1>3, <1>4, <1>5, <1>6, <1>7, <1>8, <1>9 DEF WaveNext

-----------------------------------------------------------------------------
(* The invariant of the pool, of the rows and of their waiters holds       *)
(* always, for any number of threads, rows and CTBs.                       *)
WaveAll == IInv /\ WaveInv /\ RowOrderInv /\ WakeInv
WaveSpec == WaveInit /\ [][WaveNext]_allVars

LEMMA WaveStarts == WaveInit => WaveAll
<1>1. WaveInit => WakeInv
  BY DEF WaveInit, WakeInv, NeedsWait
<1>2. WaveInit => RowOrderInv
  BY WavefrontAssumption DEF WaveInit, RowOrderInv, EndsNext, In, WavefrontAssumption
<1> QED BY <1>1, <1>2, WaveInitially DEF WaveAll

LEMMA WaveStep == WaveAll /\ [WaveNext]_allVars => WaveAll'
  BY RowsAreJobs, Inductive, WaveInductive, OrderInductive, WakeInductive DEF WaveAll

THEOREM WaveCorrect == WaveSpec => []WaveAll
  BY WaveStarts, WaveStep, PTL DEF WaveSpec

(* No row is decoded ahead of what it refers to, whatever fails.           *)
THEOREM RowsNeverAhead == WaveSpec => []NeverAhead
  BY WaveCorrect, InvariantImpliesNeverAhead, PTL DEF WaveAll

(* A slice that was decoded without an error has been decoded to its end.  *)
THEOREM RowsAreComplete == WaveSpec => []RowsComplete
  BY WaveCorrect, InvariantImpliesComplete, PTL DEF WaveAll

(* Whatever the number of threads, a report never wakes the wrong row      *)
(* before a row has failed: rows end in order, so that two that share a    *)
(* condition variable never wait together.  With at most three threads it  *)
(* does not afterwards either.                                             *)
THEOREM RowsWakeTheRightOne == WaveSpec => []OneWaiter
  BY WaveCorrect, InvariantImpliesOneWaiter, PTL DEF WaveAll

=============================================================================
