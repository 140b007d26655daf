---------------------------- MODULE SliceThread ----------------------------
(***************************************************************************)
(* libavutil/slicethread.c: the thread pool behind slice-threaded codecs   *)
(* (libavcodec/pthread_slice.c) and filters (libavfilter/pthread.c).  The  *)
(* thread that owns the pool (Main) runs a batch of jobs together with the *)
(* workers; every thread of a batch takes a first job with its thread      *)
(* number and then further jobs from a shared counter.                     *)
(*                                                                         *)
(* A critical section is one step, and so is each access to an atomic      *)
(* counter.  A worker holds its own mutex except inside pthread_cond_wait, *)
(* so the owner of mutex[t] is kept explicitly where it matters.           *)
(***************************************************************************)
EXTENDS Integers, FiniteSets

CONSTANTS MaxThreads,   \* the most threads of a pool, its owner included
          Pools,        \* the pools that are created
          MaxJobs       \* bound: jobs of a batch

(* nb_threads and main_func (given or not) are arguments of                *)
(* avpriv_slicethread_create; calls bounds the calls of execute.           *)
Pool == [nb_threads : 1 .. MaxThreads, main_func : BOOLEAN, calls : Nat]

ASSUME SliceThreadAssumption ==
  /\ MaxThreads \in Nat \ {0} /\ MaxJobs \in Nat \ {0} /\ Pools \subseteq Pool
  /\ \A q \in Pools : q.main_func => q.nb_threads < MaxThreads

Workers == 0 .. MaxThreads - 2
Main == MaxThreads - 1
Runners == Workers \cup {Main}
Jobs == 0 .. MaxJobs - 1

VARIABLES
  pc,      \* pc[x]: where thread x is
  i,       \* Main's loop index
  ctx,     \* AVSliceThread
  r,       \* r[x]: locals of run_jobs in thread x
  wdone,   \* wdone[t]: w->done
  wait,    \* wait[t]: threads in pthread_cond_wait on w->cond
  mutex,   \* mutex[t]: who holds w->mutex across steps: t, Main or nobody
  doneWait,\* Main is in pthread_cond_wait on done_cond
  ran,     \* history: the jobs of the batch whose worker_func has returned
  batches  \* calls of execute that are left

vars == <<pc, i, ctx, r, wdone, wait, mutex, doneWait, ran, batches>>
pool == <<wdone, wait, mutex>>

None == -1

Init ==
  /\ pc = [x \in Runners |-> IF x = Main THEN "create" ELSE "none"]
  /\ i = 0
  /\ \E q \in Pools :
       /\ ctx = [nb_threads |-> q.nb_threads, main_func |-> q.main_func, nb_active |-> 0,
                 nb_jobs |-> 0, first_job |-> 0, current_job |-> 0, done |-> FALSE,
                 finished |-> FALSE, main |-> FALSE]
       /\ batches = q.calls
  /\ r = [x \in Runners |-> [first |-> 0, job |-> 0, nb_jobs |-> 0, nb_active |-> 0,
                             last |-> FALSE]]
  /\ wdone = [t \in Workers |-> FALSE]
  /\ wait = [t \in Workers |-> {}]
  /\ mutex = [t \in Workers |-> None]
  /\ doneWait = FALSE
  /\ ran = {}

(* As avpriv_slicethread_create and _free compute it. *)
NbWorkers == IF ctx.main_func THEN ctx.nb_threads ELSE ctx.nb_threads - 1

Goto(x, label) == pc' = [pc EXCEPT ![x] = label]
-----------------------------------------------------------------------------
(* avpriv_slicethread_create: start the workers one after the other, each  *)
(* under its mutex, and wait until it is ready for work.                   *)
Create ==
  /\ pc[Main] = "create"
  /\ IF i < NbWorkers
     THEN /\ mutex' = [mutex EXCEPT ![i] = Main]
          /\ pc' = [pc EXCEPT ![Main] = "handshake", ![i] = "start"]
     ELSE Goto(Main, "idle") /\ UNCHANGED mutex
  /\ UNCHANGED <<i, ctx, r, wdone, wait, doneWait, ran, batches>>

(* pthread_create fails: only the threads that exist are freed. *)
CreateFails ==
  /\ pc[Main] = "create" /\ i < NbWorkers
  /\ ctx' = [ctx EXCEPT !.nb_threads = IF ctx.main_func THEN i ELSE i + 1]
  /\ Goto(Main, "free")
  /\ UNCHANGED <<i, r, pool, doneWait, ran, batches>>

Handshake ==
  /\ pc[Main] = "handshake" /\ Main \notin wait[i] /\ mutex[i] \in {None, Main}
  /\ mutex' = [mutex EXCEPT ![i] = None]
  /\ IF wdone[i]
     THEN i' = i + 1 /\ Goto(Main, "create") /\ UNCHANGED wait
     ELSE wait' = [wait EXCEPT ![i] = {Main}] /\ UNCHANGED <<i, pc>>
  /\ UNCHANGED <<ctx, r, wdone, doneWait, ran, batches>>

-----------------------------------------------------------------------------
(* thread_worker: announce that the worker is ready, and wait for a job.   *)
(* w->mutex is held from here to the wait and from the wait to here.       *)
Park(t) ==
  /\ \/ pc[t] = "start" /\ mutex[t] = None
     \/ pc[t] = "park"
  /\ wdone' = [wdone EXCEPT ![t] = TRUE]
  /\ wait' = [wait EXCEPT ![t] = {t}]     \* the signal takes Main out of it
  /\ mutex' = [mutex EXCEPT ![t] = None]
  /\ Goto(t, "wait")
  /\ UNCHANGED <<i, ctx, r, doneWait, ran, batches>>

WakeUp(t) ==
  /\ pc[t] = "wait" /\ t \notin wait[t] /\ mutex[t] = None
  /\ \/ /\ wdone[t]
        /\ wait' = [wait EXCEPT ![t] = {t}] /\ UNCHANGED <<pc, mutex>>
     \/ /\ ~wdone[t] /\ ctx.finished
        /\ Goto(t, "exit") /\ UNCHANGED <<wait, mutex>>
     \/ /\ ~wdone[t] /\ ~ctx.finished
        /\ Goto(t, "begin") /\ mutex' = [mutex EXCEPT ![t] = t] /\ UNCHANGED wait
  /\ UNCHANGED <<i, ctx, r, wdone, doneWait, ran, batches>>

(* run_jobs: read the batch, take a first job, ... *)
Begin(x) ==
  /\ pc[x] = "begin"
  /\ r' = [r EXCEPT ![x] = [first |-> ctx.first_job, job |-> ctx.first_job,
                            nb_jobs |-> ctx.nb_jobs, nb_active |-> ctx.nb_active,
                            last |-> FALSE]]
  /\ ctx' = [ctx EXCEPT !.first_job = @ + 1]
  /\ Goto(x, "job")
  /\ UNCHANGED <<i, pool, doneWait, ran, batches>>

(* ... run it, ... *)
RunJob(x) ==
  /\ pc[x] = "job"
  /\ ran' = ran \cup {r[x].job}
  /\ Goto(x, "next")
  /\ UNCHANGED <<i, ctx, r, pool, doneWait, batches>>

(* ... and take the next one while there is one.  Every thread's last      *)
(* attempt fails, and the thread whose attempt is the last of all is the   *)
(* last to finish.                                                         *)

(* Mutant of IsLast: the first attempt that fails. *)
IsLastEarly(x) == ctx.current_job >= r[x].nb_jobs

IsLast(x) == ctx.current_job = r[x].nb_jobs + r[x].nb_active - 1

TakeNext(x) ==
  LET job == ctx.current_job IN
  /\ pc[x] = "next"
  /\ ctx' = [ctx EXCEPT !.current_job = @ + 1]
  /\ r' = [r EXCEPT ![x].job = job, ![x].last = IsLast(x)]
  /\ Goto(x, IF job < r[x].nb_jobs THEN "job" ELSE "ran")
  /\ UNCHANGED <<i, pool, doneWait, ran, batches>>

(* The last worker tells Main; the others just go back to wait. *)
Notify(t) ==
  /\ pc[t] = "ran"
  /\ IF r[t].last
     THEN ctx' = [ctx EXCEPT !.done = TRUE] /\ doneWait' = FALSE
     ELSE UNCHANGED <<ctx, doneWait>>
  /\ Goto(t, "park")
  /\ UNCHANGED <<i, r, pool, ran, batches>>

-----------------------------------------------------------------------------
(* avpriv_slicethread_execute: set up the batch, wake the workers it needs,*)
(* take part in it or run main_func, and wait for the last worker.         *)
Execute(nb_jobs, execute_main) ==
  /\ pc[Main] = "idle" /\ batches > 0
  /\ LET active == IF nb_jobs < ctx.nb_threads THEN nb_jobs ELSE ctx.nb_threads IN
     ctx' = [ctx EXCEPT !.nb_jobs = nb_jobs, !.nb_active = active, !.first_job = 0,
                        !.current_job = active, !.main = ctx.main_func /\ execute_main]
  /\ i' = 0 /\ ran' = {} /\ batches' = batches - 1
  /\ r' = [r EXCEPT ![Main].last = FALSE]
  /\ Goto(Main, "wake")
  /\ UNCHANGED <<pool, doneWait>>

ActiveWorkers == IF ctx.main THEN ctx.nb_active ELSE ctx.nb_active - 1

(* w->done = 0 and the signal, under w->mutex. *)
Rouse(t) ==
  /\ mutex[t] = None
  /\ wdone' = [wdone EXCEPT ![t] = FALSE]
  /\ wait' = [wait EXCEPT ![t] = {}]

Wake ==
  /\ pc[Main] = "wake"
  /\ IF i < ActiveWorkers
     THEN Rouse(i) /\ i' = i + 1 /\ UNCHANGED pc
     ELSE Goto(Main, IF ctx.main THEN "main_func" ELSE "begin") /\ UNCHANGED <<i, wdone, wait>>
  /\ UNCHANGED <<ctx, r, mutex, doneWait, ran, batches>>

MainFunc == /\ pc[Main] = "main_func" /\ Goto(Main, "ran")
            /\ UNCHANGED <<i, ctx, r, pool, doneWait, ran, batches>>

(* Mutant of AwaitDone: done is not reset. *)
AwaitDoneKept ==
  /\ pc[Main] = "ran" /\ ~doneWait
  /\ IF r[Main].last \/ ctx.done
     THEN Goto(Main, "idle") /\ UNCHANGED doneWait
     ELSE doneWait' = TRUE /\ UNCHANGED pc
  /\ UNCHANGED <<i, ctx, r, pool, ran, batches>>

AwaitDone ==
  /\ pc[Main] = "ran" /\ ~doneWait
  /\ \/ r[Main].last /\ Goto(Main, "idle") /\ UNCHANGED <<ctx, doneWait>>
     \/ /\ ~r[Main].last /\ ctx.done
        /\ ctx' = [ctx EXCEPT !.done = FALSE]
        /\ Goto(Main, "idle") /\ UNCHANGED doneWait
     \/ /\ ~r[Main].last /\ ~ctx.done
        /\ doneWait' = TRUE /\ UNCHANGED <<ctx, pc>>
  /\ UNCHANGED <<i, r, pool, ran, batches>>

-----------------------------------------------------------------------------
(* avpriv_slicethread_free, by the user or after a failed create. *)
Free ==
  /\ pc[Main] \in {"idle", "free"}
  /\ ctx' = [ctx EXCEPT !.finished = TRUE]
  /\ i' = 0 /\ Goto(Main, "stop")
  /\ UNCHANGED <<r, pool, doneWait, ran, batches>>

Stop ==
  /\ pc[Main] = "stop"
  /\ IF i < NbWorkers
     THEN Rouse(i) /\ i' = i + 1 /\ UNCHANGED pc
     ELSE i' = 0 /\ Goto(Main, "join") /\ UNCHANGED <<wdone, wait>>
  /\ UNCHANGED <<ctx, r, mutex, doneWait, ran, batches>>

Join ==
  /\ pc[Main] = "join"
  /\ IF i < NbWorkers
     THEN pc[i] = "exit" /\ i' = i + 1 /\ UNCHANGED pc
     ELSE Goto(Main, "freed") /\ UNCHANGED i
  /\ UNCHANGED <<ctx, r, pool, doneWait, ran, batches>>

-----------------------------------------------------------------------------
SpuriousWake ==
  /\ \/ \E t \in Workers : /\ wait[t] # {}
                           /\ wait' = [wait EXCEPT ![t] = {}] /\ UNCHANGED doneWait
     \/ doneWait /\ doneWait' = FALSE /\ UNCHANGED wait
  /\ UNCHANGED <<pc, i, ctx, r, wdone, mutex, ran, batches>>

Call == Free \/ \E n \in 1 .. MaxJobs, main \in BOOLEAN : Execute(n, main)

WorkerControl(t) == Park(t) \/ WakeUp(t) \/ Begin(t) \/ TakeNext(t) \/ Notify(t)
MainControl == \/ Create \/ CreateFails \/ Handshake \/ Wake \/ MainFunc
               \/ Begin(Main) \/ TakeNext(Main) \/ AwaitDone \/ Stop \/ Join
               \/ pc[Main] = "free" /\ Free

WorkerStep(t) == WorkerControl(t) \/ RunJob(t)
MainStep == MainControl \/ RunJob(Main)

Freed == pc[Main] = "freed" /\ UNCHANGED vars

Next == Call \/ MainStep \/ (\E t \in Workers : WorkerStep(t)) \/ SpuriousWake \/ Freed

(* Every thread that can run does: neither the owner of the pool nor a     *)
(* worker stops in the middle of a call, and jobs end.  The owner need not *)
(* make another call.                                                      *)
Fairness == WF_vars(MainStep) /\ \A t \in Workers : WF_vars(WorkerStep(t))

Spec == Init /\ [][Next]_vars /\ Fairness
-----------------------------------------------------------------------------
(* No job is run twice in a batch, by whomever, and the threads that run   *)
(* jobs at the same time have different thread numbers, all smaller than   *)
(* the number of active threads: callers index scratch memory with them.   *)
InJob == {x \in Runners : pc[x] = "job"}
JobsExclusive ==
  /\ \A x \in InJob : r[x].job \notin ran /\ r[x].job < ctx.nb_jobs /\ r[x].first < ctx.nb_active
  /\ \A x, y \in InJob : x # y => r[x].job # r[y].job /\ r[x].first # r[y].first

(* execute returns when every job has been run and no thread is, or will   *)
(* be, inside run_jobs: the next batch overwrites what run_jobs reads.  A  *)
(* done flag belongs to the batch that waits for it: all its jobs have     *)
(* been run, and Main is going to look; one left over from an earlier      *)
(* batch would end the wait of the next one at once.                       *)
InBatch == pc[Main] \in {"wake", "main_func", "begin", "job", "next", "ran"}
AllRan == ran = 0 .. ctx.nb_jobs - 1
BatchComplete ==
  /\ ~InBatch =>
       /\ AllRan
       /\ \A t \in Workers : pc[t] \notin {"begin", "job", "next"}
       /\ ~ctx.finished => \A t \in Workers : pc[t] = "wait" => wdone[t]
  /\ ctx.done => InBatch /\ AllRan /\ ~r[Main].last

(* Every batch is exact: each job is run once, by one thread at a time     *)
(* with a number of its own, and all of them before execute returns.       *)
BatchesExact == JobsExclusive /\ BatchComplete

(* The pool is a parallel loop: execute runs each of its jobs once and     *)
(* returns when all have been run.                                         *)
Batch == INSTANCE ParallelLoop WITH
  todo <- IF InBatch THEN (0 .. ctx.nb_jobs - 1) \ ran ELSE {},
  open <- InBatch
ImplementsLoop == Batch!Spec
=============================================================================
