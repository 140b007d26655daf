----------------------------- MODULE Wavefront -----------------------------
(***************************************************************************)
(* Wavefront parallel decoding: libavcodec/hevcdec.c runs one job per row  *)
(* of coding tree blocks (CTBs) on the slice thread pool, and a row        *)
(* follows the row above it at a distance of SHIFT_CTB_WPP blocks, kept by *)
(* ff_thread_report_progress2 and ff_thread_await_progress2 of             *)
(* libavcodec/pthread_slice.c.  The rows in progress share one condition   *)
(* variable per thread, which is signalled and not broadcast.              *)
(*                                                                         *)
(* The module composes with SliceThread: RunJob, there one step, is here   *)
(* the steps of hls_decode_entry_wpp, the last of which is RunJob.  Other  *)
(* pools keep their jobs of one step.                                      *)
(***************************************************************************)
EXTENDS SliceThread

CONSTANTS
  Width,     \* CTBs of a row
  WavePools  \* the pools whose jobs are rows

ASSUME WavefrontAssumption ==
  Width \in Nat \ {0} /\ WavePools \subseteq Pools /\ \A q \in WavePools : ~q.main_func

SHIFT_CTB_WPP == 2

VARIABLES
  rows,     \* are the jobs of this pool rows?
  at,       \* at[x]: where thread x is in hls_decode_entry_wpp
  entries,  \* entries[row]: reported progress
  wpp_err,
  progWait, \* progWait[k]: threads waiting on progress_cond[k]
  decoded   \* history: CTBs of each row that have been decoded

wave == <<rows, at, entries, wpp_err, progWait, decoded>>
allVars == <<vars, wave>>

Conds == 0 .. MaxThreads - 1

(* Mutant of Cond: all rows use the same condition variable. *)
CondZero(row) == 0

Cond(row) == row % ctx.nb_threads
LastRow == ctx.nb_jobs - 1

WaveInit ==
  /\ Init
  /\ rows = ([nb_threads |-> ctx.nb_threads, main_func |-> ctx.main_func,
              calls |-> batches] \in WavePools)
  /\ at = [x \in Runners |-> "start"]
  /\ entries = [row \in Jobs |-> 0]
  /\ wpp_err = FALSE
  /\ progWait = [k \in Conds |-> {}]
  /\ decoded = [row \in Jobs |-> 0]

In(x, label) == pc[x] = "job" /\ at[x] = label
To(x, label) == at' = [at EXCEPT ![x] = label]

-----------------------------------------------------------------------------
(* ff_thread_report_progress2: one waiter is signalled, if there is one. *)
ReportProgress2(row, n) ==
  /\ entries' = [entries EXCEPT ![row] = @ + n]
  /\ LET k == Cond(row) IN
     \/ progWait[k] = {} /\ UNCHANGED progWait
     \/ \E w \in progWait[k] : progWait' = [progWait EXCEPT ![k] = @ \ {w}]

(* Mutant of FarEnough: one CTB of distance is enough. *)
FarEnoughByOne(row) == row # 0 => entries[row - 1] - entries[row] >= 1

(* The condition of ff_thread_await_progress2. *)
FarEnough(row) == row # 0 => entries[row - 1] - entries[row] >= SHIFT_CTB_WPP

(* Set up the reader of the row's entry point; that of the first row has   *)
(* been set up already.                                                    *)
RowStart(x) ==
  /\ In(x, "start")
  /\ \/ To(x, "await")
     \/ r[x].job # 0 /\ To(x, "fail")
  /\ UNCHANGED <<vars, rows, entries, wpp_err, progWait, decoded>>

AwaitRow(x) ==
  LET row == r[x].job IN
  /\ In(x, "await") /\ \A k \in Conds : x \notin progWait[k]
  /\ \/ FarEnough(row) /\ To(x, "check") /\ UNCHANGED progWait
     \/ /\ ~FarEnough(row)
        /\ progWait' = [progWait EXCEPT ![Cond(row - 1)] = @ \cup {x}] /\ UNCHANGED at
  /\ UNCHANGED <<vars, rows, entries, wpp_err, decoded>>

(* An error in any row ends the others. *)
CheckError(x) ==
  /\ In(x, "check")
  /\ To(x, IF wpp_err THEN "finish" ELSE "decode")
  /\ UNCHANGED <<vars, rows, entries, wpp_err, progWait, decoded>>

(* Decode a CTB.  It may be damaged, or end the data within the row. *)
Decode(x) ==
  /\ In(x, "decode")
  /\ \/ To(x, "fail") /\ UNCHANGED decoded
     \/ /\ decoded' = [decoded EXCEPT ![r[x].job] = @ + 1]
        /\ \/ To(x, "report")
           \/ decoded'[r[x].job] # Width /\ To(x, "report_end")
  /\ UNCHANGED <<vars, rows, entries, wpp_err, progWait>>

(* Report the CTB; go on, or end the row where it ends, or, before that,   *)
(* where the data ends, which only the last row may do.                    *)
Report(x) ==
  LET row == r[x].job IN
  /\ pc[x] = "job" /\ at[x] \in {"report", "report_end"}
  /\ ReportProgress2(row, 1)
  /\ To(x, IF decoded[row] = Width THEN "finish"
           ELSE IF at[x] = "report" THEN "await"
           ELSE IF row # LastRow THEN "fail" ELSE "finish")
  /\ UNCHANGED <<vars, rows, wpp_err, decoded>>

(* Mutant of Fail: the other rows are not told of the error. *)
FailSilently(x) ==
  /\ In(x, "fail") /\ To(x, "finish")
  /\ UNCHANGED <<vars, rows, entries, wpp_err, progWait, decoded>>

Fail(x) ==
  /\ In(x, "fail") /\ wpp_err' = TRUE /\ To(x, "finish")
  /\ UNCHANGED <<vars, rows, entries, progWait, decoded>>

(* Every way out of the row lets the next row through. *)
Finish(x) ==
  /\ In(x, "finish") /\ RunJob(x) /\ To(x, "start")
  /\ ReportProgress2(r[x].job, SHIFT_CTB_WPP)
  /\ UNCHANGED <<rows, wpp_err, decoded>>

RowStep(x) == \/ RowStart(x) \/ AwaitRow(x) \/ CheckError(x) \/ Decode(x)
              \/ Report(x) \/ Fail(x) \/ Finish(x)

-----------------------------------------------------------------------------
(* hls_slice_data_wpp: ff_alloc_entries, which initializes the mutexes and *)
(* condition variables anew, ff_reset_entries, and execute2.               *)
SliceData(nb_rows) ==
  /\ Execute(nb_rows, FALSE)
  /\ entries' = [row \in Jobs |-> 0] /\ wpp_err' = FALSE
  /\ progWait' = [k \in Conds |-> {}]
  /\ decoded' = [row \in Jobs |-> 0]
  /\ UNCHANGED <<rows, at>>

SpuriousProgress ==
  /\ \E k \in Conds : progWait[k] # {} /\ progWait' = [progWait EXCEPT ![k] = {}]
  /\ UNCHANGED <<vars, rows, at, entries, wpp_err, decoded>>

WaveMain == (MainControl /\ UNCHANGED wave) \/ RowStep(Main)
WaveWorker(t) == (WorkerControl(t) /\ UNCHANGED wave) \/ RowStep(t)

WaveNext ==
  \/ ~rows /\ Next /\ UNCHANGED wave
  \/ /\ rows
     /\ \/ \E n \in 1 .. MaxJobs : SliceData(n)
        \/ WaveMain
        \/ \E t \in Workers : WaveWorker(t)
        \/ (Free \/ SpuriousWake \/ Freed) /\ UNCHANGED wave
        \/ SpuriousProgress

Owner == IF rows THEN WaveMain ELSE MainStep /\ UNCHANGED wave
Worker(t) == IF rows THEN WaveWorker(t) ELSE WorkerStep(t) /\ UNCHANGED wave

-----------------------------------------------------------------------------
(* A CTB is decoded only when the CTBs it may refer to, up to the one      *)
(* above and to the right, really have been, in spite of the reports that  *)
(* failing rows make to let the others go.                                 *)
NeverAhead ==
  \A x \in Runners : In(x, "decode") /\ r[x].job # 0 =>
     LET row == r[x].job IN
     decoded[row - 1] >= decoded[row] + SHIFT_CTB_WPP \/ decoded[row - 1] = Width

(* A report wakes one waiter of the condition variable of its row, which   *)
(* other rows use as well.  As long as no row has failed, there is never a *)
(* second one to be forgotten, however many threads there are: rows end in *)
(* order, so that a row and the one nb_threads below it are not decoded at *)
(* the same time.  With at most three threads there is none either after a *)
(* failure.  With four there may be: a row that fails lets those below it  *)
(* go on, and a row and the one nb_threads below it may wait together.     *)
Few == ctx.nb_threads <= 3
OneWaiter == Few \/ ~wpp_err => \A k \in Conds : Cardinality(progWait[k]) <= 1

(* When the slice has been decoded without an error, so has every row      *)
(* except, perhaps, the end of the last.                                   *)
RowsComplete ==
  rows /\ ~InBatch /\ ~wpp_err => \A row \in 0 .. ctx.nb_jobs - 2 : decoded[row] = Width
=============================================================================
