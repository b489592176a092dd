------------------------------- MODULE Export -------------------------------
(***************************************************************************)
(* Report exports (src/internal/reporting) on top of the job queue.  A     *)
(* request inserts a row of report_exports and enqueues a job for it; the  *)
(* job's handler marks the row PROCESSING, makes the file, and marks the   *)
(* row COMPLETED or FAILED.  It marks through the pool's connection, not   *)
(* through the transaction that completes the job, so the row's status and *)
(* the job's can part: a mark may be lost, and a mark may outlive a run    *)
(* whose job goes on.                                                      *)
(*                                                                         *)
(* The jobs with a registered handler are the export jobs; each carries    *)
(* the id of an export of its own, and the export is named by its job.     *)
(* job_id, which SetExportJobID writes in a third statement, is read by    *)
(* nobody and left out.                                                    *)
(***************************************************************************)
EXTENDS JobQueue

VARIABLES
    export,  \* report_exports.status; "NONE" before CreateExport
    stage,   \* where each worker's GenerateExportHandler call is
    lost     \* history: the exports whose last mark the database refused

exportVars == <<vars, export, stage, lost>>

Stages == {"begin", "generate", "broken", "done"}

ExportTypeOK ==
    /\ export \in [Registered -> {"NONE", "PENDING", "PROCESSING", "COMPLETED", "FAILED"}]
    /\ stage \in [Worker -> Stages]
    /\ lost \in [Registered -> BOOLEAN]

ExportInit ==
    /\ Init
    /\ export = [j \in Registered |-> "NONE"]
    /\ stage = [w \in Worker |-> "begin"]
    /\ lost = [j \in Registered |-> FALSE]

\* A handler call that is over leaves nothing behind.
Forget == stage' = [w \in Worker |-> IF pc'[w] = "running" THEN stage[w] ELSE "begin"]

\* A step of the queue that is no business of the handler's
Apart == Forget /\ UNCHANGED <<export, lost>>

-----------------------------------------------------------------------------
(***************************************************************************)
(* CreateExport: the INSERT and the Enqueue are autocommitted one by one,  *)
(* and the request may die between them.                                   *)
(***************************************************************************)
InsertExport(j) ==
    /\ export[j] = "NONE" /\ status[j] = "ABSENT"
    /\ export' = [export EXCEPT ![j] = "PENDING"]
    /\ UNCHANGED <<vars, stage, lost>>

EnqueueExport(j) ==
    /\ j \in Registered => export[j] = "PENDING"
    /\ Enqueue(j)
    /\ Apart

-----------------------------------------------------------------------------
(***************************************************************************)
(* GenerateExportHandler.                                                  *)
(***************************************************************************)
In(w, s) == pc[w] = "running" /\ stage[w] = s

GoesTo(w, s) == stage' = [stage EXCEPT ![w] = s]

MarkExportProcessing(w) ==
    /\ In(w, "begin")
    /\ export' = [export EXCEPT ![held[w]] = "PROCESSING"]
    /\ lost' = [lost EXCEPT ![held[w]] = FALSE]
    /\ GoesTo(w, "generate")
    /\ UNCHANGED vars

\* The handler returns the error of this mark at once, the export untouched.
MarkProcessingErrors(w) ==
    /\ In(w, "begin")
    /\ HandlerFails(w)
    /\ lost' = [lost EXCEPT ![held[w]] = TRUE]
    /\ Forget
    /\ UNCHANGED export

\* GenerateExport: the report, the file, and MarkExportCompleted at its end.
GenerateUnmarked(w) ==
    /\ In(w, "generate")
    /\ GoesTo(w, "done")
    /\ UNCHANGED <<vars, export, lost>>

GenerateExport(w) ==
    /\ In(w, "generate")
    /\ export' = [export EXCEPT ![held[w]] = "COMPLETED"]
    /\ GoesTo(w, "done")
    /\ UNCHANGED <<vars, lost>>

GenerateErrors(w) ==
    /\ In(w, "generate")
    /\ GoesTo(w, "broken")
    /\ UNCHANGED <<vars, export, lost>>

FailsUnmarked(w) == In(w, "broken") /\ HandlerFails(w) /\ Apart

MarkExportFailed(w) ==
    /\ In(w, "broken")
    /\ HandlerFails(w)
    /\ export' = [export EXCEPT ![held[w]] = "FAILED"]
    /\ Forget
    /\ UNCHANGED lost

\* The error of this mark is dropped.
MarkFailedErrors(w) ==
    /\ In(w, "broken")
    /\ HandlerFails(w)
    /\ lost' = [lost EXCEPT ![held[w]] = TRUE]
    /\ Forget
    /\ UNCHANGED export

\* return nil: the job's own transaction commits.
Returns(w) == In(w, "done") /\ HandlerCommits(w) /\ Apart

HandlerStep(w) ==
    \/ MarkExportProcessing(w) \/ GenerateExport(w) \/ GenerateErrors(w)
    \/ MarkExportFailed(w) \/ Returns(w)

-----------------------------------------------------------------------------
\* BeginTx, Complete, Commit or one of Fail's statements errors; an error
\* within the handler is an action of its own.
AbandonExport(w) == (pc[w] = "running" => stage[w] = "done") /\ Abandon(w)

DispatchExport(w) ==
    \/ LockNext(w) \/ CommitClaim(w) \/ NothingToClaim(w) \/ BeginHandler(w)
    \/ FailReads(w) \/ FailWrites(w)

Passes(j) == BackoffElapses(j) \/ ClaimAges(j) \/ HandlerOverruns(j)

Moves(w) ==
    \/ Start(w) \/ Stop(w) \/ Tick(w) \/ TickReclaimFails(w)
    \/ ClaimErrors(w) \/ AbandonExport(w) \/ DispatchExport(w)

ExportNext ==
    \/ \E j \in Registered : InsertExport(j)
    \/ \E j \in Job : EnqueueExport(j)
    \/ \E j \in Job : Passes(j) /\ Apart
    \/ \E w \in Worker : Moves(w) /\ Apart
    \/ \E w \in Worker : HandlerStep(w) \/ MarkProcessingErrors(w) \/ MarkFailedErrors(w)

ExportSpec == ExportInit /\ [][ExportNext]_exportVars

(***************************************************************************)
(* Fairness: the queue's, and a handler goes on.  Which way it goes, and   *)
(* whether a request that died is made again, is not fair.                 *)
(***************************************************************************)
ExportFairness ==
    /\ \A j \in Job :
        /\ WF_exportVars(BackoffElapses(j) /\ Apart)
        /\ WF_exportVars(ClaimAges(j) /\ Apart)
    /\ \A w \in Worker :
        /\ WF_exportVars(Start(w) /\ Apart)
        /\ WF_exportVars(Tick(w) /\ Apart)
        /\ WF_exportVars((DispatchExport(w) /\ Apart) \/ HandlerStep(w))

ExportFairSpec == ExportSpec /\ ExportFairness

-----------------------------------------------------------------------------
(***************************************************************************)
(* Properties.                                                             *)
(***************************************************************************)

\* What the queue tells of a job is what its export tells, although the two
\* are written on different connections: unless the job was reclaimed from a
\* live worker, a COMPLETED one has a COMPLETED export, which DownloadExport
\* hands out, and a FAILED one a FAILED export, unless its mark was lost.
ExportAgrees ==
    \A j \in Registered : stolen[j] = 0 =>
        /\ status[j] = "COMPLETED" => export[j] = "COMPLETED"
        /\ status[j] = "FAILED" => export[j] = "FAILED" \/ lost[j]

\* Once enqueued, an export and its job come to rest: the job for good as
\* COMPLETED or FAILED, whatever becomes of the workers that run it, and the
\* export as well, unless the database refused its last mark or the job was
\* reclaimed from a live worker, whose late marks may leave it PROCESSING.
ExportSettles ==
    \A j \in Registered :
        status[j] = "PENDING" ~>
            [](/\ status[j] \in Settled
               /\ export[j] \in {"COMPLETED", "FAILED"} \/ lost[j] \/ stolen[j] > 0)
=============================================================================
