----------------------------- MODULE ImportBatch -----------------------------
(***************************************************************************)
(* One import batch (src/internal/importing) on its way through the job    *)
(* queue: an administrator uploads a workbook, a validate job writes its   *)
(* rows, the administrator triggers a commit, a commit job applies each    *)
(* VALID row through other services, and rows that named an unknown entity *)
(* may be relinked by hand.                                                *)
(*                                                                         *)
(* The module extends JobQueue: every step of a worker is a step of the    *)
(* queue with its effect on the batch.  A request of the API is a chain of *)
(* autocommitted statements, one action each.  The commit handler writes   *)
(* batch and rows outside the transaction that completes its job, so its   *)
(* statements are actions of their own as well.                            *)
(***************************************************************************)
EXTENDS JobQueue

CONSTANTS
    Row,        \* row_index of the workbook's data rows
    Malformed,  \* the rows that fail validation
    Request,    \* concurrent API requests of administrators
    NoRow       \* "this request names no row"

ASSUME RowAssumption ==
    /\ Row \subseteq Nat /\ IsFiniteSet(Row)
    /\ Malformed \subseteq Row /\ NoRow \notin Row

VARIABLES
    batch,      \* import_batches.status; "ABSENT" before the upload
    rowStatus,  \* import_rows.status; "ABSENT" before validation
    counted,    \* import_batches.committed_rows
    kind,       \* job_type of each job: "validate" or "commit"
    req,        \* where each API request is
    reqRow,     \* the row a relink request has checked
    step,       \* where each worker's CommitHandler call is
    todo,       \* validRows still to be processed by that call
    done,       \* its local counter "committed"
    known,      \* the rows whose owner, outlet and plan exist by now
    applied,    \* history: times the row's entities were written
    cut,        \* history: runs ended between a row's writes and its mark
    relinked    \* history: the rows an administrator has relinked

table == <<batch, rowStatus, counted, kind>>
request == <<req, reqRow>>
handler == <<step, todo, done>>
trail == <<applied, cut, relinked>>
importVars == <<vars, table, request, handler, known, trail>>

BatchStatuses == {"ABSENT", "UPLOADED", "VALIDATED", "VALIDATION_FAILED", "COMMITTING", "COMMITTED"}
RowStatuses == {"ABSENT", "VALID", "INVALID", "COMMITTED", "COMMIT_FAILED", "UNMATCHED"}
RequestSteps == {"idle", "created", "checked", "enqueued", "relinking"}
HandlerSteps == {"begin", "mark", "list", "rows", "unmatched", "failed", "applied"}

ImportTypeOK ==
    /\ batch \in BatchStatuses
    /\ rowStatus \in [Row -> RowStatuses]
    /\ counted \in 0..Cardinality(Row)
    /\ kind \in [Job -> {"none", "validate", "commit"}]
    /\ req \in [Request -> RequestSteps]
    /\ reqRow \in [Request -> Row \cup {NoRow}]
    /\ step \in [Worker -> HandlerSteps]
    /\ todo \in [Worker -> SUBSET Row]
    /\ done \in [Worker -> 0..Cardinality(Row)]
    /\ known \subseteq Row
    /\ applied \in [Row -> Nat]
    /\ cut \in [Row -> Nat]
    /\ relinked \subseteq Row

ImportInit ==
    /\ Init
    /\ batch = "ABSENT"
    /\ rowStatus = [r \in Row |-> "ABSENT"]
    /\ counted = 0
    /\ kind = [j \in Job |-> "none"]
    /\ req = [a \in Request |-> "idle"]
    /\ reqRow = [a \in Request |-> NoRow]
    /\ step = [w \in Worker |-> "begin"]
    /\ todo = [w \in Worker |-> {}]
    /\ done = [w \in Worker |-> 0]
    /\ known \in SUBSET Row
    /\ applied = [r \in Row |-> 0]
    /\ cut = [r \in Row |-> 0]
    /\ relinked = {}

(***************************************************************************)
(* The API.  SetValidateJobID and SetCommitJobID write columns no code     *)
(* reads again and are part of the step that follows them.                 *)
(***************************************************************************)
EnqueueAs(type) == \E j \in Job : Enqueue(j) /\ kind' = [kind EXCEPT ![j] = type]

Answer(a, s) == req' = [req EXCEPT ![a] = s]

\* Upload, first half: no batch with this hash yet, CreateBatch.  With one
\* there the request answers with it and changes nothing.
UploadCreates(a) ==
    /\ req[a] = "idle" /\ batch = "ABSENT"
    /\ batch' = "UPLOADED"
    /\ Answer(a, "created")
    /\ UNCHANGED <<vars, rowStatus, counted, kind, reqRow, handler, known, trail>>

UploadEnqueues(a) ==
    /\ req[a] = "created"
    /\ EnqueueAs("validate")
    /\ Answer(a, "idle")
    /\ UNCHANGED <<batch, rowStatus, counted, reqRow, handler, known, trail>>

\* TriggerCommit reads the status: a COMMITTING or COMMITTED batch answers the
\* request as it is (canReuseCommitResult), only a VALIDATED one gets a job.
TriggerChecks(a) ==
    /\ req[a] = "idle" /\ batch = "VALIDATED"
    /\ Answer(a, "checked")
    /\ UNCHANGED <<vars, table, reqRow, handler, known, trail>>

TriggerEnqueues(a) ==
    /\ req[a] = "checked"
    /\ EnqueueAs("commit")
    /\ Answer(a, "enqueued")
    /\ UNCHANGED <<batch, rowStatus, counted, reqRow, handler, known, trail>>

\* SetBatchCommitting writes the status without looking at it.
TriggerMarks(a) ==
    /\ req[a] = "enqueued"
    /\ batch' = "COMMITTING"
    /\ Answer(a, "idle")
    /\ UNCHANGED <<vars, rowStatus, counted, kind, reqRow, handler, known, trail>>

\* RelinkRow: FindRowByID and the check, then the unconditional UPDATE.
RelinkChecks(a, r) ==
    /\ req[a] = "idle"
    /\ rowStatus[r] = "UNMATCHED"
    /\ Answer(a, "relinking")
    /\ reqRow' = [reqRow EXCEPT ![a] = r]
    /\ UNCHANGED <<vars, table, handler, known, trail>>

RelinkWrites(a) ==
    /\ req[a] = "relinking"
    /\ rowStatus' = [rowStatus EXCEPT ![reqRow[a]] = "VALID"]
    /\ relinked' = relinked \cup {reqRow[a]}
    /\ Answer(a, "idle")
    /\ reqRow' = [reqRow EXCEPT ![a] = NoRow]
    /\ UNCHANGED <<vars, batch, counted, kind, handler, known, applied, cut>>

\* A statement of the request errors or the API process dies.
RequestDies(a) ==
    /\ req[a] # "idle"
    /\ Fault
    /\ Answer(a, "idle")
    /\ reqRow' = [reqRow EXCEPT ![a] = NoRow]
    /\ UNCHANGED <<row, worker, history, table, handler, known, trail>>

\* The missing owner, outlet or plan is created elsewhere in the system.
EntityAppears(r) ==
    /\ r \notin known
    /\ known' = known \cup {r}
    /\ UNCHANGED <<vars, table, request, handler, trail>>

(***************************************************************************)
(* ValidateHandler: all its writes and Complete are one transaction.       *)
(***************************************************************************)
Runs(w, type) == pc[w] = "running" /\ kind[held[w]] = type

Leave(w) ==
    /\ step' = [step EXCEPT ![w] = "begin"]
    /\ todo' = [todo EXCEPT ![w] = {}]
    /\ done' = [done EXCEPT ![w] = 0]

\* UNIQUE (batch_id, row_index): rows already there fail the handler.
RowsReplaceable == TRUE
RowsInsertable == \A r \in Row : rowStatus[r] = "ABSENT"

ValidateWritesRows(w) ==
    /\ Runs(w, "validate")
    /\ RowsInsertable
    /\ HandlerCommits(w)
    /\ rowStatus' = [r \in Row |-> IF r \in Malformed THEN "INVALID" ELSE "VALID"]
    /\ batch' = "VALIDATED"
    /\ UNCHANGED <<counted, kind, request, handler, known, trail>>

\* A workbook that cannot be read is a result, not an error: SetValidationFailed
\* by id, whatever the batch has become, and the job completes.  Any run may meet
\* it: the stored file may be gone, or be rewritten by another upload, by then.
ValidateRejects(w) ==
    /\ Runs(w, "validate")
    /\ HandlerCommits(w)
    /\ batch' = "VALIDATION_FAILED"
    /\ UNCHANGED <<rowStatus, counted, kind, request, handler, known, trail>>

(***************************************************************************)
(* CommitHandler.                                                          *)
(***************************************************************************)
Goes(w, s) == step' = [step EXCEPT ![w] = s]

\* canWorkerProcessCommit; any other status is an error of the handler
CommitReads(w) ==
    /\ Runs(w, "commit") /\ step[w] = "begin"
    /\ batch \in {"VALIDATED", "COMMITTING"}
    /\ Goes(w, IF batch = "VALIDATED" THEN "mark" ELSE "list")
    /\ UNCHANGED <<vars, table, request, todo, done, known, trail>>

CommitMarks(w) ==
    /\ Runs(w, "commit") /\ step[w] = "mark"
    /\ batch' = "COMMITTING"
    /\ Goes(w, "list")
    /\ UNCHANGED <<vars, rowStatus, counted, kind, request, todo, done, known, trail>>

\* ListRowsByStatus(VALID)
ToCommitAll(r) == rowStatus[r] \in {"VALID", "COMMITTED"}
ToCommitFirst(r) == rowStatus[r] = "VALID" /\ \A q \in Row : rowStatus[q] = "VALID" => r <= q
ToCommit(r) == rowStatus[r] = "VALID"

CommitLists(w) ==
    /\ Runs(w, "commit") /\ step[w] = "list"
    /\ todo' = [todo EXCEPT ![w] = {r \in Row : ToCommit(r)}]
    /\ Goes(w, "rows")
    /\ UNCHANGED <<vars, table, request, done, known, trail>>

Current(w) == CHOOSE r \in todo[w] : \A q \in todo[w] : r <= q

\* One row's turn: its references do not resolve, a service refuses it, or
\* its entities are written in transactions of the services' own.  Only the
\* payload's codes are resolved, never the ids a relink has stored.
RowResolves(w) ==
    /\ Runs(w, "commit") /\ step[w] = "rows" /\ todo[w] # {}
    /\ \/ Current(w) \notin known /\ Goes(w, "unmatched") /\ UNCHANGED applied
       \/ Current(w) \in known /\ Goes(w, "failed") /\ UNCHANGED applied
       \/ /\ Current(w) \in known /\ Goes(w, "applied")
          /\ applied' = [applied EXCEPT ![Current(w)] = @ + 1]
    /\ UNCHANGED <<vars, table, request, todo, done, known, cut, relinked>>

RowMark(s) == CASE s = "unmatched" -> "UNMATCHED"
                [] s = "failed" -> "COMMIT_FAILED"
                [] s = "applied" -> "COMMITTED"

\* Only a row without an error is counted; then the loop moves on.
CountsAll(s) == TRUE
Counts(s) == s = "applied"
RestSame(w) == todo[w]
Rest(w) == todo[w] \ {Current(w)}

\* MarkRowUnmatched, MarkRowCommitFailed or MarkRowCommitted, by id alone
RowMarks(w) ==
    /\ Runs(w, "commit") /\ step[w] \in {"unmatched", "failed", "applied"}
    /\ rowStatus' = [rowStatus EXCEPT ![Current(w)] = RowMark(step[w])]
    /\ done' = [done EXCEPT ![w] = IF Counts(step[w]) THEN @ + 1 ELSE @]
    /\ todo' = [todo EXCEPT ![w] = Rest(w)]
    /\ Goes(w, "rows")
    /\ UNCHANGED <<vars, batch, counted, kind, request, known, trail>>

\* MarkRowCommitted's own error is the row's error.
MarkErrors(w) ==
    /\ Runs(w, "commit") /\ step[w] = "applied"
    /\ Fault
    /\ Goes(w, "failed")
    /\ UNCHANGED <<row, worker, history, table, request, todo, done, known, trail>>

\* SetCommitResult, in the transaction that completes the job
CommitFinishes(w) ==
    /\ Runs(w, "commit") /\ step[w] = "rows" /\ todo[w] = {}
    /\ HandlerCommits(w)
    /\ batch' = "COMMITTED"
    /\ counted' = done[w]
    /\ Leave(w)
    /\ UNCHANGED <<rowStatus, kind, request, known, trail>>

(***************************************************************************)
(* What may interrupt a handler: an error it returns, the death of the     *)
(* worker, an error of the final COMMIT.  A row applied and not marked by  *)
(* then is VALID still.                                                    *)
(***************************************************************************)
Interrupted(w) ==
    /\ cut' = IF Runs(w, "commit") /\ step[w] \in {"applied", "failed"}
              THEN [cut EXCEPT ![Current(w)] = @ + 1] ELSE cut
    /\ Leave(w)
    /\ UNCHANGED <<table, request, known, applied, relinked>>

\* The error of a row's own writes is the row's error, never the handler's.
HandlerErrors(w) ==
    /\ step[w] # "applied" /\ (step[w] = "rows" => todo[w] = {})
    /\ HandlerFails(w)
    /\ Interrupted(w)

WorkerStops(w) == Stop(w) /\ Interrupted(w)

DispatchAbandons(w) ==
    /\ step[w] \in {"begin", "rows"} /\ todo[w] = {}
    /\ Abandon(w)
    /\ Interrupted(w)

\* The steps of the queue that do not touch the batch.
QueueStep ==
    /\ \/ \E j \in Job : BackoffElapses(j) \/ ClaimAges(j) \/ HandlerOverruns(j)
       \/ \E w \in Worker :
           \/ Start(w) \/ Tick(w) \/ TickReclaimFails(w) \/ LockNext(w)
           \/ CommitClaim(w) \/ NothingToClaim(w) \/ ClaimErrors(w)
           \/ BeginHandler(w) \/ FailReads(w) \/ FailWrites(w)
    /\ UNCHANGED <<table, request, handler, known, trail>>

BatchHandlerStep(w) ==
    \/ ValidateWritesRows(w) \/ ValidateRejects(w)
    \/ CommitReads(w) \/ CommitMarks(w) \/ CommitLists(w)
    \/ RowResolves(w) \/ RowMarks(w) \/ CommitFinishes(w)

ImportNext ==
    \/ \E a \in Request :
        \/ UploadCreates(a) \/ UploadEnqueues(a)
        \/ TriggerChecks(a) \/ TriggerEnqueues(a) \/ TriggerMarks(a)
        \/ (\E r \in Row : RelinkChecks(a, r)) \/ RelinkWrites(a) \/ RequestDies(a)
    \/ \E r \in Row : EntityAppears(r)
    \/ \E w \in Worker :
        \/ BatchHandlerStep(w) \/ MarkErrors(w)
        \/ HandlerErrors(w) \/ WorkerStops(w) \/ DispatchAbandons(w)
    \/ QueueStep

ImportSpec == ImportInit /\ [][ImportNext]_importVars

(***************************************************************************)
(* Fairness: the queue's (time passes, workers are restarted and go on),   *)
(* a handler whose statements succeed goes on too, a request ends, and an  *)
(* administrator who sees a batch that is not done presses commit again.   *)
(***************************************************************************)
ImportFairness ==
    /\ \A j \in Job :
        /\ WF_importVars(BackoffElapses(j) /\ QueueStep)
        /\ WF_importVars(ClaimAges(j) /\ QueueStep)
    /\ \A w \in Worker :
        /\ WF_importVars(Start(w) /\ QueueStep)
        /\ WF_importVars(Tick(w) /\ QueueStep)
        /\ WF_importVars((Dispatch(w) /\ QueueStep) \/ BatchHandlerStep(w) \/ HandlerErrors(w))
    /\ \A a \in Request :
        WF_importVars(UploadEnqueues(a) \/ TriggerChecks(a) \/ TriggerEnqueues(a)
                      \/ TriggerMarks(a) \/ RelinkWrites(a))

ImportFairSpec == ImportSpec /\ ImportFairness

-----------------------------------------------------------------------------
(***************************************************************************)
(* Properties.                                                             *)
(***************************************************************************)
CommitJobs == {j \in Job : kind[j] = "commit"}

\* One commit job, which no worker lost to ReclaimStale while running it.
Undisturbed ==
    /\ Cardinality(CommitJobs) <= 1
    /\ \A j \in CommitJobs : stolen[j] = 0

\* A COMMITTED batch has no row left to commit, whatever crashes, retries and
\* second commit jobs it took, except rows relinked by hand.
NoRowForgotten ==
    batch = "COMMITTED" => \A r \in Row : rowStatus[r] = "VALID" => r \in relinked

\* Unless ReclaimStale takes a commit job from a live worker, each commit job
\* writes a row's entities at most once, and once more only for every run that
\* was interrupted between that row's writes and its mark: a retry never
\* applies again what an earlier run has marked.
AppliedOnce ==
    (\A j \in CommitJobs : stolen[j] = 0) =>
        \A r \in Row \ relinked : applied[r] <= Cardinality(CommitJobs) + cut[r]

\* committed_rows never claims more rows than are COMMITTED, and is exact
\* when the job needed one attempt; after a retry it counts the last run only.
CountTruthful ==
    LET Committed == Cardinality({r \in Row : rowStatus[r] = "COMMITTED"})
    IN  batch = "COMMITTED" /\ Undisturbed /\ relinked = {} =>
            /\ counted <= Committed
            /\ (\A j \in CommitJobs : attempts[j] = 1) => counted = Committed

ValidateJobs == {j \in Job : kind[j] = "validate"}

\* A batch that has been validated is not given another verdict, whatever errors,
\* crashes and retries follow, unless ReclaimStale takes the validate job from a
\* live worker.  The late run of that worker can then only reject the batch, when
\* it finds the stored file gone: it never makes a batch VALIDATED again that is
\* being committed, and the rows are not written a second time.
Revalidates ==
    /\ batch \in {"VALIDATED", "COMMITTING", "COMMITTED"}
    /\ batch' # batch
    /\ batch' \notin {"COMMITTING", "COMMITTED"}

LateRejection ==
    /\ batch' = "VALIDATION_FAILED"
    /\ UNCHANGED rowStatus
    /\ \E j \in ValidateJobs : stolen[j] > 0

ValidatesOnce == [][Revalidates => LateRejection]_importVars

\* A batch being committed is COMMITTED in the end, or all its commit jobs
\* have ended: the chain of statements never leaves a job behind in progress.
CommitSettles ==
    batch = "COMMITTING" ~>
        batch = "COMMITTED" \/ \A j \in CommitJobs : status[j] \in Settled

\* What docs/sprint-14 says of the commit: poll until COMMITTING, "lalu final
\* ke COMMITTED" - then finally COMMITTED.  TriggerCommit enqueues the job
\* first and writes COMMITTING afterwards, over the worker's COMMITTED.
CommittedIsFinal == [][batch = "COMMITTED" => batch' = "COMMITTED"]_importVars

\* What docs/sprint-14 says of the commit button: "Jika user double click
\* tombol commit, backend sekarang aman".  Two requests that both read
\* VALIDATED enqueue two jobs, and two workers apply the same rows.
DoubleClickSafe == faults = 0 => \A r \in Row : applied[r] <= 1

\* What RelinkRow's comment says of a relinked row: it goes back to VALID "so
\* the next batch commit picks it up again".  TriggerCommit enqueues nothing
\* for a batch that is COMMITTING or COMMITTED.
RelinkedIsPickedUp ==
    \A r \in Row : r \in relinked /\ rowStatus[r] = "VALID" ~> rowStatus[r] # "VALID"
==============================================================================
