------------------------------ MODULE JobQueue ------------------------------
(***************************************************************************)
(* The MySQL-backed job queue (src/internal/platform/jobqueue) and the     *)
(* worker processes that drain it (RunWorker, src/internal/app/api.go).    *)
(*                                                                         *)
(* One row of table job_queue per element of Job.  A row is claimed in a   *)
(* transaction of its own, the handler runs in a second transaction that   *)
(* also marks the row COMPLETED, and a handler error is recorded by a      *)
(* third, autocommitted pair of statements.  Nothing ties those three to   *)
(* one another but the row's id: that is what the properties are about.    *)
(*                                                                         *)
(* Time is kept only as far as the code reads it: ripe[j] says             *)
(* available_at <= NOW(), overdue[j] says claimed_at < NOW() - timeout.    *)
(***************************************************************************)
EXTENDS Naturals, FiniteSets

CONSTANTS
    Job,          \* ids of job_queue rows (AUTO_INCREMENT, claimed in id order)
    Worker,       \* worker processes
    Registered,   \* the jobs whose job_type has a handler in the registry
    MaxAttempts,  \* column max_attempts (default 5)
    MaxFaults,    \* bound: process, database and timing faults in a behaviour
    NoJob         \* "this worker holds no job"

ASSUME JobAssumption == Job \subseteq Nat /\ NoJob \notin Job
ASSUME RegisteredAssumption == Registered \subseteq Job
ASSUME WorkerAssumption == IsFiniteSet(Worker)
ASSUME BoundAssumption == MaxAttempts \in Nat \ {0} /\ MaxFaults \in Nat

VARIABLES
    status,     \* job_queue.status; "ABSENT" before Enqueue
    attempts,   \* job_queue.attempts
    ripe,       \* available_at <= NOW()
    overdue,    \* claimed_at < NOW() - WORKER_STALE_JOB_TIMEOUT
    pc,         \* where each worker is in RunWorker / Dispatch
    locked,     \* the row each worker's claim transaction holds FOR UPDATE
    held,       \* the job each worker's Dispatch call is processing
    seen,       \* the attempts value Fail has read
    committed,  \* history: commits of handler transactions, per job
    reclaims,   \* history: times ReclaimStale returned the job to PENDING
    stolen,     \* history: those of them whose job a live worker still held
    faults      \* faults used so far (bounded by MaxFaults)

row == <<status, attempts, ripe, overdue>>
worker == <<pc, locked, held, seen>>
history == <<committed, reclaims, stolen>>
vars == <<row, worker, history, faults>>

Statuses == {"ABSENT", "PENDING", "PROCESSING", "COMPLETED", "FAILED"}
Settled == {"COMPLETED", "FAILED"}
Steps == {"stopped", "sleep", "drain", "claiming", "claimed", "running", "failing", "recording"}
Busy == {"claimed", "running", "failing", "recording"}

TypeOK ==
    /\ status \in [Job -> Statuses]
    /\ attempts \in [Job -> Nat]
    /\ ripe \in [Job -> BOOLEAN]
    /\ overdue \in [Job -> BOOLEAN]
    /\ pc \in [Worker -> Steps]
    /\ locked \in [Worker -> Job \cup {NoJob}]
    /\ held \in [Worker -> Job \cup {NoJob}]
    /\ seen \in [Worker -> Nat]
    /\ committed \in [Job -> Nat]
    /\ reclaims \in [Job -> Nat]
    /\ stolen \in [Job -> Nat]
    /\ faults \in 0..MaxFaults
    /\ \A w \in Worker : pc[w] \in Busy <=> held[w] # NoJob
    /\ \A w \in Worker : pc[w] = "claiming" <=> locked[w] # NoJob

Init ==
    /\ status = [j \in Job |-> "ABSENT"]
    /\ attempts = [j \in Job |-> 0]
    /\ ripe = [j \in Job |-> FALSE]
    /\ overdue = [j \in Job |-> FALSE]
    /\ pc = [w \in Worker |-> "stopped"]
    /\ locked = [w \in Worker |-> NoJob]
    /\ held = [w \in Worker |-> NoJob]
    /\ seen = [w \in Worker |-> 0]
    /\ committed = [j \in Job |-> 0]
    /\ reclaims = [j \in Job |-> 0]
    /\ stolen = [j \in Job |-> 0]
    /\ faults = 0

(***************************************************************************)
(* What the statements select.                                             *)
(***************************************************************************)
Holders(j) == {w \in Worker : held[w] = j}

\* Rows an open claim transaction has locked; other writers of the row wait.
Locked(j) == \E w \in Worker : locked[w] = j

\* WHERE status = 'PENDING' AND available_at <= NOW() ... SKIP LOCKED
ClaimableUnlocked(j) == status[j] = "PENDING" /\ ripe[j]
Claimable(j) == status[j] = "PENDING" /\ ripe[j] /\ ~Locked(j)

\* ORDER BY id LIMIT 1
NextInLine(j) == Claimable(j) /\ \A i \in Job : Claimable(i) => j <= i

\* WHERE status = 'PROCESSING' AND claimed_at < NOW() - timeout
StaleAnyStatus(j) == overdue[j]
StaleNever(j) == FALSE
Stale(j) == status[j] = "PROCESSING" /\ overdue[j]

\* if attempts < maxAttempts: retry, else FAILED
MayRetryOnce(a) == a <= MaxAttempts
MayRetry(a) == a < MaxAttempts

(***************************************************************************)
(* Faults: a crash or shutdown, a database error, a handler that outlives  *)
(* the stale timeout.  Their number is bounded.                            *)
(***************************************************************************)
Fault == faults < MaxFaults /\ faults' = faults + 1

(***************************************************************************)
(* Enqueue: INSERT with the column defaults (PENDING, attempts 0,          *)
(* available now).  Ids come from AUTO_INCREMENT, hence in order.          *)
(***************************************************************************)
Enqueue(j) ==
    /\ status[j] = "ABSENT"
    /\ \A i \in Job : i < j => status[i] # "ABSENT"
    /\ status' = [status EXCEPT ![j] = "PENDING"]
    /\ ripe' = [ripe EXCEPT ![j] = TRUE]
    /\ UNCHANGED <<attempts, overdue, worker, history, faults>>

(***************************************************************************)
(* Passing time.  A claim nobody is working on ages by itself; one whose   *)
(* worker is alive ages only when the handler overruns the timeout.        *)
(***************************************************************************)
BackoffElapses(j) ==
    /\ status[j] = "PENDING" /\ ~ripe[j]
    /\ ripe' = [ripe EXCEPT ![j] = TRUE]
    /\ UNCHANGED <<status, attempts, overdue, worker, history, faults>>

ClaimAges(j) ==
    /\ status[j] = "PROCESSING" /\ ~overdue[j]
    /\ Holders(j) = {}
    /\ overdue' = [overdue EXCEPT ![j] = TRUE]
    /\ UNCHANGED <<status, attempts, ripe, worker, history, faults>>

HandlerOverruns(j) ==
    /\ status[j] = "PROCESSING" /\ ~overdue[j]
    /\ Holders(j) # {}
    /\ Fault
    /\ overdue' = [overdue EXCEPT ![j] = TRUE]
    /\ UNCHANGED <<status, attempts, ripe, worker, history>>

(***************************************************************************)
(* The worker process: it starts, and it stops (a crash, a panic in a      *)
(* handler or a shutdown in the middle of a job: all leave the row as it   *)
(* is and roll the open transaction back).                                 *)
(***************************************************************************)
Start(w) ==
    /\ pc[w] = "stopped"
    /\ pc' = [pc EXCEPT ![w] = "sleep"]
    /\ UNCHANGED <<row, locked, held, seen, history, faults>>

Stop(w) ==
    /\ pc[w] # "stopped"
    /\ Fault
    /\ pc' = [pc EXCEPT ![w] = "stopped"]
    /\ locked' = [locked EXCEPT ![w] = NoJob]
    /\ held' = [held EXCEPT ![w] = NoJob]
    /\ UNCHANGED <<row, seen, history>>

(***************************************************************************)
(* A tick of RunWorker: ReclaimStale, one UPDATE over the whole table,     *)
(* then the drain loop.  A failed reclaim is logged and the loop goes on.  *)
(***************************************************************************)
ReclaimStale ==
    /\ status' = [j \in Job |-> IF Stale(j) THEN "PENDING" ELSE status[j]]
    /\ reclaims' = [j \in Job |-> IF Stale(j) THEN reclaims[j] + 1 ELSE reclaims[j]]
    /\ stolen' = [j \in Job |-> IF Stale(j) /\ Holders(j) # {}
                                THEN stolen[j] + 1 ELSE stolen[j]]

Tick(w) ==
    /\ pc[w] = "sleep"
    /\ pc' = [pc EXCEPT ![w] = "drain"]
    /\ ReclaimStale
    /\ UNCHANGED <<attempts, ripe, overdue, locked, held, seen, committed, faults>>

TickReclaimFails(w) ==
    /\ pc[w] = "sleep"
    /\ Fault
    /\ pc' = [pc EXCEPT ![w] = "drain"]
    /\ UNCHANGED <<row, locked, held, seen, history>>

(***************************************************************************)
(* Dispatch, first half: ClaimNext selects and locks the oldest free row,  *)
(* skipping rows locked by other claims, then commits the claim together   *)
(* with the attempt it counts.                                             *)
(***************************************************************************)
LockNext(w) ==
    /\ pc[w] = "drain"
    /\ \E j \in Job :
        /\ NextInLine(j)
        /\ locked' = [locked EXCEPT ![w] = j]
    /\ pc' = [pc EXCEPT ![w] = "claiming"]
    /\ UNCHANGED <<row, held, seen, history, faults>>

NothingToClaim(w) ==
    /\ pc[w] = "drain"
    /\ \A j \in Job : ~Claimable(j)
    /\ pc' = [pc EXCEPT ![w] = "sleep"]
    /\ UNCHANGED <<row, locked, held, seen, history, faults>>

MarkClaimed(j) ==
    /\ status' = [status EXCEPT ![j] = "PROCESSING"]
    /\ attempts' = [attempts EXCEPT ![j] = @ + 1]
    /\ overdue' = [overdue EXCEPT ![j] = FALSE]

CommitClaim(w) ==
    /\ pc[w] = "claiming"
    /\ MarkClaimed(locked[w])
    /\ held' = [held EXCEPT ![w] = locked[w]]
    /\ locked' = [locked EXCEPT ![w] = NoJob]
    /\ pc' = [pc EXCEPT ![w] = "claimed"]
    /\ UNCHANGED <<ripe, seen, history, faults>>

\* A statement of the claim or its COMMIT is answered with an error: the
\* claim may or may not have taken effect; the drain loop ends without a job.
ClaimErrors(w) ==
    /\ pc[w] \in {"drain", "claiming"}
    /\ Fault
    /\ pc' = [pc EXCEPT ![w] = "sleep"]
    /\ locked' = [locked EXCEPT ![w] = NoJob]
    /\ \/ UNCHANGED <<status, attempts, overdue>>
       \/ pc[w] = "claiming" /\ MarkClaimed(locked[w])
    /\ UNCHANGED <<ripe, held, seen, history>>

(***************************************************************************)
(* Dispatch, second half.                                                  *)
(***************************************************************************)
ReleaseKeeps(w, step) ==
    /\ pc' = [pc EXCEPT ![w] = step]
    /\ UNCHANGED held

Release(w, step) ==
    /\ pc' = [pc EXCEPT ![w] = step]
    /\ held' = [held EXCEPT ![w] = NoJob]

\* registry lookup and BeginTx
BeginHandler(w) ==
    /\ pc[w] = "claimed"
    /\ pc' = [pc EXCEPT ![w] = IF held[w] \in Registered THEN "running" ELSE "failing"]
    /\ UNCHANGED <<row, locked, held, seen, history, faults>>

\* The handler returned nil: Complete and its own writes commit together.
\* Complete's UPDATE selects the row by id alone.
HandlerCommits(w) ==
    /\ pc[w] = "running"
    /\ ~Locked(held[w])
    /\ status' = [status EXCEPT ![held[w]] = "COMPLETED"]
    /\ committed' = [committed EXCEPT ![held[w]] = @ + 1]
    /\ Release(w, "drain")
    /\ UNCHANGED <<attempts, ripe, overdue, locked, seen, reclaims, stolen, faults>>

\* The handler returned an error: its transaction is rolled back first.
HandlerFails(w) ==
    /\ pc[w] = "running"
    /\ pc' = [pc EXCEPT ![w] = "failing"]
    /\ UNCHANGED <<row, locked, held, seen, history, faults>>

\* Fail, first statement: SELECT attempts, max_attempts
FailReads(w) ==
    /\ pc[w] = "failing"
    /\ seen' = [seen EXCEPT ![w] = attempts[held[w]]]
    /\ pc' = [pc EXCEPT ![w] = "recording"]
    /\ UNCHANGED <<row, locked, held, history, faults>>

\* Fail, second statement: retry with a backoff or give up.  The status the
\* row has by now is not looked at.
FailWrites(w) ==
    /\ pc[w] = "recording"
    /\ ~Locked(held[w])
    /\ IF MayRetry(seen[w])
       THEN /\ status' = [status EXCEPT ![held[w]] = "PENDING"]
            /\ ripe' = [ripe EXCEPT ![held[w]] = FALSE]
       ELSE /\ status' = [status EXCEPT ![held[w]] = "FAILED"]
            /\ UNCHANGED ripe
    /\ Release(w, "drain")
    /\ UNCHANGED <<attempts, overdue, locked, seen, history, faults>>

\* BeginTx, Complete, Commit or one of Fail's statements errors: Dispatch
\* returns, the row keeps the state it has.
Abandon(w) ==
    /\ pc[w] \in Busy
    /\ Fault
    /\ Release(w, "drain")
    /\ UNCHANGED <<row, locked, seen, history>>

Dispatch(w) ==
    \/ LockNext(w) \/ CommitClaim(w) \/ NothingToClaim(w) \/ BeginHandler(w)
    \/ HandlerCommits(w) \/ HandlerFails(w) \/ FailReads(w) \/ FailWrites(w)

Next ==
    \/ \E j \in Job : Enqueue(j) \/ BackoffElapses(j) \/ ClaimAges(j) \/ HandlerOverruns(j)
    \/ \E w \in Worker :
        \/ Start(w) \/ Stop(w) \/ Tick(w) \/ TickReclaimFails(w)
        \/ Dispatch(w) \/ ClaimErrors(w) \/ Abandon(w)

Spec == Init /\ [][Next]_vars

(***************************************************************************)
(* Fairness: time passes, a supervisor restarts a stopped worker, and a    *)
(* running worker goes on.  A handler returns, but which way is not fair.  *)
(***************************************************************************)
Fairness ==
    /\ \A j \in Job : WF_vars(BackoffElapses(j)) /\ WF_vars(ClaimAges(j))
    /\ \A w \in Worker :
        /\ WF_vars(Start(w)) /\ WF_vars(Tick(w)) /\ WF_vars(Dispatch(w))

FairSpec == Spec /\ Fairness

-----------------------------------------------------------------------------
(***************************************************************************)
(* Properties.                                                             *)
(***************************************************************************)

\* Rights to run the job that are around: one for each worker holding it,
\* one more if the row invites another claim (PENDING, or PROCESSING with
\* nobody at work, which ReclaimStale will return), or if it is spent (FAILED).
Idle(j) ==
    \/ status[j] \in {"ABSENT", "PENDING", "FAILED"}
    \/ status[j] = "PROCESSING" /\ Holders(j) = {}

Permits(j) == Cardinality(Holders(j)) + (IF Idle(j) THEN 1 ELSE 0)

\* A job's handler commits at most once, plus once for every time
\* ReclaimStale took the job from a worker still running it.  Crashes,
\* database errors and retries alone never make it commit twice.
CommitsBounded == \A j \in Job : committed[j] <= 1 + stolen[j]

\* The inductive form of CommitsBounded: commits and outstanding permits
\* together never exceed one plus the number of thefts.
PermitsBounded == \A j \in Job : committed[j] + Permits(j) <= 1 + stolen[j]

\* Two workers run the same job only after ReclaimStale took it from one of
\* them: FOR UPDATE SKIP LOCKED and the committed claim keep them apart.
OneRunner == \A j \in Job : Cardinality(Holders(j)) <= 1 + stolen[j]

\* A row locked by a claim transaction is PENDING and locked by nobody else:
\* no claim, late Fail, late Complete or ReclaimStale moves it underneath the
\* worker that selected it.
ClaimsExclusive ==
    \A w \in Worker : locked[w] # NoJob =>
        /\ status[locked[w]] = "PENDING"
        /\ \A v \in Worker : locked[v] = locked[w] => v = w

\* Attempts exceed max_attempts by at most the number of reclaims: Fail
\* enforces the limit, even when it decides on an attempts value that
\* another claim has raised since it was read.
RetryBudget == \A j \in Job : attempts[j] <= MaxAttempts + reclaims[j]

\* A COMPLETED or FAILED job changes state again only if it was at some
\* time reclaimed from a live worker (whose late Fail or Complete does it).
SettledUnlessStolen ==
    [][\A j \in Job :
        status[j] \in Settled /\ status'[j] # status[j] => stolen[j] > 0]_vars

\* Every enqueued job is eventually COMPLETED or FAILED, whatever becomes of
\* the workers that claim it, as long as faults are finitely many.
EventuallySettled ==
    \A j \in Job : status[j] = "PENDING" ~> status[j] \in Settled

\* What the glossary says of retries: "coba lagi (sampai batas
\* max_attempts, default 5)" - retry until max_attempts.  The code does not
\* keep it: ReclaimStale returns a job to PENDING without looking at attempts.
RetryLimit == \A j \in Job : attempts[j] <= MaxAttempts
=============================================================================
