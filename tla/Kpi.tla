-------------------------------- MODULE Kpi --------------------------------
(***************************************************************************)
(* The KPI of one calendar month (src/internal/kpi): administrators define *)
(* the month's weighted metrics and trigger recomputations, workers run    *)
(* them as jobs.  Recompute reads the definitions, the active sales and    *)
(* the facts in one snapshot, then deletes the month's results and inserts *)
(* and ranks new ones; two recomputations meet at the DELETE, which waits  *)
(* for the rows of the other, or deadlocks when there are none yet.        *)
(* Scores, classes and ranks are functions of what was read, and the row   *)
(* stands for them; the claims of a job are JobQueue's subject.            *)
(***************************************************************************)
EXTENDS Integers, FiniteSetsExt

CONSTANTS
    Rep,        \* users with the role SALES
    Metric,     \* metric_codes
    Job,        \* recomputation jobs of the month
    Draft,      \* what an administrator may enter: weight, thresholds
    MaxFact,    \* bound: the highest count of a fact
    MaxTries,   \* bound: attempts of a job
    Nothing     \* "no such row"

VARIABLES
    definition, \* kpi_definitions of the month, by metric
    refused,    \* history: the metrics whose last CreateDefinition was refused
    employed,   \* the active reps
    actual,     \* the facts counted by rep and metric
    job,        \* job_queue.status of each recomputation
    tries,      \* job_queue.attempts
    computed,   \* what a running recomputation has read
    result      \* sales_kpi_results and their metrics: the snapshot they show

jobs == <<job, tries, computed>>
vars == <<definition, refused, employed, actual, jobs, result>>

Init ==
    /\ definition = [m \in Metric |-> Nothing]
    /\ refused = {}
    /\ employed = Rep
    /\ actual = [r \in Rep, m \in Metric |-> 0]
    /\ job = [j \in Job |-> "NONE"]
    /\ tries = [j \in Job |-> 0]
    /\ computed = [j \in Job |-> Nothing]
    /\ result = Nothing

Active == {m \in Metric : definition[m] # Nothing /\ definition[m].active}

-----------------------------------------------------------------------------
(***************************************************************************)
(* Definitions and facts.                                                  *)
(***************************************************************************)
\* Service.CreateDefinition: ErrInvalidThreshold
ValidDraft(d) == d.near <= d.achieved

\* uq_kpi_definitions_period_metric knows nothing of active.
CreateDefinition(m, d) ==
    /\ ValidDraft(d)
    /\ definition' = IF definition[m] = Nothing
                     THEN [definition EXCEPT ![m] = [draft |-> d, active |-> TRUE]]
                     ELSE definition
    /\ refused' = IF definition[m] = Nothing THEN refused \ {m} ELSE refused \cup {m}
    /\ UNCHANGED <<employed, actual, jobs, result>>

DeactivateDefinition(m) ==
    /\ definition[m] # Nothing
    /\ definition' = [definition EXCEPT ![m].active = FALSE]
    /\ UNCHANGED <<refused, employed, actual, jobs, result>>

\* A closing confirmed, a customer called, a training completed
Happens(r, m) ==
    /\ actual[r, m] < MaxFact
    /\ actual' = [actual EXCEPT ![r, m] = @ + 1]
    /\ UNCHANGED <<definition, refused, employed, jobs, result>>

Leaves(r) ==
    /\ r \in employed
    /\ employed' = employed \ {r}
    /\ UNCHANGED <<definition, refused, actual, jobs, result>>

-----------------------------------------------------------------------------
(***************************************************************************)
(* Recompute.                                                              *)
(***************************************************************************)
WeightOf(m) == definition[m].draft.weight

\* ErrNoActiveDefinitions, ErrInconsistentThreshold, ErrWeightNotHundred
Computable ==
    /\ Active # {}
    /\ \A m, n \in Active : /\ definition[m].draft.achieved = definition[n].draft.achieved
                            /\ definition[m].draft.near = definition[n].draft.near
    /\ MapThenSumSet(WeightOf, Active) = 100

\* What a month's results are computed from, all read by one transaction: the
\* active sales, the metrics with their definitions, the facts of each.
Snapshot ==
    [reps |-> employed,
     metrics |-> {<<m, definition[m].draft>> : m \in Active},
     facts |-> {<<r, m, actual[r, m]>> : r \in employed, m \in Active}]

TriggerRecompute(j) ==
    /\ job[j] = "NONE"
    /\ job' = [job EXCEPT ![j] = "PENDING"]
    /\ UNCHANGED <<definition, refused, employed, actual, tries, computed, result>>

Fails(j) ==
    /\ job' = [job EXCEPT ![j] = IF tries'[j] < MaxTries THEN "PENDING" ELSE "FAILED"]
    /\ computed' = [computed EXCEPT ![j] = Nothing]

RecomputeReads(j) ==
    /\ job[j] = "PENDING"
    /\ tries' = [tries EXCEPT ![j] = @ + 1]
    /\ IF Computable
       THEN /\ job' = [job EXCEPT ![j] = "PROCESSING"]
            /\ computed' = [computed EXCEPT ![j] = Snapshot]
       ELSE Fails(j)
    /\ UNCHANGED <<definition, refused, employed, actual, result>>

RecomputeCommits(j) ==
    /\ job[j] = "PROCESSING"
    /\ result' = computed[j]
    /\ job' = [job EXCEPT ![j] = "COMPLETED"]
    /\ computed' = [computed EXCEPT ![j] = Nothing]
    /\ UNCHANGED <<definition, refused, employed, actual, tries>>

\* Both deleted from an empty month and wait for each other's gap to insert.
RecomputeDeadlocks(j) ==
    /\ job[j] = "PROCESSING" /\ result = Nothing
    /\ \E i \in Job \ {j} : job[i] = "PROCESSING"
    /\ UNCHANGED tries
    /\ Fails(j)
    /\ UNCHANGED <<definition, refused, employed, actual, result>>

Next ==
    \/ \E m \in Metric : \/ DeactivateDefinition(m)
                         \/ \E d \in Draft : CreateDefinition(m, d)
                         \/ \E r \in Rep : Happens(r, m)
    \/ \E r \in Rep : Leaves(r)
    \/ \E j \in Job : \/ TriggerRecompute(j) \/ RecomputeReads(j)
                      \/ RecomputeCommits(j) \/ RecomputeDeadlocks(j)

Spec == Init /\ [][Next]_vars

-----------------------------------------------------------------------------
(***************************************************************************)
(* Properties.                                                             *)
(***************************************************************************)
\* What ErrDuplicateDefinition says: "an active definition already exists for this
\* metric and period".  A definition is superseded by deactivating it and creating
\* another one, which the unique key refuses because of the inactive row.
RefusedOnlyForActive == [][refused' \ refused \subseteq Active]_vars
=============================================================================
