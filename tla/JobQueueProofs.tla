--------------------------- MODULE JobQueueProofs ---------------------------
(***************************************************************************)
(* Theorems about JobQueue and the two components that run on it, Export   *)
(* and ImportBatch, for every set of jobs, every finite set of workers and *)
(* every bound.  What is proved of the queue holds of exports and imports, *)
(* because their steps are steps of the queue, and from the queue's bound  *)
(* on the permits to run a job follows that one worker alone writes an     *)
(* export, or applies the rows of a batch.                                 *)
(***************************************************************************)
EXTENDS Export, ImportBatch, FiniteSetTheorems, TLAPS

(***************************************************************************)
(* Type correctness.                                                       *)
(***************************************************************************)

\* Claiming a row leaves the columns it writes well typed.
LEMMA ClaimTyped ==
  ASSUME TypeOK, NEW j \in Job, MarkClaimed(j)
  PROVE  status' \in [Job -> Statuses] /\ attempts' \in [Job -> Nat] /\ overdue' \in [Job -> BOOLEAN]
<1>1. status' \in [Job -> Statuses] /\ overdue' \in [Job -> BOOLEAN]
  BY DEF TypeOK, MarkClaimed, Statuses
<1>2. attempts \in [Job -> Nat] /\ attempts' = [attempts EXCEPT ![j] = attempts[j] + 1]
  BY DEF TypeOK, MarkClaimed
<1>3. attempts[j] + 1 \in Nat
  BY <1>2
<1>4. attempts' \in [Job -> Nat]
  BY ONLY <1>2, <1>3
<1>5. QED
  BY <1>1, <1>4

\* Every statement of the queue and of RunWorker leaves the rows and the
\* workers well typed.
LEMMA TypeStep == ASSUME TypeOK, [Next]_vars PROVE TypeOK'
<1> USE JobAssumption, BoundAssumption
    DEF TypeOK, Statuses, Steps, Busy, row, worker, history
<1>1. ASSUME NEW j \in Job, Enqueue(j) PROVE TypeOK'
  BY <1>1 DEF Enqueue
<1>2. ASSUME NEW j \in Job, BackoffElapses(j) PROVE TypeOK'
  BY <1>2 DEF BackoffElapses
<1>3. ASSUME NEW j \in Job, ClaimAges(j) PROVE TypeOK'
  BY <1>3 DEF ClaimAges
<1>4. ASSUME NEW j \in Job, HandlerOverruns(j) PROVE TypeOK'
  BY <1>4 DEF HandlerOverruns, Fault
<1>5. ASSUME NEW w \in Worker, Start(w) PROVE TypeOK'
  BY <1>5 DEF Start
<1>6. ASSUME NEW w \in Worker, Stop(w) PROVE TypeOK'
  BY <1>6 DEF Stop, Fault
<1>7. ASSUME NEW w \in Worker, Tick(w) PROVE TypeOK'
  <2>1. status' \in [Job -> Statuses] /\ reclaims' \in [Job -> Nat] /\ stolen' \in [Job -> Nat]
    BY <1>7 DEF Tick, ReclaimStale
  <2>2. QED
    BY <1>7, <2>1 DEF Tick
<1>8. ASSUME NEW w \in Worker, TickReclaimFails(w) PROVE TypeOK'
  BY <1>8 DEF TickReclaimFails, Fault
<1>9. ASSUME NEW w \in Worker, LockNext(w) PROVE TypeOK'
  BY <1>9 DEF LockNext
<1>10. ASSUME NEW w \in Worker, NothingToClaim(w) PROVE TypeOK'
  BY <1>10 DEF NothingToClaim
<1>11. ASSUME NEW w \in Worker, ClaimErrors(w) PROVE TypeOK'
  <2>1. status' \in [Job -> Statuses] /\ attempts' \in [Job -> Nat] /\ overdue' \in [Job -> BOOLEAN]
    <3>1. CASE UNCHANGED <<status, attempts, overdue>>
      BY <3>1
    <3>2. CASE pc[w] = "claiming" /\ MarkClaimed(locked[w])
      <4>1. locked[w] \in Job
        BY <3>2
      <4>2. QED
        BY ONLY TypeOK, <3>2, <4>1, ClaimTyped
    <3>3. QED
      BY <1>11, <3>1, <3>2 DEF ClaimErrors
  <2>2. /\ pc[w] \in {"drain", "claiming"} /\ pc' = [pc EXCEPT ![w] = "sleep"]
        /\ locked' = [locked EXCEPT ![w] = NoJob]
        /\ faults' \in 0..MaxFaults
        /\ UNCHANGED <<ripe, held, seen, committed, reclaims, stolen>>
    BY <1>11 DEF ClaimErrors, Fault
  <2>3. QED
    BY <2>1, <2>2
<1>12. ASSUME NEW w \in Worker, BeginHandler(w) PROVE TypeOK'
  BY <1>12 DEF BeginHandler
<1>13. ASSUME NEW w \in Worker, HandlerCommits(w) PROVE TypeOK'
  <2>1. held[w] \in Job
    BY <1>13 DEF HandlerCommits
  <2>2. status' \in [Job -> Statuses]
    BY <1>13, <2>1 DEF HandlerCommits
  <2>3. committed[held[w]] + 1 \in Nat
    BY ONLY TypeOK, <2>1 DEF TypeOK
  <2>4. committed' \in [Job -> Nat]
    BY <1>13, <2>1, <2>3 DEF HandlerCommits
  <2>5. QED
    BY <1>13, <2>2, <2>4 DEF HandlerCommits, Release
<1>14. ASSUME NEW w \in Worker, HandlerFails(w) PROVE TypeOK'
  BY <1>14 DEF HandlerFails
<1>15. ASSUME NEW w \in Worker, FailReads(w) PROVE TypeOK'
  BY <1>15 DEF FailReads
<1>16. ASSUME NEW w \in Worker, FailWrites(w) PROVE TypeOK'
  BY <1>16 DEF FailWrites, Release
<1>17. ASSUME NEW w \in Worker, Abandon(w) PROVE TypeOK'
  BY <1>17 DEF Abandon, Release, Fault
<1>18. CASE UNCHANGED vars
  BY <1>18 DEF vars
<1>19. ASSUME NEW w \in Worker, CommitClaim(w) PROVE TypeOK'
  <2>1. locked[w] \in Job /\ MarkClaimed(locked[w])
    BY <1>19 DEF CommitClaim
  <2>2. status' \in [Job -> Statuses] /\ attempts' \in [Job -> Nat] /\ overdue' \in [Job -> BOOLEAN]
    BY ONLY TypeOK, <2>1, ClaimTyped
  <2>3. QED
    BY <1>19, <2>1, <2>2 DEF CommitClaim
<1>20. QED
  BY <1>1, <1>2, <1>3, <1>4, <1>5, <1>6, <1>7, <1>8, <1>9, <1>10, <1>11,
     <1>12, <1>13, <1>14, <1>15, <1>16, <1>17, <1>18, <1>19 DEF Next, Dispatch

\* The type invariant is inductive by itself.
THEOREM TypeCorrect == Spec => []TypeOK
<1>1. Init => TypeOK
  BY JobAssumption, BoundAssumption DEF Init, TypeOK, Statuses, Steps, Busy
<1> QED
  BY <1>1, TypeStep, PTL DEF Spec

(***************************************************************************)
(* Who holds a job, and how a step changes it.                             *)
(***************************************************************************)

\* The workers holding a job are finitely many.
LEMMA HoldersFinite ==
  \A j : /\ IsFiniteSet(Holders(j)) /\ Cardinality(Holders(j)) \in Nat
         /\ IsFiniteSet(Holders(j)') /\ Cardinality(Holders(j)') \in Nat
<1>1. ASSUME NEW j PROVE IsFiniteSet(Holders(j)) /\ IsFiniteSet(Holders(j)')
  BY WorkerAssumption, FS_Subset DEF Holders
<1>2. QED
  BY <1>1, FS_CardinalityType

\* A worker that takes job j while holding none joins the holders of j, and
\* those of every other job stay the same.
LEMMA HoldersGrow ==
  ASSUME TypeOK, NEW w \in Worker, NEW j \in Job,
         held[w] = NoJob, held' = [held EXCEPT ![w] = j]
  PROVE  /\ Cardinality(Holders(j))' = Cardinality(Holders(j)) + 1
         /\ \A i \in Job : i # j => Holders(i)' = Holders(i)
<1>1. NoJob \notin Job
  BY JobAssumption
<1>2. Holders(j)' = Holders(j) \cup {w} /\ w \notin Holders(j)
  BY <1>1 DEF TypeOK, Holders
<1>3. \A i \in Job : i # j => Holders(i)' = Holders(i)
  BY <1>1 DEF TypeOK, Holders
<1>4. QED
  BY <1>2, <1>3, HoldersFinite, FS_AddElement

\* A worker that lets go of job j leaves the holders of j.
LEMMA HoldersShrink ==
  ASSUME TypeOK, NEW w \in Worker, NEW j \in Job,
         held[w] = j, held' = [held EXCEPT ![w] = NoJob]
  PROVE  /\ Cardinality(Holders(j))' = Cardinality(Holders(j)) - 1
         /\ Cardinality(Holders(j)) >= 1
         /\ \A i \in Job : i # j => Holders(i)' = Holders(i)
<1>1. NoJob \notin Job
  BY JobAssumption
<1>2. Holders(j)' = Holders(j) \ {w} /\ w \in Holders(j)
  BY <1>1 DEF TypeOK, Holders
<1>3. \A i \in Job : i # j => Holders(i)' = Holders(i)
  BY <1>1 DEF TypeOK, Holders
<1>4. Cardinality(Holders(j))' = Cardinality(Holders(j)) - 1
  BY <1>2, HoldersFinite, FS_RemoveElement
<1>5. Cardinality(Holders(j)) # 0
  BY <1>2, HoldersFinite, FS_EmptySet
<1>6. QED
  BY <1>3, <1>4, <1>5, HoldersFinite

\* A job nobody holds has no holders to count, and conversely.
LEMMA NoHolders ==
  \A j : /\ Cardinality(Holders(j)) = 0 <=> Holders(j) = {}
         /\ Cardinality(Holders(j)') = 0 <=> Holders(j)' = {}
BY HoldersFinite, FS_EmptySet

(***************************************************************************)
(* Claims are exclusive: every writer of a locked row waits.               *)
(***************************************************************************)

\* A step that leaves the locks and the locked rows alone keeps the claims
\* exclusive, and so does one that only gives up one worker's lock.
LEMMA LocksFrame ==
  ASSUME TypeOK, ClaimsExclusive,
         \A w \in Worker : locked'[w] \in {locked[w], NoJob},
         \A w \in Worker : locked'[w] # NoJob => status'[locked[w]] = status[locked[w]]
  PROVE  ClaimsExclusive'
BY DEF ClaimsExclusive

\* One step of the queue keeps the claims exclusive.
LEMMA LockStep ==
  ASSUME TypeOK, ClaimsExclusive, [Next]_vars
  PROVE  ClaimsExclusive'
<1>1. ASSUME UNCHANGED <<status, locked>> PROVE ClaimsExclusive'
  BY <1>1 DEF ClaimsExclusive
<1>2. ASSUME NEW k \in Job, Enqueue(k) PROVE ClaimsExclusive'
  <2>1. \A w \in Worker : locked[w] # NoJob => locked[w] # k
    BY <1>2 DEF Enqueue, ClaimsExclusive
  <2>2. \A w \in Worker : locked[w] # NoJob => status'[locked[w]] = status[locked[w]]
    BY <1>2, <2>1 DEF Enqueue, TypeOK
  <2>3. QED
    BY <1>2, <2>2, LocksFrame DEF Enqueue, worker
<1>3. ASSUME NEW k \in Job, BackoffElapses(k) \/ ClaimAges(k) \/ HandlerOverruns(k)
      PROVE  ClaimsExclusive'
  BY <1>1, <1>3 DEF BackoffElapses, ClaimAges, HandlerOverruns, worker
<1>4. ASSUME NEW w \in Worker,
             \/ Start(w) \/ TickReclaimFails(w) \/ NothingToClaim(w) \/ BeginHandler(w)
             \/ HandlerFails(w) \/ FailReads(w) \/ Abandon(w)
      PROVE  ClaimsExclusive'
  BY <1>1, <1>4 DEF Start, TickReclaimFails, NothingToClaim, BeginHandler,
                    HandlerFails, FailReads, Abandon, row
<1>5. ASSUME NEW w \in Worker, Stop(w) PROVE ClaimsExclusive'
  BY <1>5, LocksFrame DEF Stop, row, TypeOK
<1>6. ASSUME NEW w \in Worker, Tick(w) PROVE ClaimsExclusive'
  <2>1. \A v \in Worker : locked[v] # NoJob => status'[locked[v]] = status[locked[v]]
    BY <1>6 DEF Tick, ReclaimStale, ClaimsExclusive, Stale, TypeOK
  <2>2. QED
    BY <1>6, <2>1, LocksFrame DEF Tick
<1>7. ASSUME NEW w \in Worker, LockNext(w) PROVE ClaimsExclusive'
  <2>1. PICK k \in Job : NextInLine(k) /\ locked' = [locked EXCEPT ![w] = k]
    BY <1>7 DEF LockNext
  <2>2. status[k] = "PENDING" /\ status' = status /\ \A v \in Worker : locked[v] # k
    BY <1>7, <2>1 DEF LockNext, NextInLine, Claimable, Locked, row
  <2>3. QED
    BY <2>1, <2>2 DEF ClaimsExclusive, TypeOK
<1>8. ASSUME NEW w \in Worker, CommitClaim(w) \/ ClaimErrors(w) PROVE ClaimsExclusive'
  <2>1. locked' = [locked EXCEPT ![w] = NoJob]
    BY <1>8 DEF CommitClaim, ClaimErrors
  <2>2. \/ status' = status
        \/ locked[w] # NoJob /\ status' = [status EXCEPT ![locked[w]] = "PROCESSING"]
    BY <1>8 DEF CommitClaim, ClaimErrors, MarkClaimed, TypeOK
  <2>3. \A v \in Worker : locked'[v] # NoJob => status'[locked[v]] = status[locked[v]]
    BY <2>1, <2>2 DEF ClaimsExclusive, TypeOK
  <2>4. QED
    BY <2>1, <2>3, LocksFrame DEF TypeOK
<1>9. ASSUME NEW w \in Worker, HandlerCommits(w) \/ FailWrites(w) PROVE ClaimsExclusive'
  <2>1. ~Locked(held[w]) /\ locked' = locked
    BY <1>9 DEF HandlerCommits, FailWrites
  <2>2. \A i \in Job : i # held[w] => status'[i] = status[i]
    BY <1>9 DEF HandlerCommits, FailWrites, TypeOK
  <2>3. \A v \in Worker : locked[v] # NoJob => status'[locked[v]] = status[locked[v]]
    BY <2>1, <2>2 DEF Locked, TypeOK
  <2>4. QED
    BY <2>1, <2>3, LocksFrame
<1>10. CASE UNCHANGED vars
  BY <1>1, <1>10 DEF vars, row, worker
<1>11. QED
  BY <1>2, <1>3, <1>4, <1>5, <1>6, <1>7, <1>8, <1>9, <1>10 DEF Next, Dispatch

\* No two claim transactions ever hold the same row, and what a claim has
\* selected stays PENDING until it commits.
THEOREM ClaimsExclusiveHolds == Spec => []ClaimsExclusive
<1>1. Init => ClaimsExclusive
  BY DEF Init, ClaimsExclusive
<1>2. QED
  BY <1>1, TypeCorrect, LockStep, PTL DEF Spec

(***************************************************************************)
(* A step that neither touches the history of a job nor its holders may    *)
(* only make the row less inviting.                                        *)
(***************************************************************************)
PermitBound(j) == committed[j] + Permits(j) <= 1 + stolen[j]

LEMMA PermitFrame ==
  ASSUME NEW j \in Job, PermitBound(j),
         Holders(j)' = Holders(j), committed'[j] = committed[j],
         stolen'[j] = stolen[j], Idle(j)' => Idle(j), TypeOK, TypeOK'
  PROVE  PermitBound(j)'
BY HoldersFinite DEF PermitBound, Permits, TypeOK

\* One step of the queue keeps the permits of every job within the bound.
LEMMA PermitStep ==
  ASSUME TypeOK, TypeOK', ClaimsExclusive, PermitsBounded, [Next]_vars
  PROVE  PermitsBounded'
<1> SUFFICES ASSUME NEW j \in Job PROVE PermitBound(j)'
  BY DEF PermitsBounded, PermitBound
<1>0. PermitBound(j)
  BY DEF PermitsBounded, PermitBound
<1>n. /\ Cardinality(Holders(j)) \in Nat /\ Cardinality(Holders(j)') \in Nat
      /\ committed[j] \in Nat /\ stolen[j] \in Nat
  BY HoldersFinite DEF TypeOK
<1>1. ASSUME UNCHANGED <<status, held, committed, stolen>> PROVE PermitBound(j)'
  <2>1. Holders(j)' = Holders(j)
    BY <1>1 DEF Holders
  <2>2. QED
    BY <1>0, <1>1, <2>1, PermitFrame DEF Idle
<1>2. ASSUME NEW w \in Worker, held' = [held EXCEPT ![w] = NoJob],
             UNCHANGED <<status, committed, stolen>>
      PROVE  PermitBound(j)'
  <2>1. CASE held[w] = NoJob
    BY <1>1, <1>2, <2>1 DEF TypeOK
  <2>2. CASE held[w] = j
    <3>1. Cardinality(Holders(j)') = Cardinality(Holders(j)) - 1
      BY <1>2, <2>2, HoldersShrink
    <3>2. committed'[j] = committed[j] /\ stolen'[j] = stolen[j]
      BY <1>2
    <3>3. QED
      BY ONLY <1>0, <1>n, <3>1, <3>2 DEF PermitBound, Permits
  <2>3. CASE held[w] \in Job /\ held[w] # j
    <3>1. Holders(j)' = Holders(j)
      BY <1>2, <2>3, HoldersShrink
    <3>2. QED
      BY <1>0, <1>2, <3>1, PermitFrame DEF Idle
  <2>4. QED
    BY <2>1, <2>2, <2>3 DEF TypeOK
<1>3. ASSUME NEW k \in Job, Enqueue(k) PROVE PermitBound(j)'
  <2>1. Holders(j)' = Holders(j) /\ (Idle(j)' => Idle(j))
    BY <1>3 DEF Enqueue, Idle, Holders, worker, TypeOK
  <2>2. QED
    BY <1>0, <1>3, <2>1, PermitFrame DEF Enqueue, history
<1>4. ASSUME NEW k \in Job, BackoffElapses(k) \/ ClaimAges(k) \/ HandlerOverruns(k)
      PROVE  PermitBound(j)'
  BY <1>1, <1>4 DEF BackoffElapses, ClaimAges, HandlerOverruns, worker, history
<1>5. ASSUME NEW w \in Worker,
             \/ Start(w) \/ TickReclaimFails(w) \/ NothingToClaim(w)
             \/ BeginHandler(w) \/ HandlerFails(w) \/ FailReads(w) \/ LockNext(w)
      PROVE  PermitBound(j)'
  BY <1>1, <1>5 DEF Start, TickReclaimFails, NothingToClaim, LockNext, BeginHandler,
                    HandlerFails, FailReads, row, history
<1>6. ASSUME NEW w \in Worker, Stop(w) \/ Abandon(w) PROVE PermitBound(j)'
  BY <1>2, <1>6 DEF Stop, Abandon, Release, row, history
<1>7. ASSUME NEW w \in Worker, Tick(w) PROVE PermitBound(j)'
  <2>1. Holders(j)' = Holders(j) /\ committed' = committed
    BY <1>7 DEF Tick, Holders
  <2>2. CASE Stale(j) /\ Holders(j) # {}
    <3>1. stolen'[j] = stolen[j] + 1
      BY <1>7, <2>2 DEF Tick, ReclaimStale
    <3>2. ~Idle(j)
      BY <2>2 DEF Stale, Idle
    <3>3. QED
      BY <1>0, <1>n, <2>1, <3>1, <3>2 DEF PermitBound, Permits
  <2>3. CASE ~(Stale(j) /\ Holders(j) # {})
    <3>1. stolen'[j] = stolen[j] /\ status'[j] = IF Stale(j) THEN "PENDING" ELSE status[j]
      BY <1>7, <2>3 DEF Tick, ReclaimStale
    <3>2. Idle(j)' => Idle(j)
      BY <2>1, <2>3, <3>1 DEF Stale, Idle
    <3>3. QED
      BY <1>0, <2>1, <3>1, <3>2, PermitFrame
  <2>4. QED
    BY <2>2, <2>3
<1>8. ASSUME NEW w \in Worker, CommitClaim(w) PROVE PermitBound(j)'
  <2>1. PICK k \in Job : k = locked[w]
    BY <1>8 DEF CommitClaim, TypeOK
  <2>2. /\ held[w] = NoJob /\ held' = [held EXCEPT ![w] = k]
        /\ committed' = committed /\ stolen' = stolen
    BY <1>8, <2>1 DEF CommitClaim, TypeOK, Busy, history
  <2>3. status[k] = "PENDING" /\ status' = [status EXCEPT ![k] = "PROCESSING"]
    BY <1>8, <2>1, JobAssumption DEF CommitClaim, MarkClaimed, ClaimsExclusive
  <2>4. CASE k = j
    <3>1. Idle(j) /\ status'[j] = "PROCESSING"
      BY <2>3, <2>4 DEF Idle, TypeOK
    <3>2. Cardinality(Holders(j)') = Cardinality(Holders(j)) + 1
      BY <2>2, <2>4, HoldersGrow
    <3>3. Holders(j)' # {}
      BY <1>n, <3>2, NoHolders
    <3>4. ~Idle(j)'
      BY <3>1, <3>3 DEF Idle
    <3>5. QED
      BY <1>0, <1>n, <2>2, <3>1, <3>2, <3>4 DEF PermitBound, Permits
  <2>5. CASE k # j
    <3>1. Holders(j)' = Holders(j)
      BY <2>2, <2>5, HoldersGrow
    <3>2. status'[j] = status[j]
      BY <2>3, <2>5 DEF TypeOK
    <3>3. Idle(j)' => Idle(j)
      BY <3>1, <3>2 DEF Idle
    <3>4. QED
      BY <1>0, <2>2, <3>1, <3>3, PermitFrame
  <2>6. QED
    BY <2>4, <2>5
<1>9. ASSUME NEW w \in Worker, ClaimErrors(w) PROVE PermitBound(j)'
  <2>1. UNCHANGED <<held, committed, stolen>> /\ Holders(j)' = Holders(j)
    BY <1>9 DEF ClaimErrors, history, Holders
  <2>2. \/ status' = status
        \/ status[locked[w]] = "PENDING" /\ status' = [status EXCEPT ![locked[w]] = "PROCESSING"]
    BY <1>9 DEF ClaimErrors, MarkClaimed, ClaimsExclusive, TypeOK
  <2>3. Idle(j)' => Idle(j)
    BY <2>1, <2>2 DEF Idle, TypeOK
  <2>4. QED
    BY <1>0, <2>1, <2>3, PermitFrame
<1>10. ASSUME NEW w \in Worker, HandlerCommits(w) PROVE PermitBound(j)'
  <2>1. held[w] \in Job
    BY <1>10 DEF HandlerCommits, TypeOK, Busy
  <2>2. held' = [held EXCEPT ![w] = NoJob] /\ stolen' = stolen
    BY <1>10 DEF HandlerCommits, Release
  <2>3. CASE held[w] = j
    <3>1. committed'[j] = committed[j] + 1 /\ ~Idle(j)'
      BY <1>10, <2>3 DEF HandlerCommits, Idle, TypeOK
    <3>2. Cardinality(Holders(j)') = Cardinality(Holders(j)) - 1
      BY <2>2, <2>3, HoldersShrink
    <3>3. stolen'[j] = stolen[j]
      BY <2>2
    <3>4. QED
      BY ONLY <1>0, <1>n, <3>1, <3>2, <3>3 DEF PermitBound, Permits
  <2>4. CASE held[w] # j
    <3>1. status'[j] = status[j] /\ committed'[j] = committed[j]
      BY <1>10, <2>1, <2>4 DEF HandlerCommits, TypeOK
    <3>2. Holders(j)' = Holders(j)
      BY <2>1, <2>2, <2>4, HoldersShrink
    <3>3. QED
      BY <1>0, <2>2, <3>1, <3>2, PermitFrame DEF Idle
  <2>5. QED
    BY <2>3, <2>4
<1>11. ASSUME NEW w \in Worker, FailWrites(w) PROVE PermitBound(j)'
  <2>1. held[w] \in Job
    BY <1>11 DEF FailWrites, TypeOK, Busy
  <2>2. held' = [held EXCEPT ![w] = NoJob] /\ UNCHANGED <<committed, stolen>>
    BY <1>11 DEF FailWrites, Release, history
  <2>3. CASE held[w] = j
    <3>1. Cardinality(Holders(j)') = Cardinality(Holders(j)) - 1
      BY <2>2, <2>3, HoldersShrink
    <3>2. committed'[j] = committed[j] /\ stolen'[j] = stolen[j]
      BY <2>2
    <3>3. QED
      BY ONLY <1>0, <1>n, <3>1, <3>2 DEF PermitBound, Permits
  <2>4. CASE held[w] # j
    <3>1. status'[j] = status[j]
      BY <1>11, <2>1, <2>4 DEF FailWrites, TypeOK
    <3>2. Holders(j)' = Holders(j)
      BY <2>1, <2>2, <2>4, HoldersShrink
    <3>3. QED
      BY <1>0, <2>2, <3>1, <3>2, PermitFrame DEF Idle
  <2>5. QED
    BY <2>3, <2>4
<1>12. CASE UNCHANGED vars
  BY <1>1, <1>12 DEF vars, row, worker, history
<1>13. QED
  BY <1>3, <1>4, <1>5, <1>6, <1>7, <1>8, <1>9, <1>10, <1>11, <1>12
     DEF Next, Dispatch

\* Permits and commits of a job together never exceed one plus the number of
\* times ReclaimStale took it from a live worker.
THEOREM PermitsHold == Spec => []PermitsBounded
<1>1. Init => PermitsBounded
  <2> SUFFICES ASSUME Init, NEW j \in Job
               PROVE  committed[j] + Permits(j) <= 1 + stolen[j]
    BY DEF PermitsBounded
  <2>1. Holders(j) = {}
    BY JobAssumption DEF Init, Holders
  <2>2. Cardinality(Holders(j)) = 0
    BY <2>1, NoHolders
  <2>3. QED
    BY <2>2 DEF Init, Permits
<1>2. QED
  BY <1>1, TypeCorrect, ClaimsExclusiveHolds, PermitStep, PTL DEF Spec

\* A handler's transaction commits at most once, plus once for every time
\* ReclaimStale took the job from a worker that was still running it: no
\* crash, database error or retry alone runs a job's effects twice.
THEOREM CommitsHold == Spec => []CommitsBounded
<1>1. TypeOK /\ PermitsBounded => CommitsBounded
  BY HoldersFinite DEF PermitsBounded, CommitsBounded, Permits, TypeOK
<1>2. QED
  BY <1>1, TypeCorrect, PermitsHold, PTL

\* Two workers never run one job at a time unless ReclaimStale took it from
\* one of them.
THEOREM OneRunnerHolds == Spec => []OneRunner
<1>1. TypeOK /\ PermitsBounded => OneRunner
  BY HoldersFinite DEF PermitsBounded, OneRunner, Permits, TypeOK
<1>2. QED
  BY <1>1, TypeCorrect, PermitsHold, PTL

(***************************************************************************)
(* The retry budget.  Once attempts has reached the limit, a claim can     *)
(* still be invited in two ways: the row is PENDING, or a worker whose     *)
(* Fail read attempts before the limit was reached is about to make it so. *)
(* Each of these is paid for by a reclaim.                                 *)
(***************************************************************************)
Doubtful(j) == {w \in Holders(j) : pc[w] = "recording" /\ MayRetry(seen[w])}
Invited(j) == IF status[j] = "PENDING" THEN 1 ELSE 0

BudgetKept(j) ==
    attempts[j] >= MaxAttempts =>
        attempts[j] + Cardinality(Doubtful(j)) + Invited(j) <= MaxAttempts + reclaims[j]

BudgetInv ==
    \A j \in Job :
        /\ BudgetKept(j)
        /\ status[j] = "ABSENT" => attempts[j] = 0
        /\ stolen[j] <= reclaims[j]

\* Of the holders of a job at most all are doubtful.
LEMMA DoubtfulFinite ==
  \A j : /\ IsFiniteSet(Doubtful(j)) /\ Cardinality(Doubtful(j)) \in Nat
         /\ IsFiniteSet(Doubtful(j)') /\ Cardinality(Doubtful(j)') \in Nat
         /\ Cardinality(Doubtful(j)) <= Cardinality(Holders(j))
         /\ Doubtful(j)' \subseteq Doubtful(j) =>
                Cardinality(Doubtful(j)') <= Cardinality(Doubtful(j))
<1>1. ASSUME NEW j
      PROVE  /\ IsFiniteSet(Doubtful(j)) /\ IsFiniteSet(Doubtful(j)')
             /\ Cardinality(Doubtful(j)) <= Cardinality(Holders(j))
  <2>1. Doubtful(j) \subseteq Holders(j) /\ Doubtful(j)' \subseteq Holders(j)'
    BY DEF Doubtful
  <2> QED
    BY <2>1, HoldersFinite, FS_Subset
<1> QED
  BY <1>1, FS_CardinalityType, FS_Subset

\* A step that counts no attempt and invites no claim keeps the budget.
LEMMA BudgetFrame ==
  ASSUME NEW j \in Job, TypeOK, TypeOK', BudgetKept(j),
         attempts'[j] = attempts[j], reclaims'[j] >= reclaims[j],
         status'[j] = "PENDING" => status[j] = "PENDING",
         attempts[j] >= MaxAttempts => Doubtful(j)' \subseteq Doubtful(j)
  PROVE  BudgetKept(j)'
<1> SUFFICES ASSUME attempts[j] >= MaxAttempts
             PROVE  (attempts[j] + Cardinality(Doubtful(j)) + Invited(j) <= MaxAttempts + reclaims[j])'
  BY DEF BudgetKept
<1>1. attempts[j] + Cardinality(Doubtful(j)) + Invited(j) <= MaxAttempts + reclaims[j]
  BY DEF BudgetKept
<1>2. /\ Cardinality(Doubtful(j)') <= Cardinality(Doubtful(j))
      /\ Cardinality(Doubtful(j)) \in Nat /\ Cardinality(Doubtful(j)') \in Nat
  BY DoubtfulFinite
<1>3. Invited(j)' <= Invited(j) /\ Invited(j) \in Nat /\ Invited(j)' \in Nat
  BY DEF Invited
<1>4. /\ attempts[j] \in Nat /\ attempts'[j] \in Nat
      /\ reclaims[j] \in Nat /\ reclaims'[j] \in Nat /\ MaxAttempts \in Nat
  BY BoundAssumption DEF TypeOK
<1> QED
  BY ONLY <1>1, <1>2, <1>3, <1>4, attempts'[j] = attempts[j], reclaims'[j] >= reclaims[j]

\* A claim takes the invitation away and counts an attempt.  The claim that
\* reaches the limit finds no more holders than reclaims, by PermitsBounded.
LEMMA BudgetClaim ==
  ASSUME NEW j \in Job, TypeOK, TypeOK', PermitsBounded, BudgetKept(j),
         stolen[j] <= reclaims[j], status[j] = "PENDING", MarkClaimed(j),
         reclaims'[j] = reclaims[j], Doubtful(j)' \subseteq Doubtful(j)
  PROVE  BudgetKept(j)'
<1>1. attempts'[j] = attempts[j] + 1 /\ Invited(j) = 1 /\ Invited(j)' = 0
  BY DEF MarkClaimed, TypeOK, Invited
<1>2. /\ Cardinality(Doubtful(j)') <= Cardinality(Doubtful(j))
      /\ Cardinality(Doubtful(j)) <= Cardinality(Holders(j))
      /\ Cardinality(Doubtful(j)) \in Nat /\ Cardinality(Doubtful(j)') \in Nat
      /\ Cardinality(Holders(j)) \in Nat
  BY DoubtfulFinite, HoldersFinite
<1>3. /\ attempts[j] \in Nat /\ reclaims[j] \in Nat /\ stolen[j] \in Nat
      /\ committed[j] \in Nat /\ MaxAttempts \in Nat
  BY BoundAssumption DEF TypeOK
<1>4. committed[j] + Cardinality(Holders(j)) + 1 <= 1 + stolen[j]
  <2>1. Permits(j) = Cardinality(Holders(j)) + 1
    BY DEF Permits, Idle
  <2> QED
    BY <1>2, <1>3, <2>1 DEF PermitsBounded
<1>5. CASE attempts[j] >= MaxAttempts
  <2>1. attempts[j] + Cardinality(Doubtful(j)) + 1 <= MaxAttempts + reclaims[j]
    BY <1>1, <1>5 DEF BudgetKept
  <2>2. attempts'[j] + Cardinality(Doubtful(j)') + Invited(j)' <= MaxAttempts + reclaims'[j]
    BY ONLY <1>1, <1>2, <1>3, <2>1, reclaims'[j] = reclaims[j]
  <2> QED
    BY <2>2 DEF BudgetKept
<1>6. CASE ~(attempts[j] >= MaxAttempts)
  <2>1. attempts'[j] <= MaxAttempts
    BY ONLY <1>1, <1>3, <1>6
  <2>2. attempts'[j] + Cardinality(Doubtful(j)') + Invited(j)' <= MaxAttempts + reclaims'[j]
    BY ONLY <1>1, <1>2, <1>3, <1>4, <2>1, stolen[j] <= reclaims[j], reclaims'[j] = reclaims[j]
  <2> QED
    BY <2>2 DEF BudgetKept
<1> QED
  BY <1>5, <1>6

\* One step of the queue keeps the budget of every job.
LEMMA BudgetStep ==
  ASSUME TypeOK, TypeOK', ClaimsExclusive, PermitsBounded, BudgetInv, [Next]_vars
  PROVE  BudgetInv'
<1> SUFFICES ASSUME NEW j \in Job
             PROVE  /\ BudgetKept(j)'
                    /\ status'[j] = "ABSENT" => attempts'[j] = 0
                    /\ stolen'[j] <= reclaims'[j]
  BY DEF BudgetInv
<1> DEFINE Goal == /\ BudgetKept(j)'
                   /\ status'[j] = "ABSENT" => attempts'[j] = 0
                   /\ stolen'[j] <= reclaims'[j]
<1>0. /\ BudgetKept(j) /\ (status[j] = "ABSENT" => attempts[j] = 0)
      /\ stolen[j] <= reclaims[j]
      /\ stolen[j] \in Nat /\ reclaims[j] \in Nat /\ attempts[j] \in Nat /\ MaxAttempts \in Nat \ {0}
  BY BoundAssumption DEF BudgetInv, TypeOK
<1>1. ASSUME UNCHANGED <<status, attempts, reclaims, stolen>>,
             attempts[j] >= MaxAttempts => Doubtful(j)' \subseteq Doubtful(j)
      PROVE  Goal
  BY <1>0, <1>1, BudgetFrame
<1>2. ASSUME NEW k \in Job, Enqueue(k) PROVE Goal
  <2>1. Doubtful(j)' = Doubtful(j) /\ UNCHANGED <<attempts, reclaims, stolen>>
    BY <1>2 DEF Enqueue, Doubtful, Holders, worker, history
  <2>2. status' = [status EXCEPT ![k] = "PENDING"] /\ status[k] = "ABSENT"
    BY <1>2 DEF Enqueue
  <2>3. CASE j = k
    <3>1. attempts'[j] = 0
      BY <1>0, <2>1, <2>2, <2>3
    <3>2. BudgetKept(j)'
      BY <1>0, <3>1 DEF BudgetKept
    <3> QED
      BY <1>0, <2>1, <3>1, <3>2
  <2>4. CASE j # k
    <3>1. status'[j] = status[j]
      BY <2>2, <2>4 DEF TypeOK
    <3> QED
      BY <1>0, <2>1, <3>1, BudgetFrame
  <2> QED
    BY <2>3, <2>4
<1>3. ASSUME NEW k \in Job, BackoffElapses(k) \/ ClaimAges(k) \/ HandlerOverruns(k)
      PROVE  Goal
  <2>1. UNCHANGED <<status, attempts, reclaims, stolen>> /\ Doubtful(j)' = Doubtful(j)
    BY <1>3 DEF BackoffElapses, ClaimAges, HandlerOverruns, worker, history, Doubtful, Holders
  <2> QED
    BY <1>1, <2>1
<1>4. ASSUME NEW w \in Worker,
             \/ Start(w) \/ TickReclaimFails(w) \/ NothingToClaim(w) \/ BeginHandler(w)
             \/ HandlerFails(w) \/ LockNext(w) \/ Stop(w) \/ Abandon(w)
      PROVE  Goal
  <2>1. UNCHANGED <<status, attempts, reclaims, stolen>>
    BY <1>4 DEF Start, TickReclaimFails, NothingToClaim, BeginHandler, HandlerFails,
                LockNext, Stop, Abandon, row, history
  <2>2. Doubtful(j)' \subseteq Doubtful(j)
    BY <1>4, JobAssumption
       DEF Start, TickReclaimFails, NothingToClaim, BeginHandler, HandlerFails,
           LockNext, Stop, Abandon, Release, Doubtful, Holders, TypeOK
  <2> QED
    BY <1>1, <2>1, <2>2
<1>5. ASSUME NEW w \in Worker, FailReads(w) PROVE Goal
  <2>1. UNCHANGED <<status, attempts, reclaims, stolen, held>>
    BY <1>5 DEF FailReads, row, history
  <2>2. ASSUME attempts[j] >= MaxAttempts PROVE Doubtful(j)' \subseteq Doubtful(j)
    <3> SUFFICES ASSUME NEW v \in Doubtful(j)' PROVE v \in Doubtful(j)
      OBVIOUS
    <3>1. v \in Worker /\ held[v] = j /\ pc'[v] = "recording" /\ seen'[v] < MaxAttempts
      BY <2>1 DEF Doubtful, Holders, MayRetry
    <3>2. CASE v = w
      <4>1. seen'[w] = attempts[j]
        BY <1>5, <3>1, <3>2 DEF FailReads, TypeOK
      <4> QED
        BY ONLY <1>0, <2>2, <3>1, <3>2, <4>1
    <3>3. CASE v # w
      BY <1>5, <3>1, <3>3 DEF FailReads, Doubtful, Holders, MayRetry, TypeOK
    <3> QED
      BY <3>2, <3>3
  <2> QED
    BY <1>1, <2>1, <2>2
<1>6. ASSUME NEW w \in Worker, Tick(w) PROVE Goal
  <2>1. Doubtful(j)' \subseteq Doubtful(j) /\ attempts' = attempts
    BY <1>6 DEF Tick, Doubtful, Holders, TypeOK
  <2>2. CASE Stale(j)
    <3>1. /\ status[j] = "PROCESSING" /\ status'[j] = "PENDING"
          /\ reclaims'[j] = reclaims[j] + 1 /\ stolen'[j] <= stolen[j] + 1
      BY <1>0, <1>6, <2>2 DEF Tick, ReclaimStale, Stale
    <3>2. Invited(j) = 0 /\ Invited(j)' = 1
      BY <3>1 DEF Invited
    <3>3. /\ Cardinality(Doubtful(j)') <= Cardinality(Doubtful(j))
          /\ Cardinality(Doubtful(j)) \in Nat /\ Cardinality(Doubtful(j)') \in Nat
      BY <2>1, DoubtfulFinite
    <3>4. attempts'[j] = attempts[j]
      BY <2>1
    <3>5. ASSUME attempts[j] >= MaxAttempts
          PROVE  attempts'[j] + Cardinality(Doubtful(j)') + Invited(j)' <= MaxAttempts + reclaims'[j]
      <4>1. attempts[j] + Cardinality(Doubtful(j)) + Invited(j) <= MaxAttempts + reclaims[j]
        BY <1>0, <3>5 DEF BudgetKept
      <4> QED
        BY ONLY <1>0, <3>1, <3>2, <3>3, <3>4, <4>1
    <3>6. BudgetKept(j)'
      BY <3>4, <3>5 DEF BudgetKept
    <3>7. stolen'[j] \in Nat
      BY DEF TypeOK
    <3>8. stolen'[j] <= reclaims'[j]
      BY ONLY <1>0, <3>1, <3>7
    <3> QED
      BY <3>1, <3>6, <3>8
  <2>3. CASE ~Stale(j)
    <3>1. status'[j] = status[j] /\ reclaims'[j] = reclaims[j] /\ stolen'[j] = stolen[j]
      BY <1>6, <2>3 DEF Tick, ReclaimStale
    <3> QED
      BY <1>0, <2>1, <3>1, BudgetFrame
  <2> QED
    BY <2>2, <2>3
<1>7. ASSUME NEW w \in Worker, CommitClaim(w) \/ ClaimErrors(w) PROVE Goal
  <2>1. reclaims' = reclaims /\ stolen' = stolen
    BY <1>7 DEF CommitClaim, ClaimErrors, history
  <2>2. Doubtful(j)' \subseteq Doubtful(j)
    BY <1>7 DEF CommitClaim, ClaimErrors, Doubtful, Holders, Busy, TypeOK
  <2>3. CASE UNCHANGED <<status, attempts>>
    BY <1>1, <2>1, <2>2, <2>3
  <2>4. CASE pc[w] = "claiming" /\ MarkClaimed(locked[w])
    <3>1. locked[w] \in Job /\ status[locked[w]] = "PENDING"
      BY <2>4 DEF TypeOK, ClaimsExclusive
    <3>2. CASE locked[w] = j
      <4>1. BudgetKept(j)'
        BY <1>0, <2>1, <2>2, <2>4, <3>1, <3>2, BudgetClaim
      <4>2. status'[j] # "ABSENT"
        BY <2>4, <3>2 DEF MarkClaimed, TypeOK
      <4> QED
        BY <1>0, <2>1, <4>1, <4>2
    <3>3. CASE locked[w] # j
      <4>1. status'[j] = status[j] /\ attempts'[j] = attempts[j]
        BY <2>4, <3>1, <3>3 DEF MarkClaimed, TypeOK
      <4> QED
        BY <1>0, <2>1, <2>2, <4>1, BudgetFrame
    <3> QED
      BY <3>2, <3>3
  <2> QED
    BY <1>7, <2>3, <2>4 DEF CommitClaim, ClaimErrors
<1>8. ASSUME NEW w \in Worker, HandlerCommits(w) PROVE Goal
  <2>1. /\ held[w] \in Job /\ status' = [status EXCEPT ![held[w]] = "COMPLETED"]
        /\ UNCHANGED <<attempts, reclaims, stolen>>
    BY <1>8 DEF HandlerCommits, TypeOK, Busy
  <2>2. Doubtful(j)' \subseteq Doubtful(j)
    BY <1>8, JobAssumption DEF HandlerCommits, Release, Doubtful, Holders, TypeOK
  <2>3. status'[j] \in {status[j], "COMPLETED"}
    BY <2>1 DEF TypeOK
  <2> QED
    BY <1>0, <2>1, <2>2, <2>3, BudgetFrame
<1>9. ASSUME NEW w \in Worker, FailWrites(w) PROVE Goal
  <2>1. /\ held[w] \in Job /\ w \in Holders(held[w]) /\ pc[w] = "recording"
        /\ status' = [status EXCEPT ![held[w]] = IF MayRetry(seen[w]) THEN "PENDING" ELSE "FAILED"]
        /\ held' = [held EXCEPT ![w] = NoJob] /\ pc' = [pc EXCEPT ![w] = "drain"]
        /\ UNCHANGED <<attempts, reclaims, stolen, seen>>
    BY <1>9 DEF FailWrites, Release, Holders, TypeOK, Busy, history
  <2>2. Doubtful(j)' = Doubtful(j) \ {w}
    BY <2>1, JobAssumption DEF Doubtful, Holders, TypeOK
  <2>3. CASE held[w] = j /\ MayRetry(seen[w])
    <3>1. w \in Doubtful(j)
      BY <2>1, <2>3 DEF Doubtful
    <3>2. Cardinality(Doubtful(j)') = Cardinality(Doubtful(j)) - 1
      BY <2>2, <3>1, DoubtfulFinite, FS_RemoveElement
    <3>3. status'[j] = "PENDING" /\ Invited(j)' = 1 /\ Invited(j) \in Nat
      BY <2>1, <2>3 DEF Invited, TypeOK
    <3>4. attempts'[j] = attempts[j] /\ reclaims'[j] = reclaims[j] /\ stolen'[j] = stolen[j]
      BY <2>1
    <3>5. ASSUME attempts[j] >= MaxAttempts
          PROVE  attempts'[j] + Cardinality(Doubtful(j)') + Invited(j)' <= MaxAttempts + reclaims'[j]
      <4>1. attempts[j] + Cardinality(Doubtful(j)) + Invited(j) <= MaxAttempts + reclaims[j]
        BY <1>0, <3>5 DEF BudgetKept
      <4>2. Cardinality(Doubtful(j)) \in Nat
        BY DoubtfulFinite
      <4> QED
        BY ONLY <1>0, <3>2, <3>3, <3>4, <4>1, <4>2
    <3>6. BudgetKept(j)'
      BY <3>4, <3>5 DEF BudgetKept
    <3> QED
      BY <1>0, <3>3, <3>4, <3>6
  <2>4. CASE ~(held[w] = j /\ MayRetry(seen[w]))
    <3>1. status'[j] \in {status[j], "FAILED"}
      BY <2>1, <2>4 DEF TypeOK
    <3> QED
      BY <1>0, <2>1, <2>2, <3>1, BudgetFrame
  <2> QED
    BY <2>3, <2>4
<1>10. CASE UNCHANGED vars
  <2>1. UNCHANGED <<status, attempts, reclaims, stolen>> /\ Doubtful(j)' = Doubtful(j)
    BY <1>10 DEF vars, row, worker, history, Doubtful, Holders
  <2> QED
    BY <1>1, <2>1
<1> QED
  BY <1>2, <1>3, <1>4, <1>5, <1>6, <1>7, <1>8, <1>9, <1>10 DEF Next, Dispatch

\* Attempts exceed max_attempts by at most the number of reclaims: a Fail that
\* decides on an attempts value another claim has raised since can exist only
\* because ReclaimStale let that other claim in.
THEOREM RetryBudgetHolds == Spec => []RetryBudget
<1>1. Init => BudgetInv
  BY BoundAssumption DEF Init, BudgetInv, BudgetKept
<1>2. TypeOK /\ BudgetInv => RetryBudget
  <2> SUFFICES ASSUME TypeOK, BudgetInv, NEW j \in Job
               PROVE  attempts[j] <= MaxAttempts + reclaims[j]
    BY DEF RetryBudget
  <2>1. /\ attempts[j] \in Nat /\ reclaims[j] \in Nat /\ MaxAttempts \in Nat
        /\ Cardinality(Doubtful(j)) \in Nat /\ Invited(j) \in Nat
    BY BoundAssumption, DoubtfulFinite DEF TypeOK, Invited
  <2>2. attempts[j] >= MaxAttempts =>
          attempts[j] + Cardinality(Doubtful(j)) + Invited(j) <= MaxAttempts + reclaims[j]
    BY DEF BudgetInv, BudgetKept
  <2> QED
    BY ONLY <2>1, <2>2
<1> QED
  BY <1>1, <1>2, TypeCorrect, ClaimsExclusiveHolds, PermitsHold, BudgetStep, PTL DEF Spec

(***************************************************************************)
(* A settled job moves only after a theft: otherwise its commit, or its    *)
(* FAILED row, has used up the only permit, and nobody holds it.           *)
(***************************************************************************)

\* A job that is COMPLETED was completed by a commit of its handler.
CompletedCommitted == \A j \in Job : status[j] = "COMPLETED" => committed[j] >= 1

\* Only a commit completes a job, and commits are never taken back.
LEMMA CompletedStep ==
  ASSUME TypeOK, CompletedCommitted, [Next]_vars
  PROVE  CompletedCommitted'
<1>1. ASSUME UNCHANGED committed,
             \A j \in Job : status'[j] = "COMPLETED" => status[j] = "COMPLETED"
      PROVE  CompletedCommitted'
  BY <1>1 DEF CompletedCommitted
<1>2. ASSUME NEW k \in Job, Enqueue(k) \/ BackoffElapses(k) \/ ClaimAges(k) \/ HandlerOverruns(k)
      PROVE  CompletedCommitted'
  BY <1>1, <1>2 DEF Enqueue, BackoffElapses, ClaimAges, HandlerOverruns, history, TypeOK
<1>3. ASSUME NEW w \in Worker, HandlerCommits(w) PROVE CompletedCommitted'
  <2>1. PICK k \in Job : k = held[w]
    BY <1>3 DEF HandlerCommits, TypeOK, Busy
  <2>2. /\ status' = [status EXCEPT ![k] = "COMPLETED"]
        /\ committed' = [committed EXCEPT ![k] = committed[k] + 1]
    BY <1>3, <2>1 DEF HandlerCommits
  <2>3. committed[k] \in Nat /\ committed'[k] = committed[k] + 1
    BY <2>2 DEF TypeOK
  <2>4. \A j \in Job : j # k => status'[j] = status[j] /\ committed'[j] = committed[j]
    BY <2>2 DEF TypeOK
  <2> QED
    BY <2>3, <2>4 DEF CompletedCommitted
<1>4. ASSUME NEW w \in Worker, CommitClaim(w) \/ ClaimErrors(w) PROVE CompletedCommitted'
  BY <1>1, <1>4 DEF CommitClaim, ClaimErrors, MarkClaimed, history, TypeOK
<1>5. ASSUME NEW w \in Worker, FailWrites(w) \/ Tick(w) PROVE CompletedCommitted'
  BY <1>1, <1>5 DEF FailWrites, Tick, ReclaimStale, history, TypeOK
<1>6. ASSUME NEW w \in Worker,
             \/ Start(w) \/ Stop(w) \/ TickReclaimFails(w) \/ NothingToClaim(w) \/ LockNext(w)
             \/ BeginHandler(w) \/ HandlerFails(w) \/ FailReads(w) \/ Abandon(w)
      PROVE  CompletedCommitted'
  BY <1>1, <1>6 DEF Start, Stop, TickReclaimFails, NothingToClaim, LockNext, BeginHandler,
                    HandlerFails, FailReads, Abandon, row, history
<1>7. CASE UNCHANGED vars
  BY <1>1, <1>7 DEF vars, row, history
<1> QED
  BY <1>2, <1>3, <1>4, <1>5, <1>6, <1>7 DEF Next, Dispatch

\* A job that was never taken from a live worker and is settled has no holder.
LEMMA SettledFree ==
  ASSUME TypeOK, PermitsBounded, CompletedCommitted,
         NEW j \in Job, status[j] \in Settled, ~(stolen[j] > 0)
  PROVE  Holders(j) = {}
<1>1. committed[j] \in Nat /\ stolen[j] = 0 /\ Cardinality(Holders(j)) \in Nat
  BY HoldersFinite DEF TypeOK
<1>2. committed[j] + Permits(j) <= 1
  BY <1>1 DEF PermitsBounded
<1>3. CASE status[j] = "COMPLETED"
  <2>1. committed[j] >= 1 /\ Permits(j) >= Cardinality(Holders(j)) /\ Permits(j) \in Nat
    BY <1>1, <1>3 DEF CompletedCommitted, Permits
  <2>2. Cardinality(Holders(j)) = 0
    BY ONLY <1>1, <1>2, <2>1
  <2> QED
    BY <2>2, NoHolders
<1>4. CASE status[j] = "FAILED"
  <2>1. Permits(j) = Cardinality(Holders(j)) + 1
    BY <1>4 DEF Permits, Idle
  <2>2. Cardinality(Holders(j)) = 0
    BY ONLY <1>1, <1>2, <2>1
  <2> QED
    BY <2>2, NoHolders
<1> QED
  BY <1>3, <1>4 DEF Settled

\* A COMPLETED or FAILED job changes state again only if it was at some time
\* reclaimed from a live worker, whose late Fail or Complete selects it by id.
THEOREM SettledHolds == Spec => SettledUnlessStolen
<1>1. TypeOK /\ ClaimsExclusive /\ PermitsBounded /\ CompletedCommitted /\ [Next]_vars
        => [\A j \in Job :
                status[j] \in Settled /\ status'[j] # status[j] => stolen[j] > 0]_vars
  <2> SUFFICES ASSUME TypeOK, ClaimsExclusive, PermitsBounded, CompletedCommitted, [Next]_vars,
                      NEW j \in Job, status[j] \in Settled, ~(stolen[j] > 0)
               PROVE  status'[j] = status[j]
    OBVIOUS
  <2>1. Holders(j) = {} /\ status[j] \notin {"ABSENT", "PENDING", "PROCESSING"}
    BY SettledFree DEF Settled
  <2>2. ASSUME NEW k \in Job, k # j, NEW s, status' = [status EXCEPT ![k] = s]
        PROVE  status'[j] = status[j]
    BY <2>2 DEF TypeOK
  <2>3. ASSUME NEW w \in Worker, Tick(w) PROVE status'[j] = status[j]
    BY <2>1, <2>3 DEF Tick, ReclaimStale, Stale
  <2>4. ASSUME NEW w \in Worker, CommitClaim(w) \/ ClaimErrors(w) PROVE status'[j] = status[j]
    <3>1. CASE UNCHANGED status
      BY <3>1
    <3>2. CASE pc[w] = "claiming" /\ MarkClaimed(locked[w])
      <4>1. locked[w] \in Job /\ locked[w] # j
        BY <2>1, <3>2 DEF TypeOK, ClaimsExclusive
      <4> QED
        BY <2>2, <3>2, <4>1 DEF MarkClaimed
    <3> QED
      BY <2>4, <3>1, <3>2 DEF CommitClaim, ClaimErrors
  <2>5. ASSUME NEW w \in Worker, HandlerCommits(w) \/ FailWrites(w) PROVE status'[j] = status[j]
    <3>1. held[w] \in Job /\ held[w] # j
      BY <2>1, <2>5 DEF HandlerCommits, FailWrites, Holders, TypeOK, Busy
    <3> QED
      BY <2>2, <2>5, <3>1 DEF HandlerCommits, FailWrites
  <2>6. ASSUME NEW k \in Job, Enqueue(k) PROVE status'[j] = status[j]
    BY <2>1, <2>2, <2>6 DEF Enqueue
  <2>7. CASE UNCHANGED status
    BY <2>7
  <2> QED
    BY <2>3, <2>4, <2>5, <2>6, <2>7
       DEF Next, Dispatch, vars, row, worker, history, BackoffElapses, ClaimAges,
           HandlerOverruns, Start, Stop, TickReclaimFails, LockNext, NothingToClaim,
           BeginHandler, HandlerFails, FailReads, Abandon
<1>2. Init => CompletedCommitted
  BY DEF Init, CompletedCommitted
<1> QED
  BY <1>1, <1>2, CompletedStep, TypeCorrect, ClaimsExclusiveHolds, PermitsHold, PTL
     DEF Spec, SettledUnlessStolen

-----------------------------------------------------------------------------
(***************************************************************************)
(* Exports.                                                                *)
(***************************************************************************)
LEMMA StepImplements ==
  ASSUME [ExportNext]_exportVars PROVE [Next]_vars
<1>1. ASSUME NEW j \in Registered, InsertExport(j) PROVE UNCHANGED vars
  BY <1>1 DEF InsertExport
<1>2. ASSUME NEW j \in Job, EnqueueExport(j) PROVE Next
  BY <1>2 DEF EnqueueExport, Next
<1>3. ASSUME NEW j \in Job, Passes(j) PROVE Next
  BY <1>3 DEF Passes, Next
<1>4. ASSUME NEW w \in Worker, Moves(w) PROVE Next
  BY <1>4 DEF Moves, DispatchExport, AbandonExport, Dispatch, Next
<1>5. ASSUME NEW w \in Worker, HandlerStep(w) \/ MarkProcessingErrors(w) \/ MarkFailedErrors(w)
      PROVE  [Next]_vars
  BY <1>5 DEF HandlerStep, MarkExportProcessing, GenerateExport, GenerateErrors, MarkExportFailed,
              Returns, MarkProcessingErrors, MarkFailedErrors, Dispatch, Next
<1>6. CASE UNCHANGED exportVars
  BY <1>6 DEF exportVars
<1>7. QED
  BY <1>1, <1>2, <1>3, <1>4, <1>5, <1>6 DEF ExportNext

\* Every behaviour of exports is a behaviour of the job queue: the handler's
\* marks are steps the queue does not see.
THEOREM ExportsImplementQueue == ExportSpec => Spec
<1>1. ExportInit => Init
  BY DEF ExportInit
<1>2. QED
  BY <1>1, StepImplements, PTL DEF ExportSpec, Spec

-----------------------------------------------------------------------------
\* The handler runs for exports only, and a call that is over is forgotten.
CallTyped == \A w \in Worker :
    /\ pc[w] = "running" => held[w] \in Registered
    /\ pc[w] # "running" => stage[w] = "begin"

\* What is known of an export nobody was robbed of, while a worker holds its
\* job and after.
Agrees(j) ==
    /\ status[j] = "COMPLETED" => export[j] = "COMPLETED"
    /\ status[j] = "FAILED" => export[j] = "FAILED" \/ lost[j]

Promised(j, w) ==
    held[w] = j =>
        /\ In(w, "done") => export[j] = "COMPLETED"
        /\ pc[w] \in {"failing", "recording"} => export[j] = "FAILED" \/ lost[j]

Faithful == \A j \in Registered : stolen[j] = 0 => Agrees(j) /\ \A w \in Worker : Promised(j, w)

ExportInv == ExportTypeOK /\ CallTyped /\ CompletedCommitted /\ Faithful

QueueInv == TypeOK /\ ClaimsExclusive /\ PermitsBounded

LEMMA ExportTyped ==
  ASSUME TypeOK, ExportTypeOK, CallTyped, [ExportNext]_exportVars
  PROVE  ExportTypeOK' /\ CallTyped'
<1> USE RegisteredAssumption, JobAssumption
<1>1. ASSUME Forget PROVE stage' \in [Worker -> Stages]
  BY <1>1 DEF Forget, ExportTypeOK, Stages
<1>2. ASSUME NEW j \in Registered, InsertExport(j) PROVE ExportTypeOK' /\ CallTyped'
  BY <1>2 DEF InsertExport, ExportTypeOK, CallTyped, vars, worker
<1>3. ASSUME Apart,
             \A w \in Worker : pc'[w] = "running" =>
                 IF pc[w] = "running" THEN held'[w] = held[w] ELSE held'[w] \in Registered
      PROVE  ExportTypeOK' /\ CallTyped'
  <2>1. ExportTypeOK'
    BY <1>1, <1>3 DEF Apart, ExportTypeOK
  <2>2. \A w \in Worker : stage'[w] = IF pc'[w] = "running" THEN stage[w] ELSE "begin"
    BY <1>3 DEF Apart, Forget
  <2>3. ASSUME NEW w \in Worker, pc'[w] = "running" PROVE held'[w] \in Registered
    BY <1>3, <2>3 DEF CallTyped
  <2>4. CallTyped'
    BY <2>2, <2>3 DEF CallTyped
  <2>5. QED
    BY <2>1, <2>4
<1>4. ASSUME NEW j \in Job, EnqueueExport(j) PROVE ExportTypeOK' /\ CallTyped'
  BY <1>3, <1>4 DEF EnqueueExport, Enqueue, worker
<1>5. ASSUME NEW j \in Job, Passes(j), Apart PROVE ExportTypeOK' /\ CallTyped'
  BY <1>3, <1>5 DEF Passes, BackoffElapses, ClaimAges, HandlerOverruns, worker
<1>6. ASSUME NEW w \in Worker, Moves(w), Apart PROVE ExportTypeOK' /\ CallTyped'
  <2>1. \A v \in Worker : v # w => pc'[v] = pc[v] /\ held'[v] = held[v]
    BY <1>6 DEF Moves, Start, Stop, Tick, TickReclaimFails, ClaimErrors, AbandonExport, Abandon,
                DispatchExport, LockNext, CommitClaim, NothingToClaim, BeginHandler, FailReads,
                FailWrites, Release, TypeOK
  <2>2. pc'[w] = "running" => BeginHandler(w)
    BY <1>6 DEF Moves, Start, Stop, Tick, TickReclaimFails, ClaimErrors, AbandonExport, Abandon,
                DispatchExport, LockNext, CommitClaim, NothingToClaim, FailReads,
                FailWrites, Release, TypeOK
  <2>3. pc'[w] = "running" => held'[w] = held[w] /\ held[w] \in Registered /\ pc[w] # "running"
    BY <2>2 DEF BeginHandler, TypeOK
  <2>4. QED
    BY <1>3, <1>6, <2>1, <2>3
<1>7. ASSUME NEW w \in Worker, HandlerStep(w) \/ MarkProcessingErrors(w) \/ MarkFailedErrors(w)
      PROVE  ExportTypeOK' /\ CallTyped'
  <2>1. CASE MarkExportProcessing(w) \/ GenerateExport(w) \/ GenerateErrors(w)
    <3>1. UNCHANGED <<pc, held>> /\ pc[w] = "running" /\ held[w] \in Registered
      BY <2>1 DEF MarkExportProcessing, GenerateExport, GenerateErrors, In, vars, worker, CallTyped
    <3>2. \E s \in Stages : stage' = [stage EXCEPT ![w] = s]
      BY <2>1 DEF MarkExportProcessing, GenerateExport, GenerateErrors, GoesTo, Stages
    <3>3. CallTyped'
      BY <3>1, <3>2 DEF CallTyped, ExportTypeOK
    <3>4. ExportTypeOK'
      BY <2>1, <3>1, <3>2 DEF MarkExportProcessing, GenerateExport, GenerateErrors, ExportTypeOK
    <3>5. QED
      BY <3>3, <3>4
  <2>2. CASE Returns(w)
    BY <1>3, <2>2 DEF Returns, HandlerCommits, Release, TypeOK
  <2>3. CASE MarkExportFailed(w) \/ MarkProcessingErrors(w) \/ MarkFailedErrors(w)
    <3>1. Forget /\ held' = held /\ pc' = [pc EXCEPT ![w] = "failing"] /\ held[w] \in Registered
      BY <2>3 DEF MarkExportFailed, MarkProcessingErrors, MarkFailedErrors, HandlerFails, In, CallTyped
    <3>2. CallTyped'
      BY <3>1 DEF Forget, CallTyped, TypeOK, ExportTypeOK
    <3>3. ExportTypeOK'
      BY <1>1, <2>3, <3>1 DEF MarkExportFailed, MarkProcessingErrors, MarkFailedErrors, ExportTypeOK
    <3>4. QED
      BY <3>2, <3>3
  <2>4. QED
    BY <1>7, <2>1, <2>2, <2>3 DEF HandlerStep
<1>8. CASE UNCHANGED exportVars
  BY <1>8 DEF exportVars, vars, worker, ExportTypeOK, CallTyped
<1>9. QED
  BY <1>2, <1>4, <1>5, <1>6, <1>7, <1>8 DEF ExportNext

-----------------------------------------------------------------------------
\* The worker that holds a job nobody was robbed of is alone with it, and the
\* job is neither completed nor failed: what the permits of the queue say.
LEMMA Alone ==
  ASSUME TypeOK, PermitsBounded, CompletedCommitted,
         NEW j \in Job, NEW w \in Worker, held[w] = j, stolen[j] = 0
  PROVE  status[j] = "PROCESSING" /\ \A v \in Worker : held[v] = j => v = w
<1>1. /\ Cardinality(Holders(j)) \in Nat /\ IsFiniteSet(Holders(j)) /\ committed[j] \in Nat
      /\ committed[j] + Permits(j) <= 1
  BY HoldersFinite DEF PermitsBounded, TypeOK
<1>2. w \in Holders(j)
  BY DEF Holders
<1>3. Cardinality(Holders(j)) # 0
  BY <1>1, <1>2, FS_EmptySet
<1>4. Cardinality(Holders(j)) = 1 /\ ~Idle(j) /\ committed[j] = 0
  BY ONLY <1>1, <1>3 DEF Permits
<1>5. status[j] = "PROCESSING"
  BY <1>4 DEF Idle, CompletedCommitted, TypeOK, Statuses
<1>6. \A v \in Holders(j) : v = w
  BY <1>1, <1>2, <1>4, FS_Singleton
<1>7. QED
  BY <1>5, <1>6 DEF Holders

\* A theft is never forgotten.
LEMMA StolenGrows ==
  ASSUME TypeOK, [Next]_vars, NEW j \in Job, stolen'[j] = 0
  PROVE  stolen[j] = 0
<1>1. ASSUME NEW w \in Worker, Tick(w) PROVE stolen[j] = 0
  BY <1>1 DEF Tick, ReclaimStale, TypeOK
<1>2. QED
  BY <1>1 DEF Next, Dispatch, vars, row, history, Enqueue, BackoffElapses, ClaimAges, HandlerOverruns,
              Start, Stop, TickReclaimFails, ClaimErrors, Abandon, LockNext, CommitClaim,
              NothingToClaim, BeginHandler, HandlerCommits, HandlerFails, FailReads, FailWrites

-----------------------------------------------------------------------------
\* A step that settles nothing and brings no worker to a promise about j keeps
\* what is known of j.
LEMMA QuietStep ==
  ASSUME ExportTypeOK, NEW j \in Registered, Agrees(j), \A w \in Worker : Promised(j, w),
         Apart, status'[j] \in Settled => status'[j] = status[j],
         \A w \in Worker : held'[w] = j /\ pc'[w] = "running" =>
             (pc[w] = "running" /\ held[w] = j) \/ stage[w] = "begin",
         \A w \in Worker : held'[w] = j /\ pc'[w] \in {"failing", "recording"} =>
             pc[w] \in {"failing", "recording"} /\ held[w] = j
  PROVE  Agrees(j)' /\ \A w \in Worker : Promised(j, w)'
<1>1. export' = export /\ lost' = lost
  BY DEF Apart
<1>2. Agrees(j)'
  BY <1>1 DEF Agrees, Settled
<1>3. ASSUME NEW w \in Worker PROVE Promised(j, w)'
  <2>1. stage'[w] = IF pc'[w] = "running" THEN stage[w] ELSE "begin"
    BY DEF Apart, Forget
  <2>2. ASSUME held'[w] = j, In(w, "done")' PROVE export'[j] = "COMPLETED"
    BY <1>1, <2>1, <2>2 DEF In, Promised
  <2>3. ASSUME held'[w] = j, pc'[w] \in {"failing", "recording"}
        PROVE  export'[j] = "FAILED" \/ lost'[j]
    BY <1>1, <2>3 DEF Promised
  <2>4. QED
    BY <2>2, <2>3 DEF Promised
<1>4. QED
  BY <1>2, <1>3

\* A mark is written by the one worker that holds the job, while it is running.
LEMMA MarkStep ==
  ASSUME TypeOK, ExportTypeOK, NEW j \in Registered, NEW w \in Worker, held' = held,
         Agrees(j), \A v \in Worker : Promised(j, v),
         status' = status, \A v \in Worker : v # w => pc'[v] = pc[v] /\ stage'[v] = stage[v],
         held[w] # j => export'[j] = export[j] /\ lost'[j] = lost[j],
         held[w] = j => /\ status[j] = "PROCESSING"
                        /\ \A v \in Worker : held[v] = j => v = w
                        /\ Promised(j, w)'
  PROVE  Agrees(j)' /\ \A v \in Worker : Promised(j, v)'
<1>1. CASE held[w] = j
  <2>1. Agrees(j)'
    BY <1>1 DEF Agrees
  <2>2. ASSUME NEW v \in Worker, v # w PROVE Promised(j, v)'
    BY <1>1, <2>2 DEF Promised
  <2>3. QED
    BY <1>1, <2>1, <2>2
<1>2. CASE held[w] # j
  BY <1>2 DEF Agrees, Promised, In
<1>3. QED
  BY <1>1, <1>2

LEMMA FaithfulStep ==
  ASSUME QueueInv, ExportInv, TypeOK', [ExportNext]_exportVars
  PROVE  Faithful'
<1> SUFFICES ASSUME NEW j \in Registered, stolen'[j] = 0
             PROVE  Agrees(j)' /\ \A w \in Worker : Promised(j, w)'
  BY DEF Faithful
<1> USE RegisteredAssumption, JobAssumption
<1>i. /\ TypeOK /\ PermitsBounded /\ ClaimsExclusive
      /\ ExportTypeOK /\ CallTyped /\ CompletedCommitted /\ j \in Job /\ j # NoJob
  BY DEF QueueInv, ExportInv
<1>0. stolen[j] = 0 /\ Agrees(j) /\ \A w \in Worker : Promised(j, w)
  BY <1>i, StepImplements, StolenGrows DEF ExportInv, Faithful
<1>a. \A w \in Worker : held[w] = j =>
        status[j] = "PROCESSING" /\ \A v \in Worker : held[v] = j => v = w
  BY <1>i, <1>0, Alone
<1>b. ASSUME Apart, status'[j] \in Settled => status'[j] = status[j],
             \A w \in Worker : UNCHANGED <<pc[w], held[w]>> \/ held'[w] = NoJob
                              \/ pc'[w] \notin {"running", "failing", "recording"}
      PROVE  Agrees(j)' /\ \A w \in Worker : Promised(j, w)'
  BY <1>i, <1>0, <1>b, QuietStep
<1>1. ASSUME NEW k \in Registered, InsertExport(k)
      PROVE  Agrees(j)' /\ \A w \in Worker : Promised(j, w)'
  <2>1. /\ UNCHANGED <<status, pc, held, stage, lost>> /\ status[k] = "ABSENT"
        /\ export' = [export EXCEPT ![k] = "PENDING"]
    BY <1>1 DEF InsertExport, vars, row, worker
  <2>2. CASE k = j
    BY <1>a, <2>1, <2>2 DEF Agrees, Promised
  <2>3. CASE k # j
    <3>1. export'[j] = export[j]
      BY <2>1, <2>3, <1>i DEF ExportTypeOK
    <3>2. QED
      BY <1>0, <2>1, <3>1 DEF Agrees, Promised, In
  <2>4. QED
    BY <2>2, <2>3
<1>2. ASSUME NEW k \in Job, EnqueueExport(k)
      PROVE  Agrees(j)' /\ \A w \in Worker : Promised(j, w)'
  BY <1>b, <1>2, <1>i DEF EnqueueExport, Enqueue, worker, TypeOK, Settled
<1>3. ASSUME NEW k \in Job, Passes(k), Apart
      PROVE  Agrees(j)' /\ \A w \in Worker : Promised(j, w)'
  BY <1>b, <1>3 DEF Passes, BackoffElapses, ClaimAges, HandlerOverruns, worker
<1>4. ASSUME NEW w \in Worker, Moves(w), Apart
      PROVE  Agrees(j)' /\ \A v \in Worker : Promised(j, v)'
  <2>1. CASE Start(w) \/ TickReclaimFails(w) \/ NothingToClaim(w) \/ LockNext(w) \/ Stop(w)
             \/ AbandonExport(w)
    BY <1>b, <1>4, <1>i, <2>1 DEF Start, Stop, TickReclaimFails, NothingToClaim, LockNext,
                                  AbandonExport, Abandon, Release, row, TypeOK
  <2>2. CASE Tick(w)
    BY <1>b, <1>4, <1>i, <2>2 DEF Tick, ReclaimStale, TypeOK, Settled
  <2>3. CASE ClaimErrors(w) \/ CommitClaim(w)
    BY <1>b, <1>4, <1>i, <2>3 DEF ClaimErrors, CommitClaim, MarkClaimed, TypeOK, Settled
  <2>4. CASE BeginHandler(w)
    <3>1. stage[w] = "begin" /\ status' = status /\ held' = held
      BY <1>i, <2>4 DEF BeginHandler, CallTyped, row
    <3>2. pc' = [pc EXCEPT ![w] = IF held[w] \in Registered THEN "running" ELSE "failing"]
      BY <2>4 DEF BeginHandler
    <3>3. \A v \in Worker : v # w => pc'[v] = pc[v]
      BY <3>2, <1>i DEF TypeOK
    <3>4. held[w] = j => pc'[w] = "running"
      BY <3>2, <1>i DEF TypeOK
    <3>5. QED
      BY <1>i, <1>0, <1>4, <3>1, <3>3, <3>4, QuietStep
  <2>5. CASE FailReads(w)
    <3>1. status' = status /\ held' = held /\ pc[w] = "failing" /\ pc' = [pc EXCEPT ![w] = "recording"]
      BY <2>5 DEF FailReads, row
    <3>2. pc'[w] = "recording" /\ \A v \in Worker : v # w => pc'[v] = pc[v]
      BY <3>1, <1>i DEF TypeOK
    <3>3. QED
      BY <1>i, <1>0, <1>4, <3>1, <3>2, QuietStep
  <2>6. CASE FailWrites(w)
    <3>1. /\ pc[w] = "recording" /\ held' = [held EXCEPT ![w] = NoJob]
          /\ pc' = [pc EXCEPT ![w] = "drain"]
          /\ \/ status' = [status EXCEPT ![held[w]] = "PENDING"]
             \/ status' = [status EXCEPT ![held[w]] = "FAILED"]
      BY <2>6 DEF FailWrites, Release
    <3>2. CASE held[w] = j
      <4>1. export[j] = "FAILED" \/ lost[j]
        BY <1>0, <3>1, <3>2 DEF Promised
      <4>2. status'[j] \in {"PENDING", "FAILED"} /\ export' = export /\ lost' = lost
        BY <1>4, <1>i, <3>1, <3>2 DEF Apart, TypeOK
      <4>3. Agrees(j)'
        BY <4>1, <4>2 DEF Agrees
      <4>4. \A v \in Worker : held'[v] # j
        BY <1>a, <1>i, <3>1, <3>2 DEF TypeOK
      <4>5. QED
        BY <4>3, <4>4 DEF Promised
    <3>3. CASE held[w] # j
      <4>1. status'[j] = status[j]
        BY <1>i, <3>1, <3>3 DEF TypeOK
      <4>2. QED
        BY <1>b, <1>4, <1>i, <3>1, <4>1 DEF TypeOK
    <3>4. QED
      BY <3>2, <3>3
  <2>7. QED
    BY <1>4, <2>1, <2>2, <2>3, <2>4, <2>5, <2>6 DEF Moves, DispatchExport
<1>5. ASSUME NEW w \in Worker, Returns(w)
      PROVE  Agrees(j)' /\ \A v \in Worker : Promised(j, v)'
  <2>1. /\ In(w, "done") /\ Apart /\ held' = [held EXCEPT ![w] = NoJob]
        /\ pc' = [pc EXCEPT ![w] = "drain"] /\ status' = [status EXCEPT ![held[w]] = "COMPLETED"]
    BY <1>5 DEF Returns, HandlerCommits, Release
  <2>2. CASE held[w] = j
    <3>1. export[j] = "COMPLETED" /\ export' = export
      BY <1>0, <2>1, <2>2 DEF Promised, Apart
    <3>2. status'[j] = "COMPLETED"
      BY <1>i, <2>1, <2>2 DEF TypeOK
    <3>3. \A v \in Worker : held'[v] # j
      BY <1>a, <1>i, <2>1, <2>2 DEF TypeOK
    <3>4. QED
      BY <3>1, <3>2, <3>3 DEF Agrees, Promised
  <2>3. CASE held[w] # j
    <3>1. status'[j] = status[j]
      BY <1>i, <2>1, <2>3 DEF TypeOK
    <3>2. QED
      BY <1>b, <1>i, <2>1, <3>1 DEF TypeOK
  <2>4. QED
    BY <2>2, <2>3
<1>6. ASSUME NEW w \in Worker,
             \/ MarkExportProcessing(w) \/ GenerateExport(w) \/ GenerateErrors(w)
             \/ MarkExportFailed(w) \/ MarkProcessingErrors(w) \/ MarkFailedErrors(w)
      PROVE  Agrees(j)' /\ \A v \in Worker : Promised(j, v)'
  <2>1. /\ held[w] \in Registered /\ pc[w] = "running" /\ held' = held /\ status' = status
    BY <1>6, <1>i DEF MarkExportProcessing, GenerateExport, GenerateErrors, MarkExportFailed, In,
          MarkProcessingErrors, MarkFailedErrors, HandlerFails, CallTyped, vars, worker, row
  <2>2. \A v \in Worker : v # w => pc'[v] = pc[v] /\ stage'[v] = stage[v]
    <3>1. CASE MarkExportProcessing(w) \/ GenerateExport(w) \/ GenerateErrors(w)
      BY <3>1, <1>i DEF MarkExportProcessing, GenerateExport, GenerateErrors, GoesTo, vars, worker, ExportTypeOK
    <3>2. CASE MarkExportFailed(w) \/ MarkProcessingErrors(w) \/ MarkFailedErrors(w)
      <4>1. Forget /\ pc' = [pc EXCEPT ![w] = "failing"]
        BY <3>2 DEF MarkExportFailed, MarkProcessingErrors, MarkFailedErrors, HandlerFails
      <4>2. \A v \in Worker : v # w => pc'[v] = pc[v]
        BY <4>1, <1>i DEF TypeOK
      <4>3. QED
        BY <4>1, <4>2, <1>i DEF Forget, CallTyped
    <3>3. QED
      BY <1>6, <3>1, <3>2
  <2>3. held[w] # j => export'[j] = export[j] /\ lost'[j] = lost[j]
    BY <1>6, <1>i, <2>1 DEF MarkExportProcessing, GenerateExport, GenerateErrors, MarkExportFailed,
          MarkProcessingErrors, MarkFailedErrors, ExportTypeOK
  <2>4. ASSUME held[w] = j PROVE Promised(j, w)'
    <3>1. CASE MarkExportProcessing(w) \/ GenerateErrors(w)
      BY <3>1, <2>1, <1>i DEF MarkExportProcessing, GenerateErrors, GoesTo, vars, worker, ExportTypeOK,
            Promised, In
    <3>2. CASE GenerateExport(w)
      BY <3>2, <2>1, <2>4, <1>i DEF GenerateExport, vars, worker, ExportTypeOK, Promised, In
    <3>3. CASE MarkExportFailed(w)
      BY <3>3, <2>1, <2>4, <1>i DEF MarkExportFailed, HandlerFails, ExportTypeOK, TypeOK, Promised, In
    <3>4. CASE MarkProcessingErrors(w) \/ MarkFailedErrors(w)
      BY <3>4, <2>1, <2>4, <1>i DEF MarkProcessingErrors, MarkFailedErrors, HandlerFails, ExportTypeOK,
            TypeOK, Promised, In
    <3>5. QED
      BY <1>6, <3>1, <3>2, <3>3, <3>4
  <2>5. QED
    BY <1>i, <1>0, <1>a, <2>1, <2>2, <2>3, <2>4, MarkStep
<1>7. CASE UNCHANGED exportVars
  BY <1>0, <1>7 DEF exportVars, vars, row, worker, Agrees, Promised, In
<1>8. QED
  BY <1>1, <1>2, <1>3, <1>4, <1>5, <1>6, <1>7 DEF ExportNext, HandlerStep

-----------------------------------------------------------------------------
\* The job's status and its export's agree, for any number of export and other
\* jobs and any finite set of workers, under crashes, errors, retries and lost
\* marks: by the bound on permits the mark that counts is the last one written.
THEOREM ExportAgreesHolds == ExportSpec => []ExportAgrees
<1>1. ExportSpec => []QueueInv
  BY ExportsImplementQueue, TypeCorrect, ClaimsExclusiveHolds, PermitsHold, PTL DEF QueueInv
<1>2. ExportInit => ExportInv
  <2> SUFFICES ASSUME ExportInit PROVE ExportInv
    OBVIOUS
  <2>1. ExportTypeOK /\ CallTyped /\ CompletedCommitted
    BY DEF ExportInit, Init, ExportTypeOK, CallTyped, CompletedCommitted, Stages
  <2>2. ASSUME NEW j \in Registered PROVE Agrees(j) /\ \A w \in Worker : Promised(j, w)
    BY RegisteredAssumption DEF ExportInit, Init, Agrees, Promised, In
  <2>3. QED
    BY <2>1, <2>2 DEF ExportInv, Faithful
<1>3. QueueInv /\ QueueInv' /\ ExportInv /\ [ExportNext]_exportVars => ExportInv'
  BY FaithfulStep, ExportTyped, CompletedStep, StepImplements DEF ExportInv, QueueInv
<1>4. ExportInv => ExportAgrees
  BY DEF ExportInv, Faithful, Agrees, ExportAgrees
<1>5. QED
  BY <1>1, <1>2, <1>3, <1>4, PTL DEF ExportSpec

-----------------------------------------------------------------------------
(***************************************************************************)
(* Imports.                                                                *)
(***************************************************************************)
\* What a step of an import is to the queue: one of its own, or a fault that
\* strikes elsewhere.
RunsQueue == [Next]_vars \/ (Fault /\ UNCHANGED <<row, worker, history>>)

LEMMA ImportRuns == ASSUME [ImportNext]_importVars PROVE RunsQueue
<1>1. ASSUME NEW a \in Request,
             \/ UploadCreates(a) \/ TriggerChecks(a) \/ TriggerMarks(a)
             \/ (\E r \in Row : RelinkChecks(a, r)) \/ RelinkWrites(a)
      PROVE  UNCHANGED vars
  BY <1>1 DEF UploadCreates, TriggerChecks, TriggerMarks, RelinkChecks, RelinkWrites
<1>2. ASSUME NEW a \in Request, UploadEnqueues(a) \/ TriggerEnqueues(a) PROVE Next
  BY <1>2 DEF UploadEnqueues, TriggerEnqueues, EnqueueAs, Next
<1>3. ASSUME NEW a \in Request, RequestDies(a) PROVE Fault /\ UNCHANGED <<row, worker, history>>
  BY <1>3 DEF RequestDies
<1>4. ASSUME NEW r \in Row, EntityAppears(r) PROVE UNCHANGED vars
  BY <1>4 DEF EntityAppears
<1>5. ASSUME NEW w \in Worker, BatchHandlerStep(w) PROVE [Next]_vars
  BY <1>5 DEF BatchHandlerStep, ValidateWritesRows, ValidateRejects, CommitReads, CommitMarks,
              CommitLists, RowResolves, RowMarks, CommitFinishes, Dispatch, Next
<1>6. ASSUME NEW w \in Worker, MarkErrors(w) PROVE Fault /\ UNCHANGED <<row, worker, history>>
  BY <1>6 DEF MarkErrors
<1>7. ASSUME NEW w \in Worker, HandlerErrors(w) \/ WorkerStops(w) \/ DispatchAbandons(w)
      PROVE  Next
  <2>1. HandlerFails(w) \/ Stop(w) \/ Abandon(w)
    BY <1>7 DEF HandlerErrors, WorkerStops, DispatchAbandons
  <2> QED
    BY <2>1, Zenon DEF Dispatch, Next
<1>8. CASE QueueStep
  <2>1. ASSUME NEW j \in Job, BackoffElapses(j) \/ ClaimAges(j) \/ HandlerOverruns(j) PROVE Next
    BY <2>1, Zenon DEF Next
  <2>2. ASSUME NEW w \in Worker, \/ Start(w) \/ Tick(w) \/ TickReclaimFails(w) \/ LockNext(w)
                                 \/ CommitClaim(w) \/ NothingToClaim(w) \/ ClaimErrors(w)
                                 \/ BeginHandler(w) \/ FailReads(w) \/ FailWrites(w)
        PROVE  Next
    BY <2>2, Zenon DEF Dispatch, Next
  <2> QED
    BY <1>8, <2>1, <2>2, Zenon DEF QueueStep, RunsQueue
<1>9. CASE UNCHANGED importVars
  BY <1>9 DEF importVars, RunsQueue
<1> QED
  BY <1>1, <1>2, <1>3, <1>4, <1>5, <1>6, <1>7, <1>8, <1>9 DEF ImportNext, RunsQueue

\* Every behaviour of an import is one of the job queue, but for the faults
\* that strike a request or a mark: the queue does not see those.
THEOREM ImportsRunQueue == ImportSpec => Init /\ [][Next]_<<row, worker, history>>
<1>1. ImportInit => Init
  BY DEF ImportInit
<1>2. [ImportNext]_importVars => [Next]_<<row, worker, history>>
  BY ImportRuns DEF RunsQueue, vars
<1> QED
  BY <1>1, <1>2, PTL DEF ImportSpec

\* What the queue guarantees to those who run on it.
JobsKept == QueueInv /\ CompletedCommitted

LEMMA JobsStep ==
  ASSUME JobsKept, RunsQueue
  PROVE  /\ JobsKept'
         /\ \A j \in Job : stolen'[j] = 0 => stolen[j] = 0
         /\ \A j \in Job : committed'[j] >= committed[j]
<1>1. CASE [Next]_vars
  <2>1. JobsKept'
    BY <1>1, TypeStep, LockStep, PermitStep, CompletedStep DEF JobsKept, QueueInv
  <2>2. \A j \in Job : stolen'[j] = 0 => stolen[j] = 0
    BY <1>1, StolenGrows DEF JobsKept, QueueInv
  <2>3. committed \in [Job -> Nat]
    BY DEF JobsKept, QueueInv, TypeOK
  <2>4. ASSUME NEW w \in Worker, HandlerCommits(w)
        PROVE  \A j \in Job : committed'[j] >= committed[j]
    <3>1. \A n \in Nat : n + 1 >= n /\ n >= n
      OBVIOUS
    <3> QED
      BY <2>3, <2>4, <3>1 DEF HandlerCommits
  <2>5. UNCHANGED committed \/ \E w \in Worker : HandlerCommits(w)
    BY <1>1 DEF Next, Dispatch, vars, row, history, Enqueue, BackoffElapses, ClaimAges,
                HandlerOverruns, Start, Stop, Tick, ReclaimStale, TickReclaimFails, ClaimErrors,
                Abandon, LockNext, CommitClaim, NothingToClaim, BeginHandler, HandlerFails,
                FailReads, FailWrites
  <2> QED
    BY <2>1, <2>2, <2>3, <2>4, <2>5
<1>2. CASE Fault /\ UNCHANGED <<row, worker, history>>
  <2> USE DEF JobsKept, QueueInv, row, worker, history
  <2>1. faults' \in 0 .. MaxFaults
    BY <1>2, BoundAssumption DEF Fault, TypeOK
  <2>2. TypeOK'
    BY <1>2, <2>1 DEF TypeOK
  <2>3. ClaimsExclusive' /\ CompletedCommitted'
    BY <1>2 DEF ClaimsExclusive, CompletedCommitted
  <2>4. \A j : Permits(j)' = Permits(j)
    BY <1>2 DEF Permits, Idle, Holders
  <2>5. PermitsBounded'
    BY <1>2, <2>4 DEF PermitsBounded
  <2> QED
    BY <1>2, <2>2, <2>3, <2>5 DEF TypeOK
<1> QED
  BY <1>1, <1>2 DEF RunsQueue

-----------------------------------------------------------------------------
(***************************************************************************)
(* What the steps of the queue leave alone.                                *)
(***************************************************************************)
\* A step of the queue that is no business of the handlers neither starts nor
\* ends a run, except BeginHandler.
LEMMA QueueStepRuns ==
  ASSUME TypeOK, QueueStep, NEW v \in Worker
  PROVE  /\ pc[v] = "running" => pc'[v] = "running" /\ held'[v] = held[v]
         /\ pc'[v] = "running" => pc[v] \in {"claimed", "running"} /\ held'[v] = held[v]
<1> DEFINE Goal == /\ pc[v] = "running" => pc'[v] = "running" /\ held'[v] = held[v]
                   /\ pc'[v] = "running" => pc[v] \in {"claimed", "running"} /\ held'[v] = held[v]
<1> USE DEF TypeOK
<1>1. ASSUME NEW j \in Job, BackoffElapses(j) \/ ClaimAges(j) \/ HandlerOverruns(j) PROVE Goal
  BY <1>1 DEF BackoffElapses, ClaimAges, HandlerOverruns, worker
<1>2. ASSUME NEW w \in Worker,
             \/ Start(w) \/ Tick(w) \/ TickReclaimFails(w) \/ LockNext(w) \/ CommitClaim(w)
             \/ NothingToClaim(w) \/ ClaimErrors(w) \/ BeginHandler(w) \/ FailReads(w) \/ FailWrites(w)
      PROVE  Goal
  <2>1. v # w => pc'[v] = pc[v] /\ held'[v] = held[v]
    BY <1>2 DEF Start, Tick, TickReclaimFails, LockNext, CommitClaim, NothingToClaim, ClaimErrors,
                BeginHandler, FailReads, FailWrites, Release
  <2>2. pc[w] # "running"
    BY <1>2 DEF Start, Tick, TickReclaimFails, LockNext, CommitClaim, NothingToClaim, ClaimErrors,
                BeginHandler, FailReads, FailWrites
  <2>3. pc'[w] = "running" => pc[w] = "claimed" /\ held'[w] = held[w]
    BY <1>2 DEF Start, Tick, TickReclaimFails, LockNext, CommitClaim, NothingToClaim, ClaimErrors,
                BeginHandler, FailReads, FailWrites, Release
  <2> QED
    BY <2>1, <2>2, <2>3
<1> QED
  BY <1>1, <1>2 DEF QueueStep

LEMMA QueueStepJobs ==
  ASSUME TypeOK, ClaimsExclusive, QueueStep, NEW j \in Job, status'[j] = "ABSENT"
  PROVE  status[j] = "ABSENT"
<1> USE DEF TypeOK
<1>1. ASSUME NEW i \in Job, BackoffElapses(i) \/ ClaimAges(i) \/ HandlerOverruns(i)
      PROVE  UNCHANGED status
  BY <1>1 DEF BackoffElapses, ClaimAges, HandlerOverruns
<1>2. ASSUME NEW w \in Worker,
             \/ Start(w) \/ TickReclaimFails(w) \/ LockNext(w) \/ NothingToClaim(w)
             \/ BeginHandler(w) \/ FailReads(w)
      PROVE  UNCHANGED status
  BY <1>2 DEF Start, TickReclaimFails, LockNext, NothingToClaim, BeginHandler, FailReads, row
<1>3. ASSUME NEW w \in Worker, Tick(w) PROVE status[j] = "ABSENT"
  BY <1>3 DEF Tick, ReclaimStale
<1>4. ASSUME NEW w \in Worker, CommitClaim(w) \/ ClaimErrors(w) \/ FailWrites(w)
      PROVE  status[j] = "ABSENT"
  BY <1>4 DEF CommitClaim, ClaimErrors, MarkClaimed, FailWrites
<1> QED
  BY <1>1, <1>2, <1>3, <1>4 DEF QueueStep

\* The end of a run, whatever ends it.
LEMMA RunEnds ==
  ASSUME TypeOK, NEW w \in Worker, HandlerErrors(w) \/ WorkerStops(w) \/ DispatchAbandons(w)
  PROVE  /\ Interrupted(w)
         /\ pc'[w] \notin {"claimed", "running"} /\ held'[w] \in {held[w], NoJob}
         /\ \A v \in Worker \ {w} : pc'[v] = pc[v] /\ held'[v] = held[v]
         /\ UNCHANGED <<status, attempts, history>>
  BY DEF HandlerErrors, WorkerStops, DispatchAbandons, HandlerFails, Stop, Abandon, Release,
         TypeOK, row

LEMMA RunCommits ==
  ASSUME TypeOK, NEW w \in Worker, HandlerCommits(w)
  PROVE  /\ pc[w] = "running" /\ held[w] \in Job
         /\ pc'[w] = "drain" /\ held'[w] = NoJob
         /\ \A v \in Worker \ {w} : pc'[v] = pc[v] /\ held'[v] = held[v]
         /\ \A j \in Job \ {held[w]} : status'[j] = status[j]
         /\ status'[held[w]] = "COMPLETED" /\ committed'[held[w]] >= 1
         /\ UNCHANGED <<attempts, stolen>>
<1>1. pc[w] = "running" /\ held[w] \in Job
  BY DEF HandlerCommits, TypeOK, Busy
<1>2. committed'[held[w]] = committed[held[w]] + 1 /\ committed[held[w]] \in Nat
  BY <1>1 DEF HandlerCommits, TypeOK
<1>3. committed'[held[w]] >= 1
  BY <1>2
<1> QED
  BY <1>1, <1>3 DEF HandlerCommits, Release, TypeOK

-----------------------------------------------------------------------------
(***************************************************************************)
(* Type correctness.                                                       *)
(***************************************************************************)
\* The row whose turn it is is one of those still to be processed.
LEMMA CurrentListed ==
  ASSUME NEW w \in Worker, todo[w] \subseteq Row, todo[w] # {}
  PROVE  Current(w) \in todo[w]
<1> DEFINE Below(r) == {q \in todo[w] : q < r}
           T == {Below(r) : r \in todo[w]}
<1>1. todo[w] \subseteq Nat /\ IsFiniteSet(todo[w])
  BY RowAssumption, FS_Subset
<1>2. T \subseteq FiniteSubsetsOf(todo[w])
  <2>1. T \subseteq SUBSET todo[w]
    OBVIOUS
  <2> QED
    BY <1>1, <2>1, FS_FiniteSubsetsOfFinite, Zenon DEF T
<1>3. T # {}
  <2>1. PICK r \in todo[w] : TRUE
    OBVIOUS
  <2>2. Below(r) \in T
    BY <2>1, Zenon DEF T
  <2> QED
    BY <2>2, Zenon
<1> HIDE DEF T
<1>4. PICK m \in T : \A u \in T : <<u, m>> \notin StrictSubsetOrdering(todo[w])
  BY <1>2, <1>3, FS_StrictSubsetOrderingWellFounded, WFMin
<1>5. PICK r \in todo[w] : m = Below(r)
  BY <1>4 DEF T
<1>6. ASSUME NEW q \in todo[w], ~(r <= q) PROVE FALSE
  <2>1. q \in Nat /\ r \in Nat /\ q < r
    BY <1>1, <1>5, <1>6
  <2>2. Below(q) \subseteq Below(r) /\ Below(q) # Below(r) /\ Below(r) \subseteq todo[w]
    <3>1. \A x \in todo[w] : x \in Nat
      BY <1>1
    <3>2. q \in Below(r) /\ q \notin Below(q)
      BY <2>1
    <3>3. Below(q) \subseteq Below(r)
      BY <2>1, <3>1
    <3> QED
      BY <3>2, <3>3
  <2>3. <<Below(q), Below(r)>> \in StrictSubsetOrdering(todo[w])
    BY <2>2 DEF StrictSubsetOrdering
  <2> QED
    BY <2>3, <1>4, <1>5 DEF T
<1> QED
  BY <1>6, Zenon DEF Current

\* A call that is over is forgotten, one before its rows has none, and what a call has
\* counted and what it has still to do together are no more than the rows there are.
HandlersTyped ==
    /\ \A w \in Worker : pc[w] # "running" => step[w] = "begin"
    /\ \A w \in Worker : step[w] \in {"begin", "mark", "list"} => todo[w] = {} /\ done[w] = 0
    /\ \A w \in Worker : step[w] # "begin" => kind[held[w]] = "commit"
    /\ \A w \in Worker : step[w] \in {"unmatched", "failed", "applied"} => todo[w] # {}
    /\ \A w \in Worker : done[w] + Cardinality(todo[w]) <= Cardinality(Row)

JobsTyped ==
    /\ IsFiniteSet(CommitJobs)
    /\ \A j \in Job : status[j] = "ABSENT" => kind[j] = "none"
    /\ \A a \in Request : req[a] = "relinking" => reqRow[a] \in Row

TablesTyped ==
    /\ batch \in BatchStatuses
    /\ rowStatus \in [Row -> RowStatuses]
    /\ counted \in 0 .. Cardinality(Row)
    /\ known \subseteq Row
    /\ applied \in [Row -> Nat]
    /\ cut \in [Row -> Nat]
    /\ relinked \subseteq Row

RequestsTyped ==
    /\ kind \in [Job -> {"none", "validate", "commit"}]
    /\ req \in [Request -> RequestSteps]
    /\ reqRow \in [Request -> Row \cup {NoRow}]

CallsTyped ==
    /\ step \in [Worker -> HandlerSteps]
    /\ todo \in [Worker -> SUBSET Row]
    /\ done \in [Worker -> 0 .. Cardinality(Row)]

LEMMA TypesSplit == ImportTypeOK <=> TablesTyped /\ RequestsTyped /\ CallsTyped
  BY DEF ImportTypeOK, TablesTyped, RequestsTyped, CallsTyped

LEMMA RowsFinite ==
  /\ Cardinality(Row) \in Nat
  /\ \A s \in SUBSET Row : IsFiniteSet(s) /\ Cardinality(s) \in Nat
                           /\ Cardinality(s) <= Cardinality(Row)
  BY RowAssumption, FS_CardinalityType, FS_Subset

\* Every step of a call is its worker's and leaves the other calls alone.
LEMMA CallStep ==
  ASSUME TypeOK, ImportTypeOK, HandlersTyped, NEW w \in Worker,
         \A v \in Worker \ {w} : /\ pc'[v] = pc[v] /\ held'[v] = held[v]
                                 /\ step'[v] = step[v] /\ todo'[v] = todo[v] /\ done'[v] = done[v],
         UNCHANGED kind,
         step' \in [Worker -> HandlerSteps], todo' \in [Worker -> SUBSET Row],
         done' \in [Worker -> Nat],
         pc'[w] # "running" => step'[w] = "begin",
         step'[w] \in {"begin", "mark", "list"} => todo'[w] = {} /\ done'[w] = 0,
         step'[w] # "begin" => kind[held'[w]] = "commit",
         step'[w] \in {"unmatched", "failed", "applied"} => todo'[w] # {},
         done'[w] + Cardinality(todo'[w]) <= Cardinality(Row)
  PROVE  CallsTyped' /\ HandlersTyped'
<1>1. HandlersTyped'
  BY DEF HandlersTyped
<1>2. ASSUME NEW v \in Worker PROVE done'[v] \in 0 .. Cardinality(Row)
  <2>1. done'[v] \in Nat /\ Cardinality(todo'[v]) \in Nat /\ Cardinality(Row) \in Nat
    BY RowsFinite
  <2>2. done'[v] + Cardinality(todo'[v]) <= Cardinality(Row)
    BY <1>1 DEF HandlersTyped
  <2> QED
    BY ONLY <2>1, <2>2
<1> QED
  BY <1>1, <1>2 DEF CallsTyped

LEMMA LeaveTyped ==
  ASSUME TypeOK, ImportTypeOK, HandlersTyped, NEW w \in Worker, Leave(w),
         \A v \in Worker \ {w} : pc'[v] = pc[v] /\ held'[v] = held[v],
         UNCHANGED kind
  PROVE  CallsTyped' /\ HandlersTyped'
<1>1. /\ step'[w] = "begin" /\ todo'[w] = {} /\ done'[w] = 0
      /\ \A v \in Worker \ {w} : step'[v] = step[v] /\ todo'[v] = todo[v] /\ done'[v] = done[v]
      /\ step' \in [Worker -> HandlerSteps] /\ todo' \in [Worker -> SUBSET Row]
      /\ done' \in [Worker -> Nat]
  BY RowsFinite DEF Leave, ImportTypeOK, HandlerSteps
<1>2. 0 + Cardinality({}) <= Cardinality(Row)
  BY FS_EmptySet, RowsFinite
<1> QED
  BY <1>1, <1>2, CallStep

LEMMA CallsStep ==
  ASSUME TypeOK, JobsTyped, ImportTypeOK, HandlersTyped, [ImportNext]_importVars
  PROVE  CallsTyped' /\ HandlersTyped'
<1> DEFINE Goal == CallsTyped' /\ HandlersTyped'
<1>t. /\ kind \in [Job -> {"none", "validate", "commit"}]
      /\ step \in [Worker -> HandlerSteps] /\ todo \in [Worker -> SUBSET Row]
      /\ done \in [Worker -> Nat]
  BY RowsFinite DEF ImportTypeOK
<1>1. ASSUME UNCHANGED <<pc, held, kind, handler>> PROVE Goal
  BY <1>1 DEF handler, ImportTypeOK, CallsTyped, HandlersTyped
<1>2. ASSUME NEW a \in Request, UploadEnqueues(a) \/ TriggerEnqueues(a) PROVE Goal
  <2>1. PICK j \in Job, t \in {"validate", "commit"} :
            Enqueue(j) /\ kind' = [kind EXCEPT ![j] = t] /\ UNCHANGED handler
    BY <1>2 DEF UploadEnqueues, TriggerEnqueues, EnqueueAs
  <2>2. UNCHANGED <<pc, held>> /\ status[j] = "ABSENT"
    BY <2>1 DEF Enqueue, worker
  <2>3. kind[j] = "none"
    BY <2>2 DEF JobsTyped
  <2>4. ASSUME NEW w \in Worker, step[w] # "begin" PROVE kind'[held[w]] = "commit"
    <3>1. held[w] \in Job /\ kind[held[w]] = "commit"
      BY <2>4 DEF HandlersTyped, TypeOK, Busy
    <3> QED
      BY <2>1, <2>3, <3>1, <1>t
  <2>5. HandlersTyped'
    BY <2>1, <2>2, <2>4 DEF handler, HandlersTyped
  <2> QED
    BY <2>1, <2>5 DEF handler, ImportTypeOK, CallsTyped
<1>3. ASSUME NEW w \in Worker, ValidateWritesRows(w) \/ ValidateRejects(w) PROVE Goal
  <2>1. /\ HandlerCommits(w) /\ kind[held[w]] = "validate"
        /\ UNCHANGED <<kind, handler>>
    BY <1>3 DEF ValidateWritesRows, ValidateRejects, Runs
  <2>2. step[w] = "begin"
    BY <2>1 DEF HandlersTyped
  <2> QED
    BY <2>1, <2>2, <1>t, RunCommits, CallStep DEF handler, HandlersTyped
<1>4. ASSUME NEW w \in Worker, CommitReads(w) \/ CommitMarks(w) PROVE Goal
  <2>1. PICK s \in {"mark", "list"} : step' = [step EXCEPT ![w] = s]
    BY <1>4 DEF CommitReads, CommitMarks, Goes
  <2>2. /\ Runs(w, "commit") /\ step[w] \in {"begin", "mark"}
        /\ UNCHANGED <<pc, held, kind, todo, done>>
    BY <1>4 DEF CommitReads, CommitMarks, table, vars, worker
  <2>3. step' \in [Worker -> HandlerSteps]
    BY <2>1, <1>t DEF HandlerSteps
  <2> QED
    BY <2>1, <2>2, <2>3, <1>t, CallStep DEF Runs, HandlersTyped
<1>5. ASSUME NEW w \in Worker, CommitLists(w) PROVE Goal
  <2>1. /\ Runs(w, "commit") /\ step[w] = "list"
        /\ todo' = [todo EXCEPT ![w] = {r \in Row : ToCommit(r)}]
        /\ step' = [step EXCEPT ![w] = "rows"]
        /\ UNCHANGED <<pc, held, kind, done>>
    BY <1>5 DEF CommitLists, Goes, table, vars, worker
  <2>2. /\ step' \in [Worker -> HandlerSteps] /\ todo' \in [Worker -> SUBSET Row]
        /\ todo'[w] \in SUBSET Row
    BY <2>1, <1>t DEF HandlerSteps
  <2>3. done[w] = 0
    BY <2>1 DEF HandlersTyped
  <2>4. 0 + Cardinality(todo'[w]) <= Cardinality(Row)
    BY <2>2, RowsFinite
  <2> QED
    BY <2>1, <2>2, <2>3, <2>4, <1>t, CallStep DEF Runs, HandlersTyped
<1>6. ASSUME NEW w \in Worker, RowResolves(w) \/ MarkErrors(w) PROVE Goal
  <2>1. PICK s \in {"unmatched", "failed", "applied"} : step' = [step EXCEPT ![w] = s]
    BY <1>6 DEF RowResolves, MarkErrors, Goes
  <2>2. /\ Runs(w, "commit") /\ UNCHANGED <<pc, held, kind, todo, done>>
        /\ todo[w] # {}
    BY <1>6 DEF RowResolves, MarkErrors, table, vars, worker, HandlersTyped
  <2>3. step' \in [Worker -> HandlerSteps]
    BY <2>1, <1>t DEF HandlerSteps
  <2> QED
    BY <2>1, <2>2, <2>3, <1>t, CallStep DEF Runs, HandlersTyped
<1>7. ASSUME NEW w \in Worker, RowMarks(w) PROVE Goal
  <2>1. /\ Runs(w, "commit") /\ step[w] \in {"unmatched", "failed", "applied"}
        /\ done' = [done EXCEPT ![w] = IF Counts(step[w]) THEN done[w] + 1 ELSE done[w]]
        /\ todo' = [todo EXCEPT ![w] = todo[w] \ {Current(w)}]
        /\ step' = [step EXCEPT ![w] = "rows"]
        /\ UNCHANGED <<pc, held, kind>>
    BY <1>7 DEF RowMarks, Rest, Goes, vars, worker
  <2>2. todo[w] \in SUBSET Row /\ todo[w] # {} /\ done[w] \in Nat
    BY <2>1, <1>t DEF HandlersTyped
  <2>3. Current(w) \in todo[w]
    BY <2>2, CurrentListed
  <2>4. Cardinality(todo[w] \ {Current(w)}) = Cardinality(todo[w]) - 1 /\ Cardinality(todo[w]) \in Nat
    BY <2>2, <2>3, RowsFinite, FS_RemoveElement
  <2>5. done'[w] \in {done[w], done[w] + 1} /\ todo'[w] = todo[w] \ {Current(w)} /\ step'[w] = "rows"
    BY <2>1, <1>t
  <2>6. done[w] + Cardinality(todo[w]) <= Cardinality(Row)
    BY DEF HandlersTyped
  <2>7. done'[w] + Cardinality(todo'[w]) <= Cardinality(Row)
    <3>1. Cardinality(todo'[w]) = Cardinality(todo[w]) - 1
      BY <2>4, <2>5
    <3>2. Cardinality(Row) \in Nat
      BY RowsFinite
    <3> QED
      BY ONLY <2>2, <2>4, <2>5, <2>6, <3>1, <3>2
  <2>8. step' \in [Worker -> HandlerSteps] /\ todo' \in [Worker -> SUBSET Row]
    BY <2>1, <2>2, <1>t DEF HandlerSteps
  <2>9. done' \in [Worker -> Nat]
    <3>1. (IF Counts(step[w]) THEN done[w] + 1 ELSE done[w]) \in Nat
      BY <2>2
    <3> QED
      BY <2>1, <3>1, <1>t
  <2>10. \A v \in Worker \ {w} : step'[v] = step[v] /\ todo'[v] = todo[v] /\ done'[v] = done[v]
    BY <2>1, <1>t
  <2> QED
    BY <2>1, <2>5, <2>7, <2>8, <2>9, <2>10, CallStep DEF Runs
<1>8. ASSUME NEW w \in Worker, CommitFinishes(w) PROVE Goal
  BY <1>8, RunCommits, LeaveTyped DEF CommitFinishes
<1>9. ASSUME NEW w \in Worker, HandlerErrors(w) \/ WorkerStops(w) \/ DispatchAbandons(w)
      PROVE  Goal
  BY <1>9, RunEnds, LeaveTyped DEF Interrupted, table
<1>10. ASSUME QueueStep PROVE Goal
  <2>1. UNCHANGED <<kind, handler>>
    BY <1>10 DEF QueueStep, table
  <2>2. \A v \in Worker : pc'[v] # "running" => step[v] = "begin"
    BY <1>10, QueueStepRuns DEF HandlersTyped
  <2>3. \A v \in Worker : step[v] # "begin" => held'[v] = held[v]
    BY <1>10, QueueStepRuns DEF HandlersTyped
  <2>4. HandlersTyped'
    BY <2>1, <2>2, <2>3 DEF HandlersTyped, handler
  <2> QED
    BY <2>1, <2>4 DEF CallsTyped, ImportTypeOK, handler
<1>11. ASSUME NEW a \in Request,
             \/ UploadCreates(a) \/ TriggerChecks(a) \/ TriggerMarks(a)
             \/ (\E r \in Row : RelinkChecks(a, r)) \/ RelinkWrites(a) \/ RequestDies(a)
       PROVE Goal
  BY <1>1, <1>11 DEF UploadCreates, TriggerChecks, TriggerMarks, RelinkChecks, RelinkWrites,
                     RequestDies, table, vars, worker
<1>12. ASSUME NEW r \in Row, EntityAppears(r) PROVE Goal
  BY <1>1, <1>12 DEF EntityAppears, table, vars, worker
<1>13. ASSUME UNCHANGED importVars PROVE Goal
  BY <1>1, <1>13 DEF importVars, table, vars, worker
<1> HIDE DEF Goal
<1>14. ASSUME NEW w \in Worker, BatchHandlerStep(w) PROVE Goal
  BY <1>14, <1>3, <1>4, <1>5, <1>6, <1>7, <1>8 DEF BatchHandlerStep
<1>15. Goal
  BY <1>2, <1>6, <1>9, <1>10, <1>11, <1>12, <1>13, <1>14, Zenon DEF ImportNext
<1> QED
  BY <1>15 DEF Goal

LEMMA TablesStep ==
  ASSUME ImportTypeOK, HandlersTyped, CallsTyped', JobsTyped, [ImportNext]_importVars
  PROVE  TablesTyped'
<1> DEFINE Goal == TablesTyped'
<1>t. TablesTyped
  BY TypesSplit
<1>1. ASSUME UNCHANGED <<batch, rowStatus, counted, known, applied, cut, relinked>> PROVE Goal
  BY <1>1, <1>t DEF TablesTyped
<1>2. ASSUME NEW a \in Request, UploadCreates(a) \/ TriggerMarks(a) PROVE Goal
  BY <1>2, <1>t DEF UploadCreates, TriggerMarks, TablesTyped, BatchStatuses, trail
<1>3. ASSUME NEW a \in Request, RelinkWrites(a) PROVE Goal
  <2>1. reqRow[a] \in Row
    BY <1>3 DEF RelinkWrites, JobsTyped
  <2> QED
    BY <1>3, <2>1, <1>t DEF RelinkWrites, TablesTyped, RowStatuses
<1>4. ASSUME NEW w \in Worker, ValidateWritesRows(w) \/ ValidateRejects(w) PROVE Goal
  BY <1>4, <1>t DEF ValidateWritesRows, ValidateRejects, TablesTyped, BatchStatuses, RowStatuses,
                    trail
<1>5. ASSUME NEW w \in Worker, CommitReads(w) \/ CommitMarks(w) \/ CommitLists(w) PROVE Goal
  BY <1>5, <1>t DEF CommitReads, CommitMarks, CommitLists, TablesTyped, BatchStatuses, table, trail
<1>6. ASSUME NEW w \in Worker, RowResolves(w) PROVE Goal
  <2>1. UNCHANGED <<batch, rowStatus, counted, known, cut, relinked>>
    BY <1>6 DEF RowResolves, table
  <2>2. applied' = applied \/ applied' = [applied EXCEPT ![Current(w)] = applied[Current(w)] + 1]
    BY <1>6 DEF RowResolves
  <2>3. \A n \in Nat : n + 1 \in Nat
    OBVIOUS
  <2>4. applied' \in [Row -> Nat]
    BY <2>2, <2>3, <1>t DEF TablesTyped
  <2> QED
    BY <2>1, <2>4, <1>t DEF TablesTyped
<1>7. ASSUME NEW w \in Worker, RowMarks(w) PROVE Goal
  <2>1. RowMark(step[w]) \in RowStatuses
    BY <1>7 DEF RowMarks, RowMark, RowStatuses
  <2> QED
    BY <1>7, <2>1, <1>t DEF RowMarks, TablesTyped, trail
<1>8. ASSUME NEW w \in Worker, CommitFinishes(w) PROVE Goal
  BY <1>8, <1>t DEF CommitFinishes, TablesTyped, BatchStatuses, ImportTypeOK, trail
<1>9. ASSUME NEW w \in Worker, Interrupted(w) PROVE Goal
  <2>1. UNCHANGED <<batch, rowStatus, counted, known, applied, relinked>>
    BY <1>9 DEF Interrupted, table
  <2>2. cut' = cut \/ cut' = [cut EXCEPT ![Current(w)] = cut[Current(w)] + 1]
    BY <1>9 DEF Interrupted
  <2>3. \A n \in Nat : n + 1 \in Nat
    OBVIOUS
  <2>4. cut' \in [Row -> Nat]
    BY <2>2, <2>3, <1>t DEF TablesTyped
  <2> QED
    BY <2>1, <2>4, <1>t DEF TablesTyped
<1>10. ASSUME NEW r \in Row, EntityAppears(r) PROVE Goal
  BY <1>10, <1>t DEF EntityAppears, TablesTyped, table, trail
<1>11. ASSUME NEW a \in Request,
             \/ UploadEnqueues(a) \/ TriggerEnqueues(a) \/ TriggerChecks(a)
             \/ (\E r \in Row : RelinkChecks(a, r)) \/ RequestDies(a)
       PROVE Goal
  BY <1>1, <1>11 DEF UploadEnqueues, TriggerEnqueues, TriggerChecks, RelinkChecks, RequestDies,
                     table, trail
<1>12. ASSUME NEW w \in Worker, MarkErrors(w) PROVE Goal
  BY <1>1, <1>12 DEF MarkErrors, table, trail
<1>13. ASSUME QueueStep \/ UNCHANGED importVars PROVE Goal
  BY <1>1, <1>13 DEF QueueStep, importVars, table, trail
<1> HIDE DEF Goal
<1>14. ASSUME NEW w \in Worker, BatchHandlerStep(w) PROVE Goal
  BY <1>14, <1>4, <1>5, <1>6, <1>7, <1>8 DEF BatchHandlerStep
<1>15. ASSUME NEW w \in Worker, HandlerErrors(w) \/ WorkerStops(w) \/ DispatchAbandons(w)
       PROVE  Goal
  BY <1>15, <1>9 DEF HandlerErrors, WorkerStops, DispatchAbandons
<1>16. Goal
  BY <1>2, <1>3, <1>10, <1>11, <1>12, <1>13, <1>14, <1>15, Zenon DEF ImportNext
<1> QED
  BY <1>16 DEF Goal

\* A job is given its type when it is enqueued and keeps it, and none is deleted.
LEMMA JobKinds ==
  ASSUME TypeOK, ClaimsExclusive, [ImportNext]_importVars
  PROVE  \/ \E a \in Request, j \in Job, t \in {"validate", "commit"} :
              /\ Enqueue(j) /\ kind' = [kind EXCEPT ![j] = t]
              /\ t = "commit" => TriggerEnqueues(a)
              /\ t = "validate" => UploadEnqueues(a)
         \/ /\ UNCHANGED kind
            /\ \A j \in Job : status'[j] = "ABSENT" => status[j] = "ABSENT"
<1> DEFINE Kept == /\ UNCHANGED kind
                   /\ \A j \in Job : status'[j] = "ABSENT" => status[j] = "ABSENT"
<1>1. ASSUME UNCHANGED <<kind, status>> PROVE Kept
  BY <1>1
<1>2. ASSUME NEW a \in Request,
             \/ UploadCreates(a) \/ TriggerChecks(a) \/ TriggerMarks(a)
             \/ (\E r \in Row : RelinkChecks(a, r)) \/ RelinkWrites(a) \/ RequestDies(a)
      PROVE  Kept
  BY <1>1, <1>2 DEF UploadCreates, TriggerChecks, TriggerMarks, RelinkChecks, RelinkWrites,
                    RequestDies, table, vars, row
<1>3. ASSUME NEW w \in Worker, HandlerCommits(w), UNCHANGED kind PROVE Kept
  BY <1>3, RunCommits
<1>4. ASSUME NEW w \in Worker, HandlerErrors(w) \/ WorkerStops(w) \/ DispatchAbandons(w)
      PROVE  Kept
  BY <1>1, <1>4, RunEnds DEF Interrupted, table
<1>5. ASSUME QueueStep PROVE Kept
  BY <1>5, QueueStepJobs DEF QueueStep, table
<1>6. ASSUME NEW w \in Worker, BatchHandlerStep(w) \/ MarkErrors(w) PROVE Kept
  BY <1>1, <1>3, <1>6 DEF BatchHandlerStep, MarkErrors, ValidateWritesRows, ValidateRejects,
         CommitReads, CommitMarks, CommitLists, RowResolves, RowMarks, CommitFinishes, table, vars, row
<1>7. ASSUME (\E r \in Row : EntityAppears(r)) \/ UNCHANGED importVars PROVE Kept
  BY <1>1, <1>7 DEF EntityAppears, importVars, table, vars, row
<1> HIDE DEF Kept
<1>8. ASSUME NEW a \in Request, UploadEnqueues(a) \/ TriggerEnqueues(a)
      PROVE  \E j \in Job, t \in {"validate", "commit"} :
              /\ Enqueue(j) /\ kind' = [kind EXCEPT ![j] = t]
              /\ t = "commit" => TriggerEnqueues(a)
              /\ t = "validate" => UploadEnqueues(a)
  BY <1>8 DEF UploadEnqueues, TriggerEnqueues, EnqueueAs
<1>9. Kept \/ \E a \in Request : UploadEnqueues(a) \/ TriggerEnqueues(a)
  BY <1>2, <1>4, <1>5, <1>6, <1>7, Zenon DEF ImportNext
<1> QED
  BY <1>8, <1>9 DEF Kept

LEMMA RequestsStep ==
  ASSUME TypeOK, ClaimsExclusive, ImportTypeOK, JobsTyped, [ImportNext]_importVars
  PROVE  RequestsTyped' /\ JobsTyped'
<1> DEFINE Relinking == \A a \in Request : req[a] = "relinking" => reqRow[a] \in Row
           Answered == /\ req' \in [Request -> RequestSteps]
                       /\ reqRow' \in [Request -> Row \cup {NoRow}]
                       /\ Relinking'
<1>t. RequestsTyped /\ Relinking
  BY TypesSplit DEF JobsTyped
<1>1. Answered
  <2>1. ASSUME UNCHANGED <<req, reqRow>> PROVE Answered
    BY <2>1, <1>t DEF RequestsTyped
  <2>2. ASSUME NEW a \in Request, NEW s \in RequestSteps \ {"relinking"}, req' = [req EXCEPT ![a] = s],
               reqRow' \in {reqRow, [reqRow EXCEPT ![a] = NoRow]}
        PROVE  Answered
    BY <2>2, <1>t DEF RequestsTyped
  <2>3. ASSUME NEW a \in Request, NEW r \in Row, RelinkChecks(a, r) PROVE Answered
    BY <2>3, <1>t DEF RelinkChecks, Answer, RequestsTyped, RequestSteps
  <2>4. ASSUME NEW a \in Request, UploadCreates(a) \/ UploadEnqueues(a) \/ TriggerChecks(a)
        PROVE  Answered
    BY <2>2, <2>4 DEF UploadCreates, UploadEnqueues, TriggerChecks, Answer, RequestSteps
  <2>5. ASSUME NEW a \in Request, TriggerEnqueues(a) \/ TriggerMarks(a) PROVE Answered
    BY <2>2, <2>5 DEF TriggerEnqueues, TriggerMarks, Answer, RequestSteps
  <2>6. ASSUME NEW a \in Request, RelinkWrites(a) \/ RequestDies(a) PROVE Answered
    BY <2>2, <2>6 DEF RelinkWrites, RequestDies, Answer, RequestSteps
  <2>7. ASSUME NEW w \in Worker, BatchHandlerStep(w) \/ MarkErrors(w) PROVE Answered
    BY <2>1, <2>7 DEF BatchHandlerStep, MarkErrors, ValidateWritesRows, ValidateRejects,
         CommitReads, CommitMarks, CommitLists, RowResolves, RowMarks, CommitFinishes, request
  <2>8. ASSUME NEW w \in Worker, HandlerErrors(w) \/ WorkerStops(w) \/ DispatchAbandons(w)
        PROVE  Answered
    BY <2>1, <2>8 DEF HandlerErrors, WorkerStops, DispatchAbandons, Interrupted, request
  <2>9. ASSUME \/ \E r \in Row : EntityAppears(r)
               \/ QueueStep \/ UNCHANGED importVars
        PROVE  Answered
    BY <2>1, <2>9 DEF EntityAppears, QueueStep, importVars, request
  <2> HIDE DEF Answered
  <2> QED
    BY <2>3, <2>4, <2>5, <2>6, <2>7, <2>8, <2>9, Zenon DEF ImportNext
<1>2. ASSUME NEW j \in Job, NEW t \in {"validate", "commit"}, Enqueue(j), kind' = [kind EXCEPT ![j] = t]
      PROVE  RequestsTyped' /\ JobsTyped'
  <2>1. kind' \in [Job -> {"none", "validate", "commit"}]
    BY <1>2, <1>t DEF RequestsTyped
  <2>2. \A i \in Job : status'[i] = "ABSENT" => i # j /\ status[i] = "ABSENT"
    BY <1>2 DEF Enqueue, TypeOK
  <2>3. CommitJobs' \subseteq CommitJobs \cup {j}
    BY <1>2, <1>t DEF CommitJobs, RequestsTyped
  <2>4. IsFiniteSet(CommitJobs')
    BY <2>3, FS_AddElement, FS_Subset DEF JobsTyped
  <2>5. \A i \in Job : status'[i] = "ABSENT" => kind'[i] = "none"
    BY <2>2, <1>2, <1>t DEF JobsTyped, RequestsTyped
  <2> QED
    BY <1>1, <2>1, <2>4, <2>5 DEF JobsTyped, RequestsTyped
<1>3. ASSUME UNCHANGED kind, \A j \in Job : status'[j] = "ABSENT" => status[j] = "ABSENT"
      PROVE  RequestsTyped' /\ JobsTyped'
  <2>1. CommitJobs' = CommitJobs
    BY <1>3 DEF CommitJobs
  <2> QED
    BY <1>1, <1>3, <2>1, <1>t DEF JobsTyped, RequestsTyped
<1> QED
  BY <1>2, <1>3, JobKinds

\* What every proof below starts from.
ImportTyped == JobsKept /\ ImportTypeOK /\ HandlersTyped /\ JobsTyped

LEMMA ImportTypedStep == ASSUME ImportTyped, [ImportNext]_importVars PROVE ImportTyped'
<1>1. TypeOK /\ ClaimsExclusive
  BY DEF ImportTyped, JobsKept, QueueInv
<1>2. JobsKept'
  BY ImportRuns, JobsStep DEF ImportTyped
<1>3. CallsTyped' /\ HandlersTyped' /\ RequestsTyped' /\ JobsTyped'
  BY <1>1, CallsStep, RequestsStep DEF ImportTyped
<1>4. TablesTyped'
  BY <1>3, TablesStep DEF ImportTyped
<1>5. ImportTypeOK'
  BY <1>3, <1>4 DEF ImportTypeOK, TablesTyped, RequestsTyped, CallsTyped
<1> QED
  BY <1>2, <1>3, <1>5 DEF ImportTyped

LEMMA ImportTypedInit == ImportInit => ImportTyped
<1> SUFFICES ASSUME ImportInit PROVE ImportTyped
  OBVIOUS
<1>1. TypeOK /\ ClaimsExclusive /\ CompletedCommitted
  BY JobAssumption, BoundAssumption
     DEF ImportInit, Init, TypeOK, Statuses, Steps, Busy, ClaimsExclusive, CompletedCommitted
<1>2. PermitsBounded
  <2> SUFFICES ASSUME NEW j \in Job PROVE committed[j] + Permits(j) <= 1 + stolen[j]
    BY DEF PermitsBounded
  <2>1. Holders(j) = {}
    BY JobAssumption DEF ImportInit, Init, Holders
  <2>2. Permits(j) \in {0, 1}
    BY <2>1, FS_EmptySet DEF Permits
  <2> QED
    BY <2>2 DEF ImportInit, Init
<1>3. ImportTypeOK
  BY RowsFinite, 0 \in 0 .. Cardinality(Row)
     DEF ImportInit, ImportTypeOK, BatchStatuses, RowStatuses, RequestSteps, HandlerSteps
<1>4. CommitJobs = {}
  BY DEF ImportInit, CommitJobs
<1>5. \A w \in Worker : done[w] + Cardinality(todo[w]) <= Cardinality(Row)
  BY FS_EmptySet, RowsFinite DEF ImportInit
<1>6. HandlersTyped
  BY <1>5 DEF ImportInit, HandlersTyped
<1>7. JobsTyped
  BY <1>4, FS_EmptySet DEF ImportInit, JobsTyped
<1> QED
  BY <1>1, <1>2, <1>3, <1>6, <1>7 DEF ImportTyped, JobsKept, QueueInv

\* Every statement of the handlers, the API and the queue leaves the batch, its
\* rows, the requests and the calls well typed: a row is marked, relinked and
\* counted only while it is one of the workbook's.
THEOREM ImportTypeCorrect == ImportSpec => []ImportTypeOK
<1>1. ImportTyped => ImportTypeOK
  BY DEF ImportTyped
<1> QED
  BY <1>1, ImportTypedInit, ImportTypedStep, PTL DEF ImportSpec

\* The jobs of an import keep the queue's promises: without a reclaim from a live
\* worker a job commits once and runs in one worker at a time.
THEOREM ImportsKeepQueue == ImportSpec => [](CommitsBounded /\ OneRunner)
<1>1. ImportTyped => CommitsBounded /\ OneRunner
  <2> SUFFICES ASSUME ImportTyped, NEW j \in Job
               PROVE  committed[j] <= 1 + stolen[j] /\ Cardinality(Holders(j)) <= 1 + stolen[j]
    BY DEF CommitsBounded, OneRunner
  <2>1. /\ committed[j] \in Nat /\ stolen[j] \in Nat /\ Cardinality(Holders(j)) \in Nat
        /\ committed[j] + Permits(j) <= 1 + stolen[j]
    BY HoldersFinite DEF ImportTyped, JobsKept, QueueInv, PermitsBounded, TypeOK
  <2> QED
    BY <2>1 DEF Permits
<1> QED
  BY <1>1, ImportTypedInit, ImportTypedStep, PTL DEF ImportSpec

-----------------------------------------------------------------------------
(***************************************************************************)
(* The rows of a committed batch.                                          *)
(***************************************************************************)

\* From the validation on, and as long as anything goes on that follows it, the
\* rows are there.
PastValidation ==
    \/ batch \in {"VALIDATED", "COMMITTING", "COMMITTED"}
    \/ \E a \in Request : req[a] \in {"checked", "enqueued"}
    \/ \E w \in Worker : step[w] # "begin"

RowsPresent == PastValidation => \A r \in Row : rowStatus[r] # "ABSENT"

\* What a commit run has listed and not yet marked covers the VALID rows.
Listed ==
    \A w \in Worker : step[w] \in {"rows", "unmatched", "failed", "applied"} =>
        \A r \in Row : rowStatus[r] = "VALID" => r \in todo[w] \cup relinked

\* Only three statements write the status of a row.
RowWrite ==
    \/ \E w \in Worker : ValidateWritesRows(w) \/ RowMarks(w)
    \/ \E a \in Request : RelinkWrites(a)

LEMMA RowsKept == ASSUME [ImportNext]_importVars, ~RowWrite PROVE UNCHANGED <<rowStatus, relinked>>
<1> DEFINE Goal == UNCHANGED <<rowStatus, relinked>>
<1>1. ASSUME NEW a \in Request,
             \/ UploadCreates(a) \/ UploadEnqueues(a) \/ TriggerChecks(a) \/ TriggerEnqueues(a)
             \/ TriggerMarks(a) \/ (\E r \in Row : RelinkChecks(a, r)) \/ RequestDies(a)
      PROVE  Goal
  BY <1>1 DEF UploadCreates, UploadEnqueues, TriggerChecks, TriggerEnqueues, TriggerMarks,
              RelinkChecks, RequestDies, table, trail
<1>2. ASSUME NEW w \in Worker,
             \/ ValidateRejects(w) \/ CommitReads(w) \/ CommitMarks(w) \/ CommitLists(w)
             \/ RowResolves(w) \/ CommitFinishes(w) \/ MarkErrors(w)
             \/ HandlerErrors(w) \/ WorkerStops(w) \/ DispatchAbandons(w)
      PROVE  Goal
  BY <1>2 DEF ValidateRejects, CommitReads, CommitMarks, CommitLists, RowResolves, CommitFinishes,
              MarkErrors, HandlerErrors, WorkerStops, DispatchAbandons, Interrupted, table, trail
<1>3. ASSUME QueueStep \/ (\E r \in Row : EntityAppears(r)) \/ UNCHANGED importVars PROVE Goal
  BY <1>3 DEF QueueStep, EntityAppears, importVars, table, trail
<1> HIDE DEF Goal
<1>4. ASSUME NEW w \in Worker, BatchHandlerStep(w)
      PROVE  Goal \/ ValidateWritesRows(w) \/ RowMarks(w)
  BY <1>4, <1>2 DEF BatchHandlerStep
<1>5. ASSUME NEW a \in Request,
             \/ UploadCreates(a) \/ UploadEnqueues(a)
             \/ TriggerChecks(a) \/ TriggerEnqueues(a) \/ TriggerMarks(a)
             \/ (\E r \in Row : RelinkChecks(a, r)) \/ RelinkWrites(a) \/ RequestDies(a)
      PROVE  Goal \/ RelinkWrites(a)
  BY <1>5, <1>1, Zenon
<1>6. Goal
  BY <1>2, <1>3, <1>4, <1>5, Zenon DEF ImportNext, RowWrite
<1> QED
  BY <1>6 DEF Goal

\* Once there, a row stays; what becomes VALID does so in validation or is relinked.
LEMMA RowsStay ==
  ASSUME ImportTyped, [ImportNext]_importVars
  PROVE  /\ \A r \in Row : rowStatus'[r] = "ABSENT" => rowStatus[r] = "ABSENT"
         /\ relinked \subseteq relinked'
         /\ \/ \E w \in Worker : ValidateWritesRows(w)
            \/ \A r \in Row : rowStatus'[r] = "VALID" => rowStatus[r] = "VALID" \/ r \in relinked'
<1> DEFINE Goal ==
       /\ \A r \in Row : rowStatus'[r] = "ABSENT" => rowStatus[r] = "ABSENT"
       /\ relinked \subseteq relinked'
       /\ \/ \E w \in Worker : ValidateWritesRows(w)
          \/ \A r \in Row : rowStatus'[r] = "VALID" => rowStatus[r] = "VALID" \/ r \in relinked'
<1>t. rowStatus \in [Row -> RowStatuses]
  BY DEF ImportTyped, ImportTypeOK
<1>1. ASSUME NEW w \in Worker, ValidateWritesRows(w) PROVE Goal
  <2>1. (\A r \in Row : rowStatus'[r] # "ABSENT") /\ relinked' = relinked
    BY <1>1 DEF ValidateWritesRows, trail
  <2> QED
    BY <2>1, <1>1
<1>2. ASSUME NEW w \in Worker, RowMarks(w) PROVE Goal
  <2>1. /\ rowStatus' = [rowStatus EXCEPT ![Current(w)] = RowMark(step[w])]
        /\ relinked' = relinked
    BY <1>2 DEF RowMarks, trail
  <2>2. RowMark(step[w]) \notin {"ABSENT", "VALID"}
    BY <1>2 DEF RowMarks, RowMark
  <2>3. \A r \in Row : rowStatus'[r] = rowStatus[r] \/ rowStatus'[r] \notin {"ABSENT", "VALID"}
    BY <2>1, <2>2, <1>t
  <2> QED
    BY <2>1, <2>3
<1>3. ASSUME NEW a \in Request, RelinkWrites(a) PROVE Goal
  <2>1. /\ rowStatus' = [rowStatus EXCEPT ![reqRow[a]] = "VALID"]
        /\ relinked' = relinked \cup {reqRow[a]}
    BY <1>3 DEF RelinkWrites
  <2>2. \A r \in Row : rowStatus'[r] = rowStatus[r] \/ (r = reqRow[a] /\ rowStatus'[r] = "VALID")
    BY <2>1, <1>t
  <2> QED
    BY <2>1, <2>2
<1>4. ASSUME ~RowWrite PROVE Goal
  BY <1>4, RowsKept
<1> HIDE DEF Goal
<1>5. Goal
  BY <1>1, <1>2, <1>3, <1>4 DEF RowWrite
<1> QED
  BY <1>5 DEF Goal

\* Only the run that writes the rows takes a batch past its validation.
LEMMA PastStep ==
  ASSUME ImportTyped, [ImportNext]_importVars
  PROVE  PastValidation' => PastValidation \/ \E w \in Worker : ValidateWritesRows(w)
<1> DEFINE Goal == PastValidation' => PastValidation \/ \E w \in Worker : ValidateWritesRows(w)
<1>t. req \in [Request -> RequestSteps] /\ step \in [Worker -> HandlerSteps]
  BY DEF ImportTyped, ImportTypeOK
<1>1. ASSUME batch' \in {"UPLOADED", "VALIDATION_FAILED", batch},
             \A a \in Request : req'[a] \in {"checked", "enqueued"} => req[a] \in {"checked", "enqueued"},
             \A w \in Worker : step'[w] # "begin" => step[w] # "begin"
      PROVE  Goal
  BY <1>1 DEF PastValidation
<1>2. ASSUME NEW a \in Request,
             \/ UploadCreates(a) \/ UploadEnqueues(a) \/ (\E r \in Row : RelinkChecks(a, r))
             \/ RelinkWrites(a) \/ RequestDies(a)
      PROVE  Goal
  BY <1>1, <1>2, <1>t DEF UploadCreates, UploadEnqueues, RelinkChecks, RelinkWrites, RequestDies,
          Answer, table, handler
<1>3. ASSUME NEW a \in Request, TriggerChecks(a) \/ TriggerEnqueues(a) \/ TriggerMarks(a) PROVE Goal
  BY <1>3 DEF TriggerChecks, TriggerEnqueues, TriggerMarks, PastValidation
<1>4. ASSUME NEW w \in Worker, ValidateWritesRows(w) PROVE Goal
  BY <1>4
<1>5. ASSUME NEW w \in Worker,
             \/ CommitReads(w) \/ CommitMarks(w) \/ CommitLists(w)
             \/ RowResolves(w) \/ RowMarks(w) \/ CommitFinishes(w) \/ MarkErrors(w)
      PROVE  Goal
  BY <1>5 DEF CommitReads, CommitMarks, CommitLists, RowResolves, RowMarks, CommitFinishes,
              MarkErrors, PastValidation
<1>6. ASSUME NEW w \in Worker, ValidateRejects(w) PROVE Goal
  BY <1>1, <1>6 DEF ValidateRejects, request, handler
<1>7. ASSUME NEW w \in Worker, HandlerErrors(w) \/ WorkerStops(w) \/ DispatchAbandons(w)
      PROVE  Goal
  BY <1>1, <1>7, <1>t DEF HandlerErrors, WorkerStops, DispatchAbandons, Interrupted, Leave, table,
          request
<1>8. ASSUME QueueStep \/ (\E r \in Row : EntityAppears(r)) \/ UNCHANGED importVars PROVE Goal
  BY <1>1, <1>8 DEF QueueStep, EntityAppears, importVars, table, request, handler
<1> HIDE DEF Goal
<1>9. ASSUME NEW w \in Worker, BatchHandlerStep(w) PROVE Goal
  BY <1>9, <1>4, <1>5, <1>6 DEF BatchHandlerStep
<1>10. Goal
  BY <1>2, <1>3, <1>5, <1>7, <1>8, <1>9, Zenon DEF ImportNext
<1> QED
  BY <1>10 DEF Goal

LEMMA PresentStep ==
  ASSUME ImportTyped, RowsPresent, [ImportNext]_importVars
  PROVE  RowsPresent'
<1>1. ASSUME NEW w \in Worker, ValidateWritesRows(w) PROVE \A r \in Row : rowStatus'[r] # "ABSENT"
  BY <1>1 DEF ValidateWritesRows
<1> QED
  BY <1>1, PastStep, RowsStay DEF RowsPresent

LEMMA ListedStep ==
  ASSUME ImportTyped, RowsPresent, Listed, [ImportNext]_importVars
  PROVE  Listed'
<1> DEFINE Turn == {"rows", "unmatched", "failed", "applied"}
           Goal == \A w \in Worker : step'[w] \in Turn =>
                     \/ step[w] \in Turn /\ todo'[w] = todo[w]
                     \/ \A r \in Row : rowStatus'[r] = "VALID" => r \in todo'[w] \cup relinked'
<1>t. /\ step \in [Worker -> HandlerSteps] /\ todo \in [Worker -> SUBSET Row]
      /\ rowStatus \in [Row -> RowStatuses]
  BY DEF ImportTyped, ImportTypeOK
<1>1. ASSUME \A w \in Worker : step'[w] \in Turn => step[w] \in Turn /\ todo'[w] = todo[w]
      PROVE  Goal
  BY <1>1
<1>2. ASSUME NEW w \in Worker, CommitLists(w) PROVE Goal
  <2>1. /\ todo' = [todo EXCEPT ![w] = {r \in Row : ToCommit(r)}]
        /\ step' = [step EXCEPT ![w] = "rows"] /\ UNCHANGED rowStatus
    BY <1>2 DEF CommitLists, Goes, table
  <2>2. \A r \in Row : rowStatus'[r] = "VALID" => r \in todo'[w]
    BY <2>1, <1>t DEF ToCommit
  <2>3. \A v \in Worker \ {w} : step'[v] = step[v] /\ todo'[v] = todo[v]
    BY <2>1, <1>t
  <2> QED
    BY <2>2, <2>3
<1>3. ASSUME NEW w \in Worker, RowMarks(w) PROVE Goal
  <2>1. /\ todo' = [todo EXCEPT ![w] = todo[w] \ {Current(w)}]
        /\ step' = [step EXCEPT ![w] = "rows"] /\ step[w] \in Turn
        /\ rowStatus' = [rowStatus EXCEPT ![Current(w)] = RowMark(step[w])]
        /\ relinked' = relinked
    BY <1>3 DEF RowMarks, Goes, Rest, trail
  <2>2. RowMark(step[w]) # "VALID"
    BY <1>3 DEF RowMarks, RowMark
  <2>3. \A r \in Row : rowStatus'[r] = "VALID" => r # Current(w) /\ rowStatus[r] = "VALID"
    BY <2>1, <2>2, <1>t
  <2>4. \A r \in Row : rowStatus'[r] = "VALID" => r \in todo'[w] \cup relinked'
    BY <2>1, <2>3, <1>t DEF Listed
  <2>5. \A v \in Worker \ {w} : step'[v] = step[v] /\ todo'[v] = todo[v]
    BY <2>1, <1>t
  <2> QED
    BY <2>4, <2>5
<1>4. ASSUME NEW w \in Worker, CommitReads(w) \/ CommitMarks(w) PROVE Goal
  BY <1>1, <1>4, <1>t DEF CommitReads, CommitMarks, Goes
<1>5. ASSUME NEW w \in Worker, RowResolves(w) \/ MarkErrors(w) PROVE Goal
  <2>1. PICK s \in {"unmatched", "failed", "applied"} : step' = [step EXCEPT ![w] = s]
    BY <1>5 DEF RowResolves, MarkErrors, Goes
  <2>2. step[w] \in Turn /\ todo' = todo
    BY <1>5 DEF RowResolves, MarkErrors
  <2> QED
    BY <1>1, <2>1, <2>2, <1>t
<1>6. ASSUME NEW w \in Worker, ValidateWritesRows(w) \/ ValidateRejects(w) PROVE Goal
  BY <1>1, <1>6 DEF ValidateWritesRows, ValidateRejects, handler
<1>7. ASSUME NEW w \in Worker, CommitFinishes(w) PROVE Goal
  BY <1>1, <1>7, <1>t DEF CommitFinishes, Leave
<1>8. ASSUME NEW w \in Worker, HandlerErrors(w) \/ WorkerStops(w) \/ DispatchAbandons(w)
      PROVE  Goal
  BY <1>1, <1>8, <1>t DEF HandlerErrors, WorkerStops, DispatchAbandons, Interrupted, Leave
<1>9. ASSUME NEW a \in Request,
             \/ UploadCreates(a) \/ UploadEnqueues(a)
             \/ TriggerChecks(a) \/ TriggerEnqueues(a) \/ TriggerMarks(a)
             \/ (\E r \in Row : RelinkChecks(a, r)) \/ RelinkWrites(a) \/ RequestDies(a)
      PROVE  Goal
  BY <1>1, <1>9 DEF UploadCreates, UploadEnqueues, TriggerChecks, TriggerEnqueues, TriggerMarks,
              RelinkChecks, RelinkWrites, RequestDies, handler
<1>10. ASSUME QueueStep \/ (\E r \in Row : EntityAppears(r)) \/ UNCHANGED importVars PROVE Goal
  BY <1>1, <1>10 DEF QueueStep, EntityAppears, importVars, handler
<1> HIDE DEF Goal
<1>11. ASSUME NEW w \in Worker, BatchHandlerStep(w) PROVE Goal
  BY <1>11, <1>2, <1>3, <1>4, <1>5, <1>6, <1>7 DEF BatchHandlerStep
<1>12. Goal
  BY <1>5, <1>8, <1>9, <1>10, <1>11, Zenon DEF ImportNext
<1>13. ASSUME NEW w \in Worker, ValidateWritesRows(w) PROVE Listed'
  <2>1. \A r \in Row : rowStatus[r] = "ABSENT"
    BY <1>13 DEF ValidateWritesRows, RowsInsertable
  <2>2. Row = {} \/ \A v \in Worker : step[v] = "begin"
    BY <2>1 DEF RowsPresent, PastValidation
  <2>3. UNCHANGED step
    BY <1>13 DEF ValidateWritesRows, handler
  <2> QED
    BY <2>2, <2>3 DEF Listed
<1> QED
  BY <1>12, <1>13, RowsStay DEF Goal, Listed

RowsInv == ImportTyped /\ RowsPresent /\ Listed /\ NoRowForgotten

LEMMA ForgottenStep ==
  ASSUME RowsInv, [ImportNext]_importVars
  PROVE  NoRowForgotten'
<1> USE DEF RowsInv
<1>1. ASSUME NEW w \in Worker, ValidateWritesRows(w) PROVE NoRowForgotten'
  BY <1>1 DEF ValidateWritesRows, NoRowForgotten
<1>2. ASSUME NEW w \in Worker, CommitFinishes(w) PROVE NoRowForgotten'
  <2>1. \A r \in Row : rowStatus[r] = "VALID" => r \in relinked
    BY <1>2 DEF CommitFinishes, Listed
  <2>2. UNCHANGED <<rowStatus, relinked>>
    BY <1>2 DEF CommitFinishes, trail
  <2> QED
    BY <2>1, <2>2 DEF NoRowForgotten
<1>3. ASSUME batch' = "COMMITTED" => batch = "COMMITTED",
             \A w \in Worker : ~ ValidateWritesRows(w)
      PROVE  NoRowForgotten'
  BY <1>3, RowsStay DEF NoRowForgotten
<1>4. (batch' = "COMMITTED" => batch = "COMMITTED") \/ \E w \in Worker : CommitFinishes(w)
  <2> DEFINE Goal == batch' = "COMMITTED" => batch = "COMMITTED"
  <2>1. ASSUME NEW a \in Request,
               \/ UploadCreates(a) \/ UploadEnqueues(a)
               \/ TriggerChecks(a) \/ TriggerEnqueues(a) \/ TriggerMarks(a)
               \/ (\E r \in Row : RelinkChecks(a, r)) \/ RelinkWrites(a) \/ RequestDies(a)
        PROVE  Goal
    BY <2>1 DEF UploadCreates, UploadEnqueues, TriggerChecks, TriggerEnqueues, TriggerMarks,
                RelinkChecks, RelinkWrites, RequestDies, table
  <2>2. ASSUME NEW w \in Worker,
               \/ ValidateWritesRows(w) \/ ValidateRejects(w)
               \/ CommitReads(w) \/ CommitMarks(w) \/ CommitLists(w)
               \/ RowResolves(w) \/ RowMarks(w) \/ MarkErrors(w)
               \/ HandlerErrors(w) \/ WorkerStops(w) \/ DispatchAbandons(w)
        PROVE  Goal
    BY <2>2 DEF ValidateWritesRows, ValidateRejects, CommitReads, CommitMarks, CommitLists,
                RowResolves, RowMarks, MarkErrors, HandlerErrors, WorkerStops, DispatchAbandons,
                Interrupted, table
  <2>3. ASSUME QueueStep \/ (\E r \in Row : EntityAppears(r)) \/ UNCHANGED importVars PROVE Goal
    BY <2>3 DEF QueueStep, EntityAppears, importVars, table
  <2> HIDE DEF Goal
  <2>4. ASSUME NEW w \in Worker, BatchHandlerStep(w) PROVE Goal \/ CommitFinishes(w)
    BY <2>4, <2>2 DEF BatchHandlerStep
  <2>5. Goal \/ \E w \in Worker : CommitFinishes(w)
    BY <2>1, <2>2, <2>3, <2>4, Zenon DEF ImportNext
  <2> QED
    BY <2>5 DEF Goal
<1> QED
  BY <1>1, <1>2, <1>3, <1>4

LEMMA RowsInitially == ImportInit => RowsInv
<1>1. ImportInit => RowsPresent /\ Listed /\ NoRowForgotten
  BY DEF ImportInit, RowsPresent, PastValidation, Listed, NoRowForgotten
<1> QED
  BY <1>1, ImportTypedInit DEF RowsInv

LEMMA RowsInvStep == RowsInv /\ [ImportNext]_importVars => RowsInv'
  BY ImportTypedStep, PresentStep, ListedStep, ForgottenStep DEF RowsInv

\* A COMMITTED batch has no row left to commit, except rows relinked by hand,
\* for any workbook, any number of workers, requests and jobs: the run that
\* finishes the batch had listed every VALID row and has marked each of them.
THEOREM NoRowForgottenHolds == ImportSpec => []NoRowForgotten
<1>1. RowsInv => NoRowForgotten
  BY DEF RowsInv
<1> QED
  BY <1>1, RowsInitially, RowsInvStep, PTL DEF ImportSpec

-----------------------------------------------------------------------------
(***************************************************************************)
(* How often a row is applied.  A commit job may apply row r once more as  *)
(* long as it has not applied it, or has been interrupted before the mark: *)
(* the row is still to be listed by a run of the job, or is listed by one, *)
(* and no run of the job is between r's writes and its mark.               *)
(***************************************************************************)
Applying(w, r) == step[w] \in {"applied", "failed"} /\ r = Current(w)

MayYetApply(r) ==
    {j \in CommitJobs :
        /\ \/ rowStatus[r] \in {"ABSENT", "VALID"}
           \/ \E w \in Worker : held[w] = j /\ r \in todo[w]
        /\ \A w \in Worker : held[w] = j => ~Applying(w, r)}

AppliedBounded ==
    (\A j \in CommitJobs : stolen[j] = 0) =>
        \A r \in Row \ relinked :
            applied[r] + Cardinality(MayYetApply(r)) <= Cardinality(CommitJobs) + cut[r]

LEMMA CurrentKept ==
  ASSUME NEW w \in Worker, todo'[w] = todo[w] PROVE Current(w)' = Current(w)
BY DEF Current

LEMMA CommitJobsGrow ==
  ASSUME ImportTyped, [ImportNext]_importVars
  PROVE  /\ CommitJobs \subseteq CommitJobs'
         /\ \/ CommitJobs' = CommitJobs
            \/ \E a \in Request, j \in Job :
                /\ TriggerEnqueues(a) /\ Enqueue(j)
                /\ j \notin CommitJobs /\ CommitJobs' = CommitJobs \cup {j}
<1>t. TypeOK /\ ClaimsExclusive /\ JobsTyped /\ kind \in [Job -> {"none", "validate", "commit"}]
  BY DEF ImportTyped, JobsKept, QueueInv, ImportTypeOK
<1>1. ASSUME UNCHANGED kind PROVE CommitJobs' = CommitJobs
  BY <1>1 DEF CommitJobs
<1>2. ASSUME NEW j \in Job, Enqueue(j), kind' = [kind EXCEPT ![j] = "validate"]
      PROVE  CommitJobs' = CommitJobs
  <2>1. kind[j] = "none"
    BY <1>2, <1>t DEF Enqueue, JobsTyped
  <2> QED
    BY <1>2, <2>1, <1>t DEF CommitJobs
<1>3. ASSUME NEW j \in Job, Enqueue(j), kind' = [kind EXCEPT ![j] = "commit"]
      PROVE  j \notin CommitJobs /\ CommitJobs' = CommitJobs \cup {j}
  <2>1. kind[j] = "none"
    BY <1>3, <1>t DEF Enqueue, JobsTyped
  <2> QED
    BY <1>3, <2>1, <1>t DEF CommitJobs
<1> QED
  BY <1>1, <1>2, <1>3, <1>t, JobKinds

\* The commit jobs that may yet apply a row become no more by a step that lets no
\* run begin with listed rows and none forget that it is applying one.
LEMMA MayApplyFrame ==
  ASSUME NEW r \in Row, CommitJobs' = CommitJobs,
         rowStatus'[r] \in {"ABSENT", "VALID"} => rowStatus[r] \in {"ABSENT", "VALID"},
         \A w \in Worker :
            \/ /\ held'[w] = held[w] /\ todo'[w] = todo[w]
               /\ step[w] \in {"applied", "failed"} => step'[w] \in {"applied", "failed"}
            \/ todo'[w] = {} /\ step[w] \notin {"applied", "failed"}
  PROVE  MayYetApply(r)' \subseteq MayYetApply(r)
<1> SUFFICES ASSUME NEW j \in CommitJobs, j \in MayYetApply(r)' PROVE j \in MayYetApply(r)
  BY DEF MayYetApply
<1>1. ASSUME NEW w \in Worker, held'[w] = j, r \in todo'[w] PROVE held[w] = j /\ r \in todo[w]
  BY <1>1
<1>2. ASSUME NEW w \in Worker, held[w] = j, Applying(w, r) PROVE FALSE
  <2>1. /\ held'[w] = held[w] /\ todo'[w] = todo[w] /\ step'[w] \in {"applied", "failed"}
    BY <1>2 DEF Applying
  <2>2. Applying(w, r)'
    BY <1>2, <2>1, CurrentKept DEF Applying
  <2> QED
    BY <1>2, <2>1, <2>2 DEF MayYetApply
<1> QED
  BY <1>1, <1>2 DEF MayYetApply

\* What a step of the queue, or one that ends a run, leaves of the calls.
LEMMA QueueStepCalls ==
  ASSUME ImportTyped, QueueStep, NEW w \in Worker
  PROVE  /\ UNCHANGED <<kind, rowStatus, applied, cut>>
         /\ todo'[w] = todo[w] /\ step'[w] = step[w]
         /\ held'[w] = held[w] \/ (todo'[w] = {} /\ step[w] = "begin")
<1>t. TypeOK /\ HandlersTyped
  BY DEF ImportTyped, JobsKept, QueueInv
<1>1. UNCHANGED <<kind, rowStatus, applied, cut, step, todo>>
  BY DEF QueueStep, table, handler, trail
<1>2. pc[w] = "running" => held'[w] = held[w]
  BY <1>t, QueueStepRuns
<1>3. pc[w] # "running" => step[w] = "begin" /\ todo[w] = {}
  BY <1>t DEF HandlersTyped
<1> QED
  BY <1>1, <1>2, <1>3

LEMMA AppliedStep ==
  ASSUME ImportTyped, AppliedBounded, [ImportNext]_importVars
  PROVE  AppliedBounded'
<1> SUFFICES ASSUME (\A j \in CommitJobs : stolen[j] = 0)', NEW r \in Row, r \notin relinked'
             PROVE  (applied[r] + Cardinality(MayYetApply(r)) <= Cardinality(CommitJobs) + cut[r])'
  BY DEF AppliedBounded
<1> DEFINE Goal == (applied[r] + Cardinality(MayYetApply(r)) <= Cardinality(CommitJobs) + cut[r])'
<1>t. /\ TypeOK /\ ImportTypeOK /\ HandlersTyped /\ JobsTyped /\ ClaimsExclusive /\ JobsKept
      /\ step \in [Worker -> HandlerSteps] /\ todo \in [Worker -> SUBSET Row]
      /\ rowStatus \in [Row -> RowStatuses] /\ applied \in [Row -> Nat] /\ cut \in [Row -> Nat]
  BY DEF ImportTyped, JobsKept, QueueInv, ImportTypeOK
<1>s. \A j \in CommitJobs : stolen[j] = 0
  BY <1>t, CommitJobsGrow, JobsStep, ImportRuns DEF CommitJobs
<1>a. ASSUME NEW w \in Worker, NEW v \in Worker, held[w] \in CommitJobs, held[v] = held[w]
      PROVE  v = w
  BY <1>a, <1>s, <1>t, Alone DEF JobsKept, QueueInv, CommitJobs
<1>r. r \notin relinked /\ rowStatus'[r] = "ABSENT" => rowStatus[r] = "ABSENT"
  BY RowsStay
<1>b. applied[r] + Cardinality(MayYetApply(r)) <= Cardinality(CommitJobs) + cut[r]
  BY <1>s, RowsStay DEF AppliedBounded
<1>f. /\ IsFiniteSet(CommitJobs) /\ IsFiniteSet(CommitJobs')
      /\ IsFiniteSet(MayYetApply(r)) /\ IsFiniteSet(MayYetApply(r)')
  BY ImportTypedStep, FS_Subset DEF ImportTyped, JobsTyped, MayYetApply
<1>n. /\ Cardinality(CommitJobs) \in Nat /\ Cardinality(CommitJobs') \in Nat
      /\ Cardinality(MayYetApply(r)) \in Nat /\ Cardinality(MayYetApply(r)') \in Nat
      /\ Cardinality(CommitJobs) <= Cardinality(CommitJobs')
      /\ applied[r] \in Nat /\ cut[r] \in Nat
  BY <1>f, <1>t, CommitJobsGrow, FS_CardinalityType, FS_Subset
\* the three ways the bound is kept
<1>1. ASSUME MayYetApply(r)' \subseteq MayYetApply(r), applied'[r] = applied[r], cut'[r] = cut[r]
      PROVE  Goal
  <2>1. Cardinality(MayYetApply(r)') <= Cardinality(MayYetApply(r))
    BY <1>1, <1>f, FS_Subset
  <2> QED
    BY <1>1, <2>1, <1>n, <1>b
<1>2. ASSUME NEW j, MayYetApply(r)' \subseteq MayYetApply(r) \cup {j}, applied'[r] = applied[r],
             \/ Cardinality(CommitJobs') = Cardinality(CommitJobs) + 1 /\ cut'[r] = cut[r]
             \/ cut'[r] = cut[r] + 1
      PROVE  Goal
  <2>1. Cardinality(MayYetApply(r)') <= Cardinality(MayYetApply(r)) + 1
    <3>1. /\ IsFiniteSet(MayYetApply(r) \cup {j})
          /\ Cardinality(MayYetApply(r) \cup {j}) \in {Cardinality(MayYetApply(r)), Cardinality(MayYetApply(r)) + 1}
      BY <1>f, FS_AddElement
    <3>2. Cardinality(MayYetApply(r)') <= Cardinality(MayYetApply(r) \cup {j})
      BY <1>2, <3>1, FS_Subset
    <3> QED
      BY <3>1, <3>2, <1>n
  <2> QED
    BY <1>2, <2>1, <1>n, <1>b
<1>3. ASSUME NEW j \in MayYetApply(r), MayYetApply(r)' \subseteq MayYetApply(r) \ {j},
             applied'[r] = applied[r] + 1, cut'[r] = cut[r]
      PROVE  Goal
  <2>1. Cardinality(MayYetApply(r)') <= Cardinality(MayYetApply(r)) - 1
    <3>1. /\ IsFiniteSet(MayYetApply(r) \ {j})
          /\ Cardinality(MayYetApply(r) \ {j}) = Cardinality(MayYetApply(r)) - 1
      BY <1>f, FS_RemoveElement
    <3> QED
      BY <1>3, <3>1, <1>f, FS_Subset
  <2> QED
    BY <1>3, <2>1, <1>n, <1>b
<1>4. ASSUME UNCHANGED <<kind, rowStatus, held, handler, applied, cut>> PROVE Goal
  <2>1. CommitJobs' = CommitJobs
    BY <1>4 DEF CommitJobs
  <2>2. MayYetApply(r)' \subseteq MayYetApply(r)
    BY <1>4, <2>1, MayApplyFrame DEF handler
  <2> QED
    BY <1>1, <1>4, <2>2
<1> HIDE DEF Goal
\* the API
<1>5. ASSUME NEW a \in Request, UploadEnqueues(a) \/ TriggerEnqueues(a) PROVE Goal
  <2>0. UNCHANGED <<rowStatus, held, step, todo, applied, cut>>
    <3>1. PICK j \in Job : Enqueue(j)
      BY <1>5 DEF UploadEnqueues, TriggerEnqueues, EnqueueAs
    <3> QED
      BY <3>1, <1>5 DEF UploadEnqueues, TriggerEnqueues, Enqueue, worker, handler, trail
  <2>1. CASE CommitJobs' = CommitJobs
    BY <1>1, <2>0, <2>1, MayApplyFrame
  <2>2. ASSUME NEW j \in Job, j \notin CommitJobs, CommitJobs' = CommitJobs \cup {j} PROVE Goal
    <3>1. MayYetApply(r)' \subseteq MayYetApply(r) \cup {j}
      <4>1. \A w \in Worker : Current(w)' = Current(w)
        BY <2>0, CurrentKept
      <4> QED
        BY <2>0, <2>2, <4>1 DEF MayYetApply, Applying
    <3>2. Cardinality(CommitJobs') = Cardinality(CommitJobs) + 1
      BY <2>2, <1>f, FS_AddElement
    <3> QED
      BY <1>2, <2>0, <3>1, <3>2
  <2> QED
    BY <2>1, <2>2, CommitJobsGrow DEF Goal
<1>6. ASSUME NEW a \in Request,
             \/ UploadCreates(a) \/ TriggerChecks(a) \/ TriggerMarks(a)
             \/ (\E q \in Row : RelinkChecks(a, q)) \/ RequestDies(a)
      PROVE  Goal
  BY <1>4, <1>6 DEF UploadCreates, TriggerChecks, TriggerMarks, RelinkChecks, RequestDies,
                    table, vars, worker, trail
<1>7. ASSUME NEW a \in Request, RelinkWrites(a) PROVE Goal
  <2>1. /\ UNCHANGED <<kind, held, step, todo, applied, cut>>
        /\ rowStatus' = [rowStatus EXCEPT ![reqRow[a]] = "VALID"] /\ reqRow[a] \in relinked'
    BY <1>7 DEF RelinkWrites, vars, worker, handler
  <2>2. rowStatus'[r] = rowStatus[r] /\ CommitJobs' = CommitJobs
    BY <2>1, <1>t DEF CommitJobs
  <2> QED
    BY <1>1, <2>1, <2>2, MayApplyFrame
\* the handlers
<1>8. ASSUME NEW w \in Worker, ValidateWritesRows(w) \/ ValidateRejects(w) PROVE Goal
  <2>1. /\ HandlerCommits(w) /\ kind[held[w]] = "validate"
        /\ rowStatus[r] = "ABSENT" \/ UNCHANGED rowStatus
        /\ UNCHANGED <<kind, handler, applied, cut>>
    BY <1>8 DEF ValidateWritesRows, ValidateRejects, Runs, RowsInsertable, trail
  <2>2. step[w] = "begin" /\ todo[w] = {}
    BY <2>1, <1>t DEF HandlersTyped
  <2>3. CommitJobs' = CommitJobs
    BY <2>1 DEF CommitJobs
  <2>4. \A v \in Worker \ {w} : held'[v] = held[v]
    BY <2>1, <1>t, RunCommits
  <2>5. MayYetApply(r)' \subseteq MayYetApply(r)
    BY <2>1, <2>2, <2>3, <2>4, MayApplyFrame DEF handler
  <2> QED
    BY <1>1, <2>1, <2>5
<1>9. ASSUME NEW w \in Worker, CommitReads(w) \/ CommitMarks(w) PROVE Goal
  <2>1. /\ UNCHANGED <<kind, rowStatus, held, todo, applied, cut>>
        /\ step[w] \notin {"applied", "failed"}
        /\ \A v \in Worker \ {w} : step'[v] = step[v]
    BY <1>9, <1>t DEF CommitReads, CommitMarks, Goes, table, vars, worker, trail
  <2>2. CommitJobs' = CommitJobs
    BY <2>1 DEF CommitJobs
  <2>3. MayYetApply(r)' \subseteq MayYetApply(r)
    BY <2>1, <2>2, MayApplyFrame
  <2> QED
    BY <1>1, <2>1, <2>3
<1>10. ASSUME NEW w \in Worker, CommitLists(w) PROVE Goal
  <2>1. /\ UNCHANGED <<kind, rowStatus, held, applied, cut>> /\ step[w] = "list"
        /\ todo'[w] = {q \in Row : ToCommit(q)}
        /\ \A v \in Worker \ {w} : step'[v] = step[v] /\ todo'[v] = todo[v]
    BY <1>10, <1>t DEF CommitLists, Goes, table, vars, worker, trail
  <2>2. CommitJobs' = CommitJobs
    BY <2>1 DEF CommitJobs
  <2>3. r \in todo'[w] => rowStatus[r] = "VALID"
    BY <2>1 DEF ToCommit
  <2>4. ASSUME NEW v \in Worker, Applying(v, r) PROVE Applying(v, r)'
    BY <2>1, <2>4, CurrentKept DEF Applying
  <2>5. MayYetApply(r)' \subseteq MayYetApply(r)
    BY <2>1, <2>2, <2>3, <2>4 DEF MayYetApply
  <2> QED
    BY <1>1, <2>1, <2>5
<1>11. ASSUME NEW w \in Worker, RowResolves(w) PROVE Goal
  <2>1. /\ UNCHANGED <<kind, rowStatus, held, todo, cut>> /\ step[w] = "rows" /\ todo[w] # {}
        /\ \A v \in Worker \ {w} : step'[v] = step[v] /\ todo'[v] = todo[v]
        /\ held[w] \in CommitJobs
    <3>1. held[w] \in Job /\ kind[held[w]] = "commit"
      BY <1>11, <1>t DEF RowResolves, Runs, TypeOK, Busy
    <3> QED
      BY <1>11, <3>1, <1>t DEF RowResolves, Goes, table, vars, worker, CommitJobs
  <2>2. CommitJobs' = CommitJobs
    BY <2>1 DEF CommitJobs
  <2>3. MayYetApply(r)' \subseteq MayYetApply(r)
    BY <2>1, <2>2, MayApplyFrame
  <2>4. \/ applied'[r] = applied[r]
        \/ applied'[r] = applied[r] + 1 /\ r = Current(w) /\ step'[w] = "applied"
    BY <1>11, <1>t DEF RowResolves, Goes
  <2>5. ASSUME applied'[r] = applied[r] + 1, r = Current(w), step'[w] = "applied" PROVE Goal
    <3>1. r \in todo[w]
      BY <2>1, <2>5, <1>t, CurrentListed
    <3>2. \A v \in Worker : held[v] = held[w] => ~Applying(v, r)
      BY <2>1, <1>a DEF Applying
    <3>3. held[w] \in MayYetApply(r)
      BY <2>1, <3>1, <3>2 DEF MayYetApply
    <3>4. Applying(w, r)'
      BY <2>1, <2>5, CurrentKept DEF Applying
    <3>5. held[w] \notin MayYetApply(r)'
      BY <2>1, <3>4 DEF MayYetApply
    <3> QED
      BY <1>3, <2>1, <2>3, <2>5, <3>3, <3>5
  <2> QED
    BY <1>1, <2>1, <2>3, <2>4, <2>5
<1>12. ASSUME NEW w \in Worker, RowMarks(w) PROVE Goal
  <2>1. /\ UNCHANGED <<kind, held, applied, cut>> /\ held[w] \in CommitJobs
        /\ rowStatus' = [rowStatus EXCEPT ![Current(w)] = RowMark(step[w])]
        /\ todo'[w] = todo[w] \ {Current(w)} /\ step'[w] = "rows"
        /\ \A v \in Worker \ {w} : step'[v] = step[v] /\ todo'[v] = todo[v]
    <3>1. held[w] \in Job /\ kind[held[w]] = "commit"
      BY <1>12, <1>t DEF RowMarks, Runs, TypeOK, Busy
    <3> QED
      BY <1>12, <3>1, <1>t DEF RowMarks, Rest, Goes, vars, worker, trail, CommitJobs
  <2>2. CommitJobs' = CommitJobs
    BY <2>1 DEF CommitJobs
  <2>3. RowMark(step[w]) \notin {"ABSENT", "VALID"}
    BY <1>12 DEF RowMarks, RowMark
  <2>4. ASSUME NEW v \in Worker, v # w, Applying(v, r) PROVE Applying(v, r)'
    BY <2>1, <2>4, CurrentKept DEF Applying
  <2>5. CASE r = Current(w)
    <3>1. rowStatus'[r] \notin {"ABSENT", "VALID"} /\ r \notin todo'[w]
      BY <2>1, <2>3, <2>5, <1>t
    <3>2. ASSUME NEW j \in MayYetApply(r)' PROVE j \in MayYetApply(r)
      <4>1. PICK v \in Worker : held[v] = j /\ r \in todo[v] /\ v # w
        BY <2>1, <3>1, <3>2 DEF MayYetApply
      <4>2. j # held[w]
        BY <2>1, <4>1, <1>a
      <4>3. \A u \in Worker : held[u] = j => ~Applying(u, r)
        BY <2>1, <2>4, <3>2, <4>2 DEF MayYetApply
      <4> QED
        BY <2>2, <3>2, <4>1, <4>3 DEF MayYetApply
    <3> QED
      BY <1>1, <2>1, <3>2
  <2>6. CASE r # Current(w)
    <3>1. rowStatus'[r] = rowStatus[r] /\ \A v \in Worker : r \in todo'[v] => r \in todo[v]
      BY <2>1, <2>6, <1>t
    <3>2. ~Applying(w, r)
      BY <2>6 DEF Applying
    <3>3. MayYetApply(r)' \subseteq MayYetApply(r)
      BY <2>1, <2>2, <2>4, <3>1, <3>2 DEF MayYetApply
    <3> QED
      BY <1>1, <2>1, <3>3
  <2> QED
    BY <2>5, <2>6 DEF Goal
<1>13. ASSUME NEW w \in Worker, MarkErrors(w) PROVE Goal
  <2>1. /\ UNCHANGED <<kind, rowStatus, held, todo, applied, cut>>
        /\ step' = [step EXCEPT ![w] = "failed"]
    BY <1>13 DEF MarkErrors, Goes, table, worker, trail
  <2>2. CommitJobs' = CommitJobs
    BY <2>1 DEF CommitJobs
  <2>3. MayYetApply(r)' \subseteq MayYetApply(r)
    BY <2>1, <2>2, <1>t, MayApplyFrame
  <2> QED
    BY <1>1, <2>1, <2>3
<1>14. ASSUME NEW w \in Worker, CommitFinishes(w) PROVE Goal
  <2>1. /\ UNCHANGED <<kind, rowStatus, applied, cut>> /\ step[w] = "rows" /\ todo'[w] = {}
        /\ \A v \in Worker \ {w} : /\ step'[v] = step[v] /\ todo'[v] = todo[v]
                                   /\ held'[v] = held[v]
    BY <1>14, <1>t, RunCommits DEF CommitFinishes, Leave, trail
  <2>2. CommitJobs' = CommitJobs
    BY <2>1 DEF CommitJobs
  <2>3. MayYetApply(r)' \subseteq MayYetApply(r)
    BY <2>1, <2>2, MayApplyFrame
  <2> QED
    BY <1>1, <2>1, <2>3
<1>15. ASSUME NEW w \in Worker, HandlerErrors(w) \/ WorkerStops(w) \/ DispatchAbandons(w)
       PROVE  Goal
  <2>1. /\ UNCHANGED <<kind, rowStatus, applied>> /\ todo'[w] = {} /\ Interrupted(w)
        /\ \A v \in Worker \ {w} : /\ step'[v] = step[v] /\ todo'[v] = todo[v]
                                   /\ held'[v] = held[v]
    BY <1>15, <1>t, RunEnds DEF Interrupted, Leave, table
  <2>2. CommitJobs' = CommitJobs
    BY <2>1 DEF CommitJobs
  <2>3. cut'[r] = cut[r] \/ cut'[r] = cut[r] + 1
    BY <2>1, <1>t DEF Interrupted
  <2>4. CASE Applying(w, r)
    <3>1. Runs(w, "commit") /\ step[w] \in {"applied", "failed"} /\ r = Current(w)
      BY <2>4, <1>t DEF Applying, HandlersTyped, Runs
    <3>2. cut'[r] = cut[r] + 1
      BY <2>1, <3>1, <1>t DEF Interrupted
    <3>3. ASSUME NEW j \in MayYetApply(r)', j # held[w] PROVE j \in MayYetApply(r)
      <4>1. ASSUME NEW v \in Worker, held[v] = j, Applying(v, r) PROVE FALSE
        <5>1. v # w
          BY <3>3, <4>1
        <5>2. held'[v] = j /\ Applying(v, r)'
          BY <2>1, <4>1, <5>1, CurrentKept DEF Applying
        <5> QED
          BY <3>3, <5>2 DEF MayYetApply
      <4>2. ASSUME NEW v \in Worker, held'[v] = j, r \in todo'[v] PROVE held[v] = j /\ r \in todo[v]
        BY <2>1, <4>2
      <4> QED
        BY <2>1, <2>2, <3>3, <4>1, <4>2 DEF MayYetApply
    <3> QED
      BY <1>2, <2>1, <3>2, <3>3
  <2>5. CASE ~Applying(w, r)
    <3>1. ASSUME NEW v \in Worker, Applying(v, r) PROVE held'[v] = held[v] /\ Applying(v, r)'
      <4>1. v # w
        BY <2>5, <3>1
      <4> QED
        BY <2>1, <3>1, <4>1, CurrentKept DEF Applying
    <3>2. ASSUME NEW v \in Worker, r \in todo'[v] PROVE held[v] = held'[v] /\ r \in todo[v]
      BY <2>1, <3>2
    <3>3. MayYetApply(r)' \subseteq MayYetApply(r)
      BY <2>1, <2>2, <3>1, <3>2 DEF MayYetApply
    <3>4. MayYetApply(r)' \subseteq MayYetApply(r) \cup {held[w]}
      BY <3>3
    <3> QED
      BY <1>1, <1>2, <2>1, <2>3, <3>3, <3>4
  <2> QED
    BY <2>4, <2>5 DEF Goal
<1>16. ASSUME QueueStep PROVE Goal
  <2>1. UNCHANGED <<kind, rowStatus, applied, cut>>
    BY <1>16 DEF QueueStep, table, trail
  <2>2. CommitJobs' = CommitJobs
    BY <2>1 DEF CommitJobs
  <2>3. MayYetApply(r)' \subseteq MayYetApply(r)
    BY <1>16, <2>1, <2>2, QueueStepCalls, MayApplyFrame
  <2> QED
    BY <1>1, <2>1, <2>3
<1>17. ASSUME (\E q \in Row : EntityAppears(q)) \/ UNCHANGED importVars PROVE Goal
  BY <1>4, <1>17 DEF EntityAppears, importVars, table, vars, worker, trail
<1>18. ASSUME NEW w \in Worker, BatchHandlerStep(w) PROVE Goal
  BY <1>18, <1>8, <1>9, <1>10, <1>11, <1>12, <1>14 DEF BatchHandlerStep
<1>19. Goal
  BY <1>5, <1>6, <1>7, <1>13, <1>15, <1>16, <1>17, <1>18, Zenon DEF ImportNext
<1> QED
  BY <1>19 DEF Goal

\* Unless a commit job is taken from a live worker, each commit job writes a
\* row's entities once, and once more for every run of it that was interrupted
\* between the writes and the mark; for any rows, workers, requests and jobs.
THEOREM AppliedOnceHolds == ImportSpec => []AppliedOnce
<1>1. ImportInit => AppliedBounded
  <2> SUFFICES ASSUME ImportInit, NEW r \in Row
               PROVE  applied[r] + Cardinality(MayYetApply(r)) <= Cardinality(CommitJobs) + cut[r]
    BY DEF AppliedBounded
  <2>1. CommitJobs = {}
    BY DEF ImportInit, CommitJobs
  <2>2. MayYetApply(r) = {}
    BY <2>1 DEF MayYetApply
  <2> QED
    BY <2>1, <2>2, FS_EmptySet DEF ImportInit
<1>2. ImportTyped /\ AppliedBounded /\ [ImportNext]_importVars => ImportTyped' /\ AppliedBounded'
  BY ImportTypedStep, AppliedStep
<1>3. ImportTyped /\ AppliedBounded => AppliedOnce
  <2> SUFFICES ASSUME ImportTyped, AppliedBounded, \A j \in CommitJobs : stolen[j] = 0,
                      NEW r \in Row \ relinked
               PROVE  applied[r] <= Cardinality(CommitJobs) + cut[r]
    BY DEF AppliedOnce
  <2>1. applied[r] \in Nat /\ cut[r] \in Nat
    BY DEF ImportTyped, ImportTypeOK
  <2>2. IsFiniteSet(CommitJobs) /\ IsFiniteSet(MayYetApply(r))
    BY FS_Subset DEF ImportTyped, JobsTyped, MayYetApply
  <2>3. Cardinality(MayYetApply(r)) \in Nat /\ Cardinality(CommitJobs) \in Nat
    BY <2>2, FS_CardinalityType
  <2>4. applied[r] + Cardinality(MayYetApply(r)) <= Cardinality(CommitJobs) + cut[r]
    BY DEF AppliedBounded
  <2> QED
    BY ONLY <2>1, <2>3, <2>4
<1> QED
  BY <1>1, <1>2, <1>3, ImportTypedInit, PTL DEF ImportSpec

-----------------------------------------------------------------------------
(***************************************************************************)
(* What committed_rows says, as long as one commit job does the work and   *)
(* nobody takes it from its worker or relinks a row.                       *)
(***************************************************************************)
CommittedRows == {r \in Row : rowStatus[r] = "COMMITTED"}
Calm == Undisturbed /\ relinked = {}

\* The rows a run has still to process are VALID: nobody else marks rows.
TodoValid == \A w \in Worker : \A r \in todo[w] : rowStatus[r] = "VALID"

\* A run counts rows that are COMMITTED, on the first attempt all of them.
CountsOwn(w) ==
    /\ done[w] <= Cardinality(CommittedRows)
    /\ attempts[held[w]] = 1 => done[w] = Cardinality(CommittedRows)

CountedInRun ==
    /\ (\A j \in CommitJobs : attempts[j] = 0) => CommittedRows = {}
    /\ \A w \in Worker : held[w] \in CommitJobs =>
        /\ attempts[held[w]] >= 1
        /\ pc[w] \in {"claimed", "running"} => CountsOwn(w)

\* What was counted stays true: the job that committed the batch runs no more.
CountedAfter ==
    batch = "COMMITTED" =>
        /\ \E j \in CommitJobs : committed[j] >= 1
        /\ counted <= Cardinality(CommittedRows)
        /\ (\A j \in CommitJobs : attempts[j] = 1) => counted = Cardinality(CommittedRows)

CountInv == Calm => TodoValid /\ CountedInRun /\ CountedAfter

LEMMA CalmBack ==
  ASSUME ImportTyped, [ImportNext]_importVars, Calm'
  PROVE  Calm
<1>1. IsFiniteSet(CommitJobs) /\ IsFiniteSet(CommitJobs')
  BY ImportTypedStep DEF ImportTyped, JobsTyped
<1>2. Cardinality(CommitJobs) <= 1
  <2>1. /\ Cardinality(CommitJobs) \in Nat /\ Cardinality(CommitJobs') \in Nat
        /\ Cardinality(CommitJobs) <= Cardinality(CommitJobs')
    BY <1>1, CommitJobsGrow, FS_CardinalityType, FS_Subset
  <2> QED
    BY <2>1 DEF Calm, Undisturbed
<1>3. \A j \in CommitJobs : stolen[j] = 0
  BY CommitJobsGrow, JobsStep, ImportRuns DEF Calm, Undisturbed, CommitJobs, ImportTyped
<1> QED
  BY <1>2, <1>3, RowsStay DEF Calm, Undisturbed

LEMMA OneCommitJob ==
  ASSUME JobsTyped, Undisturbed, NEW i \in CommitJobs, NEW j \in CommitJobs PROVE i = j
<1> SUFFICES ASSUME i # j PROVE FALSE
  OBVIOUS
<1>1. IsFiniteSet({i}) /\ Cardinality({i}) = 1 /\ j \notin {i}
  BY FS_Singleton
<1>2. IsFiniteSet({i} \cup {j}) /\ Cardinality({i} \cup {j}) = 2
  BY <1>1, FS_AddElement
<1>3. Cardinality({i} \cup {j}) <= Cardinality(CommitJobs) /\ Cardinality(CommitJobs) \in Nat
  BY <1>2, FS_Subset, FS_CardinalityType DEF JobsTyped
<1> QED
  BY <1>2, <1>3 DEF Undisturbed

\* The commit job has one holder, is PROCESSING while it has it, and has not
\* committed; a job that waits to be claimed has not committed either.
LEMMA CommitAlone ==
  ASSUME ImportTyped, Undisturbed, NEW w \in Worker, held[w] \in CommitJobs
  PROVE  /\ status[held[w]] = "PROCESSING"
         /\ \A v \in Worker : held[v] \in CommitJobs => v = w
         /\ \A j \in CommitJobs : ~(committed[j] >= 1)
<1>t. /\ TypeOK /\ PermitsBounded /\ CompletedCommitted /\ JobsTyped
      /\ held[w] \in Job /\ stolen[held[w]] = 0
  BY DEF ImportTyped, JobsKept, QueueInv, CommitJobs, Undisturbed
<1>1. status[held[w]] = "PROCESSING" /\ \A v \in Worker : held[v] = held[w] => v = w
  BY <1>t, Alone
<1>2. ~(committed[held[w]] >= 1)
  <2>1. /\ committed[held[w]] \in Nat /\ Cardinality(Holders(held[w])) \in Nat
        /\ Holders(held[w]) # {}
        /\ committed[held[w]] + Permits(held[w]) <= 1 + 0
    BY <1>t, HoldersFinite DEF TypeOK, PermitsBounded, Holders
  <2>2. Cardinality(Holders(held[w])) >= 1
    BY <2>1, NoHolders
  <2> QED
    BY <2>1, <2>2 DEF Permits
<1> QED
  BY <1>1, <1>2, <1>t, OneCommitJob

LEMMA PendingUncommitted ==
  ASSUME ImportTyped, Undisturbed, NEW j \in CommitJobs, status[j] = "PENDING"
  PROVE  \A i \in CommitJobs : ~(committed[i] >= 1)
<1>1. /\ TypeOK /\ PermitsBounded /\ JobsTyped /\ j \in Job /\ stolen[j] = 0
  BY DEF ImportTyped, JobsKept, QueueInv, CommitJobs, Undisturbed
<1>2. /\ committed[j] \in Nat /\ Cardinality(Holders(j)) \in Nat
      /\ committed[j] + Permits(j) <= 1 + 0
  BY <1>1, HoldersFinite DEF TypeOK, PermitsBounded
<1>3. Permits(j) = Cardinality(Holders(j)) + 1
  BY DEF Permits, Idle
<1>4. ~(committed[j] >= 1)
  BY <1>2, <1>3
<1> QED
  BY <1>1, <1>4, OneCommitJob

\* A step that marks no row, counts none and claims no job.
LEMMA RunFrame ==
  ASSUME CommitJobs' = CommitJobs, CommittedRows' = CommittedRows, CountedInRun,
         \A j \in CommitJobs : attempts'[j] = attempts[j],
         \A w \in Worker : held'[w] \in CommitJobs =>
            /\ held'[w] = held[w]
            /\ pc'[w] \in {"claimed", "running"} =>
                pc[w] \in {"claimed", "running"} /\ done'[w] = done[w]
  PROVE  CountedInRun'
BY DEF CountedInRun, CountsOwn

LEMMA AfterFrame ==
  ASSUME CommitJobs' = CommitJobs, CommittedRows' = CommittedRows, CountedAfter,
         \A j \in CommitJobs : attempts'[j] = attempts[j],
         batch' = "COMMITTED" => batch = "COMMITTED" /\ counted' = counted,
         \A j \in CommitJobs : committed[j] >= 1 => committed'[j] >= 1
  PROVE  CountedAfter'
BY DEF CountedAfter

\* A claim that commits: its worker takes the job up, or has died of the answer.
Claims(w) ==
    /\ locked[w] \in Job /\ pc[w] # "running" /\ MarkClaimed(locked[w])
    /\ \/ held' = held /\ pc'[w] = "sleep"
       \/ held' = [held EXCEPT ![w] = locked[w]] /\ pc'[w] = "claimed"
    /\ \A v \in Worker \ {w} : pc'[v] = pc[v]

\* Only a claim counts an attempt and gives a worker a job.
LEMMA QueueStepClaims ==
  ASSUME TypeOK, QueueStep
  PROVE  /\ UNCHANGED committed
         /\ \/ /\ UNCHANGED attempts
               /\ \A v \in Worker : /\ held'[v] \in {held[v], NoJob}
                                    /\ pc'[v] \in {"claimed", "running"} => pc[v] \in {"claimed", "running"}
            \/ \E w \in Worker : Claims(w)
<1> DEFINE Quiet == /\ UNCHANGED <<attempts, committed>>
                    /\ \A v \in Worker : /\ held'[v] \in {held[v], NoJob}
                                         /\ pc'[v] \in {"claimed", "running"} => pc[v] \in {"claimed", "running"}
<1> USE DEF TypeOK
<1>1. ASSUME NEW j \in Job, BackoffElapses(j) \/ ClaimAges(j) \/ HandlerOverruns(j)
      PROVE  Quiet
  BY <1>1 DEF BackoffElapses, ClaimAges, HandlerOverruns, worker, history
<1>2. ASSUME NEW w \in Worker,
             \/ Start(w) \/ Tick(w) \/ TickReclaimFails(w) \/ LockNext(w) \/ NothingToClaim(w)
             \/ BeginHandler(w) \/ FailReads(w) \/ FailWrites(w)
      PROVE  Quiet
  <2>1. UNCHANGED <<attempts, committed>>
    BY <1>2 DEF Start, Tick, TickReclaimFails, LockNext, NothingToClaim, BeginHandler, FailReads,
                FailWrites, row, history
  <2>2. \A v \in Worker : held'[v] \in {held[v], NoJob}
    BY <1>2 DEF Start, Tick, TickReclaimFails, LockNext, NothingToClaim, BeginHandler, FailReads,
                FailWrites, Release
  <2>3. \A v \in Worker : pc'[v] \in {"claimed", "running"} => pc[v] \in {"claimed", "running"}
    BY <1>2 DEF Start, Tick, TickReclaimFails, LockNext, NothingToClaim, BeginHandler, FailReads,
                FailWrites, Release
  <2> QED
    BY <2>1, <2>2, <2>3
<1>3. ASSUME NEW w \in Worker, CommitClaim(w) PROVE UNCHANGED committed /\ Claims(w)
  BY <1>3 DEF CommitClaim, Claims, history
<1>4. ASSUME NEW w \in Worker, ClaimErrors(w)
      PROVE  Quiet \/ (UNCHANGED committed /\ Claims(w))
  BY <1>4 DEF ClaimErrors, Claims, history
<1> HIDE DEF Quiet
<1>5. ASSUME NEW w \in Worker,
             \/ Start(w) \/ Tick(w) \/ TickReclaimFails(w) \/ LockNext(w)
             \/ CommitClaim(w) \/ NothingToClaim(w) \/ ClaimErrors(w)
             \/ BeginHandler(w) \/ FailReads(w) \/ FailWrites(w)
      PROVE  Quiet \/ (UNCHANGED committed /\ Claims(w))
  BY <1>5, <1>2, <1>3, <1>4, Zenon
<1>6. Quiet \/ (UNCHANGED committed /\ \E w \in Worker : Claims(w))
  BY <1>1, <1>5, Zenon DEF QueueStep
<1> QED
  BY <1>6 DEF Quiet

LEMMA TodoStep ==
  ASSUME ImportTyped, Calm, TodoValid, RowsPresent, relinked' = {}, [ImportNext]_importVars
  PROVE  TodoValid'
<1>t. /\ HandlersTyped /\ TypeOK /\ step \in [Worker -> HandlerSteps]
      /\ todo \in [Worker -> SUBSET Row] /\ rowStatus \in [Row -> RowStatuses]
  BY DEF ImportTyped, JobsKept, QueueInv, ImportTypeOK
<1>1. ASSUME UNCHANGED rowStatus, \A w \in Worker : todo'[w] \subseteq todo[w] PROVE TodoValid'
  BY <1>1 DEF TodoValid
<1>2. ASSUME NEW w \in Worker, CommitLists(w) PROVE TodoValid'
  BY <1>2, <1>t DEF CommitLists, TodoValid, ToCommit, table
<1>3. ASSUME NEW w \in Worker, RowMarks(w) PROVE TodoValid'
  <2>1. held[w] \in CommitJobs /\ todo[w] # {}
    BY <1>3, <1>t DEF RowMarks, Runs, TypeOK, Busy, CommitJobs, HandlersTyped
  <2>2. ASSUME NEW v \in Worker, v # w PROVE todo[v] = {}
    <3>1. held[v] \notin CommitJobs
      BY <2>1, <2>2, CommitAlone DEF Calm
    <3>2. step[v] = "begin"
      BY <3>1, <1>t DEF HandlersTyped, CommitJobs, TypeOK, Busy
    <3> QED
      BY <3>2, <1>t DEF HandlersTyped
  <2>3. /\ todo'[w] = todo[w] \ {Current(w)}
        /\ \A v \in Worker \ {w} : todo'[v] = todo[v]
        /\ \A r \in Row \ {Current(w)} : rowStatus'[r] = rowStatus[r]
    BY <1>3, <1>t DEF RowMarks, Rest
  <2> QED
    BY <2>2, <2>3, <1>t DEF TodoValid
<1>4. ASSUME NEW a \in Request, RelinkWrites(a) PROVE FALSE
  BY <1>4 DEF RelinkWrites
<1>5. ASSUME NEW w \in Worker, ValidateWritesRows(w) PROVE TodoValid'
  <2>1. \A r \in Row : rowStatus[r] = "ABSENT"
    BY <1>5 DEF ValidateWritesRows, RowsInsertable
  <2>2. \A v \in Worker : todo[v] = {}
    BY <2>1, <1>t DEF TodoValid
  <2> QED
    BY <2>2, <1>5 DEF ValidateWritesRows, handler, TodoValid
<1>6. ASSUME NEW w \in Worker,
             \/ ValidateRejects(w) \/ CommitReads(w) \/ CommitMarks(w) \/ RowResolves(w) \/ MarkErrors(w)
      PROVE  TodoValid'
  BY <1>6, <1>1 DEF ValidateRejects, CommitReads, CommitMarks, RowResolves, MarkErrors, handler, table
<1>7. ASSUME NEW w \in Worker,
             CommitFinishes(w) \/ HandlerErrors(w) \/ WorkerStops(w) \/ DispatchAbandons(w)
      PROVE  TodoValid'
  <2>1. Leave(w) /\ UNCHANGED rowStatus
    BY <1>7 DEF CommitFinishes, HandlerErrors, WorkerStops, DispatchAbandons, Interrupted, table
  <2> QED
    BY <2>1, <1>1, <1>t DEF Leave
<1>8. ASSUME NEW a \in Request,
             \/ UploadCreates(a) \/ UploadEnqueues(a)
             \/ TriggerChecks(a) \/ TriggerEnqueues(a) \/ TriggerMarks(a)
             \/ (\E r \in Row : RelinkChecks(a, r)) \/ RequestDies(a)
      PROVE  TodoValid'
  BY <1>8, <1>1 DEF UploadCreates, UploadEnqueues, TriggerChecks, TriggerEnqueues, TriggerMarks,
              RelinkChecks, RequestDies, table, handler
<1>9. ASSUME QueueStep \/ (\E r \in Row : EntityAppears(r)) \/ UNCHANGED importVars
      PROVE  TodoValid'
  BY <1>9, <1>1 DEF QueueStep, EntityAppears, importVars, table, handler
<1>10. ASSUME NEW w \in Worker, BatchHandlerStep(w) PROVE TodoValid'
  BY <1>10, <1>2, <1>3, <1>5, <1>6, <1>7 DEF BatchHandlerStep
<1> QED
  BY <1>4, <1>6, <1>7, <1>8, <1>9, <1>10, Zenon DEF ImportNext

LEMMA MarkCounts ==
  ASSUME ImportTyped, Calm, TodoValid, CountedInRun, CountedAfter, NEW w \in Worker, RowMarks(w)
  PROVE  CountedInRun' /\ CountedAfter'
<1>t. /\ HandlersTyped /\ TypeOK /\ todo \in [Worker -> SUBSET Row]
      /\ done \in [Worker -> Nat] /\ rowStatus \in [Row -> RowStatuses]
  BY RowsFinite DEF ImportTyped, JobsKept, QueueInv, ImportTypeOK
<1>1. /\ pc[w] = "running" /\ held[w] \in CommitJobs /\ todo[w] # {}
      /\ UNCHANGED <<kind, held, pc, attempts, batch, counted, committed>>
      /\ rowStatus' = [rowStatus EXCEPT ![Current(w)] = RowMark(step[w])]
      /\ done'[w] = IF Counts(step[w]) THEN done[w] + 1 ELSE done[w]
  BY <1>t DEF RowMarks, Runs, TypeOK, Busy, CommitJobs, HandlersTyped, vars, row, worker, history
<1>2. /\ \A v \in Worker : held[v] \in CommitJobs => v = w
      /\ \A j \in CommitJobs : ~(committed[j] >= 1)
  BY <1>1, CommitAlone DEF Calm
<1>3. CommitJobs' = CommitJobs
  BY <1>1 DEF CommitJobs
<1>4. Current(w) \in todo[w] /\ Current(w) \in Row /\ rowStatus[Current(w)] = "VALID"
  BY <1>1, <1>t, CurrentListed DEF TodoValid
<1>5. CountedAfter'
  BY <1>1, <1>2 DEF CountedAfter
<1>6. /\ IsFiniteSet(CommittedRows) /\ Cardinality(CommittedRows) \in Nat /\ done[w] \in Nat
  BY RowsFinite, <1>t DEF CommittedRows
<1>7. attempts[held[w]] >= 1 /\ CountsOwn(w) /\ attempts[held[w]] \in Nat
  BY <1>1, <1>t DEF CountedInRun, TypeOK, CommitJobs
<1>8. CountsOwn(w)'
  <2>1. CASE step[w] = "applied"
    <3>1. CommittedRows' = CommittedRows \cup {Current(w)} /\ Current(w) \notin CommittedRows
      BY <2>1, <1>1, <1>4, <1>t DEF CommittedRows, RowMark
    <3>2. Cardinality(CommittedRows') = Cardinality(CommittedRows) + 1
      BY <3>1, <1>6, FS_AddElement
    <3>3. done'[w] = done[w] + 1
      BY <2>1, <1>1 DEF Counts
    <3> QED
      BY <3>2, <3>3, <1>1, <1>6, <1>7 DEF CountsOwn
  <2>2. CASE step[w] # "applied"
    <3>1. RowMark(step[w]) # "COMMITTED"
      BY <2>2 DEF RowMarks, RowMark
    <3>2. CommittedRows' = CommittedRows
      BY <3>1, <1>1, <1>4, <1>t DEF CommittedRows
    <3>3. done'[w] = done[w]
      BY <2>2, <1>1 DEF Counts
    <3> QED
      BY <3>2, <3>3, <1>1, <1>7 DEF CountsOwn
  <2> QED
    BY <2>1, <2>2
<1>9. ~(attempts[held[w]] = 0)
  BY <1>7
<1>10. CountedInRun'
  BY <1>1, <1>2, <1>3, <1>7, <1>8, <1>9 DEF CountedInRun
<1> QED
  BY <1>5, <1>10

LEMMA ClaimCounts ==
  ASSUME ImportTyped, Calm, CountedInRun, CountedAfter, QueueStep
  PROVE  CountedInRun' /\ CountedAfter'
<1>t. /\ HandlersTyped /\ TypeOK /\ ClaimsExclusive /\ JobsTyped
  BY DEF ImportTyped, JobsKept, QueueInv
<1>0. /\ UNCHANGED <<kind, batch, counted, rowStatus, done, committed>>
  BY <1>t, QueueStepClaims DEF QueueStep, table, handler
<1>1. CommitJobs' = CommitJobs /\ CommittedRows' = CommittedRows
  BY <1>0 DEF CommitJobs, CommittedRows
<1>j. NoJob \notin CommitJobs
  BY JobAssumption DEF CommitJobs
<1>2. ASSUME UNCHANGED attempts,
             \A v \in Worker : /\ held'[v] \in {held[v], NoJob}
                               /\ pc'[v] \in {"claimed", "running"} => pc[v] \in {"claimed", "running"}
      PROVE  CountedInRun' /\ CountedAfter'
  <2>1. CountedInRun'
    BY <1>0, <1>1, <1>2, <1>j, RunFrame
  <2>2. CountedAfter'
    BY <1>0, <1>1, <1>2, AfterFrame
  <2> QED
    BY <2>1, <2>2
<1>3. ASSUME NEW w \in Worker, Claims(w), locked[w] \notin CommitJobs
      PROVE  CountedInRun' /\ CountedAfter'
  <2>1. \A j \in CommitJobs : attempts'[j] = attempts[j]
    BY <1>3, <1>t DEF Claims, MarkClaimed, TypeOK, CommitJobs
  <2>2. \A v \in Worker : held'[v] \in CommitJobs =>
            held'[v] = held[v] /\ (pc'[v] \in {"claimed", "running"} => pc[v] \in {"claimed", "running"})
    BY <1>3, <1>t DEF Claims, TypeOK
  <2>3. CountedInRun'
    BY <1>0, <1>1, <2>1, <2>2, RunFrame
  <2>4. CountedAfter'
    BY <1>0, <1>1, <2>1, AfterFrame
  <2> QED
    BY <2>3, <2>4
<1>4. ASSUME NEW w \in Worker, Claims(w), locked[w] \in CommitJobs
      PROVE  CountedInRun' /\ CountedAfter'
  <2> DEFINE j == locked[w]
  <2>1. status[j] = "PENDING" /\ j \in Job /\ attempts[j] \in Nat /\ attempts'[j] = attempts[j] + 1
    BY <1>4, <1>t, JobAssumption DEF Claims, MarkClaimed, TypeOK, ClaimsExclusive
  <2>2. \A i \in CommitJobs : i = j /\ ~(committed[i] >= 1)
    BY <1>4, <2>1, <1>t, OneCommitJob, PendingUncommitted DEF Calm
  <2>3. \A v \in Worker : held[v] \notin CommitJobs
    BY <2>1, <2>2, CommitAlone DEF Calm
  <2>4. CountedAfter'
    BY <1>0, <2>2 DEF CountedAfter
  <2>5. \A v \in Worker : held'[v] \in CommitJobs => v = w /\ held'[w] = j
    BY <1>4, <2>3, <1>t DEF Claims, TypeOK
  <2>6. done'[w] = 0
    BY <1>0, <1>4, <1>t DEF Claims, HandlersTyped
  <2>7. attempts'[j] >= 1 /\ attempts'[j] # 0 /\ (attempts'[j] = 1 => attempts[j] = 0)
    BY <2>1
  <2>8. attempts'[j] = 1 => CommittedRows = {}
    BY <2>2, <2>7 DEF CountedInRun
  <2>9. 0 <= Cardinality(CommittedRows) /\ Cardinality({}) = 0
    BY RowsFinite, FS_EmptySet DEF CommittedRows
  <2> HIDE DEF j
  <2>10. ASSUME NEW v \in Worker, held'[v] \in CommitJobs PROVE attempts'[held'[v]] >= 1 /\ CountsOwn(v)'
    BY <2>10, <1>1, <2>5, <2>6, <2>7, <2>8, <2>9 DEF CountsOwn
  <2>11. ~ \A i \in CommitJobs : attempts'[i] = 0
    BY <1>4, <2>7 DEF j
  <2>12. CountedInRun'
    BY <1>1, <2>10, <2>11 DEF CountedInRun
  <2> QED
    BY <2>4, <2>12
<1> QED
  BY <1>t, <1>2, <1>3, <1>4, QueueStepClaims

LEMMA EnqueueCounts ==
  ASSUME ImportTyped, Calm', CountedInRun, CountedAfter, [ImportNext]_importVars,
         NEW a \in Request, UploadEnqueues(a) \/ TriggerEnqueues(a)
  PROVE  CountedInRun' /\ CountedAfter'
<1>t. /\ TypeOK /\ PermitsBounded /\ CompletedCommitted /\ IsFiniteSet(CommitJobs)
  BY DEF ImportTyped, JobsKept, QueueInv, JobsTyped
<1>0. /\ UNCHANGED <<rowStatus, held, pc, done, attempts, batch, counted, committed, stolen>>
  <2>1. PICK j \in Job : Enqueue(j)
    BY DEF UploadEnqueues, TriggerEnqueues, EnqueueAs
  <2> QED
    BY <2>1 DEF UploadEnqueues, TriggerEnqueues, Enqueue, worker, handler, history
<1>1. CommittedRows' = CommittedRows
  BY <1>0 DEF CommittedRows
<1>2. ASSUME CommitJobs' = CommitJobs PROVE CountedInRun' /\ CountedAfter'
  <2>1. CountedInRun'
    BY <1>0, <1>1, <1>2, RunFrame
  <2>2. CountedAfter'
    BY <1>0, <1>1, <1>2, AfterFrame
  <2> QED
    BY <2>1, <2>2
<1>3. ASSUME NEW j \in Job, Enqueue(j), j \notin CommitJobs, CommitJobs' = CommitJobs \cup {j}
      PROVE  CountedInRun' /\ CountedAfter'
  <2>1. CommitJobs = {}
    <3>1. Cardinality(CommitJobs') = Cardinality(CommitJobs) + 1 /\ Cardinality(CommitJobs) \in Nat
      BY <1>3, <1>t, FS_AddElement, FS_CardinalityType
    <3>2. Cardinality(CommitJobs) = 0
      BY <3>1 DEF Calm, Undisturbed
    <3> QED
      BY <3>2, <1>t, FS_EmptySet
  <2>2. CommittedRows' = {} /\ batch' # "COMMITTED"
    BY <2>1, <1>0, <1>1 DEF CountedInRun, CountedAfter
  <2>3. stolen[j] = 0 /\ status[j] = "ABSENT"
    BY <1>0, <1>3 DEF Calm, Undisturbed, Enqueue
  <2>4. \A v \in Worker : held'[v] \notin CommitJobs'
    BY <2>1, <2>3, <1>0, <1>3, <1>t, Alone
  <2> QED
    BY <2>2, <2>4 DEF CountedInRun, CountedAfter
<1> QED
  BY <1>2, <1>3, CommitJobsGrow

LEMMA CountStep ==
  ASSUME ImportTyped, RowsPresent, CountInv, [ImportNext]_importVars
  PROVE  CountInv'
<1> SUFFICES ASSUME Calm' PROVE (TodoValid /\ CountedInRun /\ CountedAfter)'
  BY DEF CountInv
<1> DEFINE Goal == CountedInRun' /\ CountedAfter'
<1>c. Calm /\ TodoValid /\ CountedInRun /\ CountedAfter
  BY CalmBack DEF CountInv
<1>t. /\ HandlersTyped /\ TypeOK /\ JobsTyped /\ NoJob \notin CommitJobs
      /\ rowStatus \in [Row -> RowStatuses] /\ committed \in [Job -> Nat]
      /\ done \in [Worker -> Nat]
  BY JobAssumption, RowsFinite DEF ImportTyped, JobsKept, QueueInv, ImportTypeOK, TypeOK, CommitJobs
<1>g. \A j \in CommitJobs : committed[j] >= 1 => committed'[j] >= 1
  <2>1. ASSUME NEW j \in Job PROVE committed[j] >= 1 => committed'[j] >= 1
    <3>1. committed'[j] >= committed[j] /\ committed[j] \in Nat /\ committed'[j] \in Nat
      BY <1>t, JobsStep, ImportRuns, ImportTypedStep DEF ImportTyped, JobsKept, QueueInv, TypeOK
    <3> QED
      BY <3>1
  <2> QED
    BY <2>1 DEF CommitJobs
<1>1. TodoValid'
  BY <1>c, TodoStep DEF Calm
<1>2. ASSUME UNCHANGED <<kind, rowStatus, attempts, counted>>,
             batch' = "COMMITTED" => batch = "COMMITTED",
             \A v \in Worker : \/ held'[v] = held[v] /\ pc'[v] = pc[v] /\ done'[v] = done[v]
                               \/ /\ held'[v] \in {held[v], NoJob}
                                  /\ pc'[v] \notin {"claimed", "running"}
      PROVE  Goal
  <2>1. CommitJobs' = CommitJobs /\ CommittedRows' = CommittedRows
    BY <1>2 DEF CommitJobs, CommittedRows
  <2>2. CountedInRun'
    BY <1>2, <1>c, <1>t, <2>1, RunFrame
  <2>3. CountedAfter'
    BY <1>2, <1>c, <1>g, <2>1, AfterFrame
  <2> QED
    BY <2>2, <2>3
<1>3. ASSUME NEW w \in Worker, RowMarks(w) PROVE Goal
  BY <1>3, <1>c, MarkCounts
<1>4. ASSUME QueueStep PROVE Goal
  BY <1>4, <1>c, ClaimCounts
<1>5. ASSUME NEW a \in Request, UploadEnqueues(a) \/ TriggerEnqueues(a) PROVE Goal
  BY <1>5, <1>c, EnqueueCounts
<1>6. ASSUME NEW w \in Worker, ValidateWritesRows(w) PROVE Goal
  <2>1. /\ HandlerCommits(w) /\ batch' = "VALIDATED" /\ UNCHANGED <<kind, done>>
        /\ \A r \in Row : rowStatus[r] = "ABSENT" /\ rowStatus'[r] \in {"VALID", "INVALID"}
    BY <1>6 DEF ValidateWritesRows, RowsInsertable, handler
  <2>2. CommitJobs' = CommitJobs /\ CommittedRows' = CommittedRows
    BY <2>1 DEF CommitJobs, CommittedRows
  <2>3. /\ UNCHANGED attempts /\ held'[w] = NoJob
        /\ \A v \in Worker \ {w} : held'[v] = held[v] /\ pc'[v] = pc[v]
    BY <2>1, <1>t, RunCommits
  <2>4. CountedInRun'
    BY <2>1, <2>2, <2>3, <1>c, <1>t, RunFrame
  <2>5. CountedAfter'
    BY <2>1 DEF CountedAfter
  <2> QED
    BY <2>4, <2>5
<1>7. ASSUME NEW w \in Worker, CommitFinishes(w) PROVE Goal
  <2>1. /\ pc[w] = "running" /\ held[w] \in CommitJobs
        /\ HandlerCommits(w) /\ counted' = done[w] /\ UNCHANGED <<kind, rowStatus>>
        /\ \A v \in Worker \ {w} : done'[v] = done[v]
    BY <1>7, <1>t DEF CommitFinishes, Runs, TypeOK, Busy, CommitJobs, Leave
  <2>2. CommitJobs' = CommitJobs /\ CommittedRows' = CommittedRows
    BY <2>1 DEF CommitJobs, CommittedRows
  <2>3. /\ UNCHANGED attempts /\ held'[w] = NoJob /\ committed'[held[w]] >= 1
        /\ \A v \in Worker \ {w} : held'[v] = held[v] /\ pc'[v] = pc[v]
    BY <2>1, <1>t, RunCommits
  <2>4. CountedInRun'
    BY <2>1, <2>2, <2>3, <1>c, <1>t, RunFrame
  <2>5. CountsOwn(w)
    BY <2>1, <1>c DEF CountedInRun
  <2>6. CountedAfter'
    BY <2>1, <2>2, <2>3, <2>5 DEF CountedAfter, CountsOwn
  <2> QED
    BY <2>4, <2>6
<1>8. ASSUME NEW w \in Worker, ValidateRejects(w) PROVE Goal
  <2>1. /\ HandlerCommits(w) /\ batch' # "COMMITTED" /\ UNCHANGED <<kind, rowStatus, counted, done>>
    BY <1>8 DEF ValidateRejects, handler
  <2> QED
    BY <2>1, <1>2, <1>t, RunCommits
<1>9. ASSUME NEW w \in Worker,
             \/ CommitReads(w) \/ CommitMarks(w) \/ CommitLists(w) \/ RowResolves(w) \/ MarkErrors(w)
      PROVE  Goal
  BY <1>9, <1>2 DEF CommitReads, CommitMarks, CommitLists, RowResolves, MarkErrors, table, vars, row,
              worker
<1>10. ASSUME NEW w \in Worker, HandlerErrors(w) \/ WorkerStops(w) \/ DispatchAbandons(w)
       PROVE  Goal
  <2>1. /\ UNCHANGED <<kind, rowStatus, counted, batch>>
        /\ \A v \in Worker \ {w} : done'[v] = done[v]
    BY <1>10, <1>t DEF HandlerErrors, WorkerStops, DispatchAbandons, Interrupted, Leave, table
  <2> QED
    BY <1>10, <2>1, <1>2, <1>t, RunEnds
<1>11. ASSUME NEW a \in Request,
             \/ UploadCreates(a) \/ TriggerChecks(a) \/ TriggerMarks(a)
             \/ (\E r \in Row : RelinkChecks(a, r)) \/ RequestDies(a)
       PROVE  Goal
  BY <1>11, <1>2 DEF UploadCreates, TriggerChecks, TriggerMarks, RelinkChecks, RequestDies,
              table, vars, row, worker, handler
<1>12. ASSUME NEW a \in Request, RelinkWrites(a) PROVE FALSE
  BY <1>12 DEF RelinkWrites, Calm
<1>13. ASSUME (\E r \in Row : EntityAppears(r)) \/ UNCHANGED importVars PROVE Goal
  BY <1>13, <1>2 DEF EntityAppears, importVars, table, vars, row, worker, handler
<1> HIDE DEF Goal
<1>14. ASSUME NEW w \in Worker, BatchHandlerStep(w) PROVE Goal
  BY <1>14, <1>3, <1>6, <1>7, <1>8, <1>9 DEF BatchHandlerStep
<1>15. Goal
  BY <1>4, <1>5, <1>9, <1>10, <1>11, <1>12, <1>13, <1>14, Zenon DEF ImportNext
<1> QED
  BY <1>1, <1>15 DEF Goal

\* committed_rows never claims more rows than are COMMITTED and is exact when
\* the job needed one attempt, unless a job was stolen, a second one enqueued or
\* a row relinked; for any rows, workers, requests and faults.
THEOREM CountTruthfulHolds == ImportSpec => []CountTruthful
<1>1. ImportInit => CountInv
  <2> SUFFICES ASSUME ImportInit PROVE TodoValid /\ CountedInRun /\ CountedAfter
    BY DEF CountInv
  <2>1. CommitJobs = {} /\ CommittedRows = {}
    BY DEF ImportInit, CommitJobs, CommittedRows
  <2> QED
    BY <2>1 DEF ImportInit, TodoValid, CountedInRun, CountedAfter
<1>2. RowsInv /\ CountInv /\ [ImportNext]_importVars => RowsInv' /\ CountInv'
  BY RowsInvStep, CountStep DEF RowsInv
<1>3. CountInv => CountTruthful
  BY DEF CountInv, CountedAfter, Calm, CountTruthful, CommittedRows
<1> QED
  BY <1>1, <1>2, <1>3, RowsInitially, PTL DEF ImportSpec

-----------------------------------------------------------------------------
(***************************************************************************)
(* Validation.                                                             *)
(***************************************************************************)
\* The upload is not over: the batch has no validate job yet.
Fresh == batch = "ABSENT" \/ \E a \in Request : req[a] = "created"

\* One upload gives the batch one validate job, and once the batch is past its
\* validation that job has committed.
UploadInv ==
    /\ Fresh => ValidateJobs = {} /\ ~PastValidation
    /\ batch = "ABSENT" => \A a \in Request : req[a] # "created"
    /\ \A a, b \in Request : req[a] = "created" /\ req[b] = "created" => a = b
    /\ \A i, j \in ValidateJobs : i = j
    /\ PastValidation => \A j \in ValidateJobs : committed[j] >= 1

LEMMA ValidateJobsGrow ==
  ASSUME ImportTyped, [ImportNext]_importVars
  PROVE  \/ ValidateJobs' = ValidateJobs
         \/ \E a \in Request, j \in Job :
              UploadEnqueues(a) /\ ValidateJobs' = ValidateJobs \cup {j}
<1>t. TypeOK /\ ClaimsExclusive /\ JobsTyped /\ kind \in [Job -> {"none", "validate", "commit"}]
  BY DEF ImportTyped, JobsKept, QueueInv, ImportTypeOK
<1>1. ASSUME UNCHANGED kind PROVE ValidateJobs' = ValidateJobs
  BY <1>1 DEF ValidateJobs
<1>2. ASSUME NEW j \in Job, Enqueue(j), kind' = [kind EXCEPT ![j] = "commit"]
      PROVE  ValidateJobs' = ValidateJobs
  <2>1. kind[j] = "none"
    BY <1>2, <1>t DEF Enqueue, JobsTyped
  <2> QED
    BY <1>2, <2>1, <1>t DEF ValidateJobs
<1>3. ASSUME NEW j \in Job, kind' = [kind EXCEPT ![j] = "validate"]
      PROVE  ValidateJobs' = ValidateJobs \cup {j}
  BY <1>3, <1>t DEF ValidateJobs
<1> QED
  BY <1>1, <1>2, <1>3, <1>t, JobKinds

\* A request that has created the batch and not yet enqueued its job
LEMMA UploadsStep ==
  ASSUME ImportTyped, UploadInv, [ImportNext]_importVars
  PROVE  \/ \E a \in Request : UploadCreates(a)
         \/ /\ batch' = "ABSENT" => batch = "ABSENT"
            /\ \A a \in Request : req'[a] = "created" => req[a] = "created"
<1> DEFINE Goal == /\ batch' = "ABSENT" => batch = "ABSENT"
                   /\ \A a \in Request : req'[a] = "created" => req[a] = "created"
<1>t. req \in [Request -> RequestSteps]
  BY DEF ImportTyped, ImportTypeOK
<1>1. ASSUME NEW a \in Request,
             \/ UploadEnqueues(a) \/ TriggerChecks(a) \/ TriggerEnqueues(a) \/ TriggerMarks(a)
             \/ (\E r \in Row : RelinkChecks(a, r)) \/ RelinkWrites(a) \/ RequestDies(a)
      PROVE  Goal
  BY <1>1, <1>t DEF UploadEnqueues, TriggerChecks, TriggerEnqueues, TriggerMarks, RelinkChecks,
              RelinkWrites, RequestDies, Answer, table
<1>2. ASSUME NEW w \in Worker,
             \/ ValidateWritesRows(w) \/ ValidateRejects(w)
             \/ CommitReads(w) \/ CommitMarks(w) \/ CommitLists(w)
             \/ RowResolves(w) \/ RowMarks(w) \/ CommitFinishes(w) \/ MarkErrors(w)
             \/ HandlerErrors(w) \/ WorkerStops(w) \/ DispatchAbandons(w)
      PROVE  Goal
  BY <1>2 DEF ValidateWritesRows, ValidateRejects, CommitReads, CommitMarks, CommitLists,
              RowResolves, RowMarks, CommitFinishes, MarkErrors, HandlerErrors, WorkerStops,
              DispatchAbandons, Interrupted, table, request
<1>3. ASSUME QueueStep \/ (\E r \in Row : EntityAppears(r)) \/ UNCHANGED importVars PROVE Goal
  BY <1>3 DEF QueueStep, EntityAppears, importVars, table, request
<1> HIDE DEF Goal
<1>4. ASSUME NEW w \in Worker, BatchHandlerStep(w) PROVE Goal
  BY <1>4, <1>2 DEF BatchHandlerStep
<1>5. Goal \/ \E a \in Request : UploadCreates(a)
  BY <1>1, <1>2, <1>3, <1>4, Zenon DEF ImportNext
<1> QED
  BY <1>5 DEF Goal

LEMMA ValidateRuns ==
  ASSUME ImportTyped, NEW w \in Worker, ValidateWritesRows(w) \/ ValidateRejects(w)
  PROVE  held[w] \in ValidateJobs /\ HandlerCommits(w) /\ committed'[held[w]] >= 1
<1>1. TypeOK /\ HandlerCommits(w) /\ kind[held[w]] = "validate"
  BY DEF ImportTyped, JobsKept, QueueInv, ValidateWritesRows, ValidateRejects, Runs
<1> QED
  BY <1>1, RunCommits DEF ValidateJobs

LEMMA UploadInvStep ==
  ASSUME ImportTyped, UploadInv, [ImportNext]_importVars
  PROVE  UploadInv'
<1>1. CASE \E a \in Request : UploadCreates(a)
  <2>1. PICK a \in Request : UploadCreates(a)
    BY <1>1
  <2>2. /\ batch = "ABSENT" /\ batch' = "UPLOADED" /\ UNCHANGED <<kind, step>>
        /\ req' = [req EXCEPT ![a] = "created"] /\ req \in [Request -> RequestSteps]
    BY <2>1 DEF UploadCreates, Answer, handler, ImportTyped, ImportTypeOK
  <2>3. \A b \in Request : req'[b] = "created" => b = a
    BY <2>2 DEF UploadInv
  <2>4. ValidateJobs' = {} /\ ~PastValidation
    BY <2>2 DEF UploadInv, Fresh, ValidateJobs
  <2>5. ~PastValidation'
    BY <2>2, <2>4 DEF PastValidation
  <2> QED
    BY <2>2, <2>3, <2>4, <2>5 DEF UploadInv
<1>2. ASSUME ~ \E a \in Request : UploadCreates(a) PROVE UploadInv'
  <2>1. /\ batch' = "ABSENT" => batch = "ABSENT"
        /\ \A a \in Request : req'[a] = "created" => req[a] = "created"
    BY <1>2, UploadsStep
  <2>2. Fresh' => Fresh
    BY <2>1 DEF Fresh
  <2>3. /\ batch' = "ABSENT" => \A a \in Request : req'[a] # "created"
        /\ \A a, b \in Request : req'[a] = "created" /\ req'[b] = "created" => a = b
    BY <2>1 DEF UploadInv
  <2>4. CASE ValidateJobs' = ValidateJobs
    <3>1. \A j \in ValidateJobs : committed'[j] >= committed[j]
                                  /\ committed[j] \in Nat /\ committed'[j] \in Nat
      BY ImportRuns, JobsStep DEF ImportTyped, JobsKept, QueueInv, TypeOK, ValidateJobs
    <3>2. ASSUME NEW w \in Worker, ValidateWritesRows(w)
          PROVE  ~Fresh /\ \A j \in ValidateJobs : committed'[j] >= 1
      BY <3>2, ValidateRuns DEF UploadInv
    <3>3. PastValidation' => PastValidation \/ \E w \in Worker : ValidateWritesRows(w)
      BY PastStep
    <3>4. PastValidation => \A j \in ValidateJobs : committed'[j] >= 1
      <4> SUFFICES ASSUME PastValidation, NEW j \in ValidateJobs PROVE committed'[j] >= 1
        OBVIOUS
      <4>1. committed[j] >= 1
        BY DEF UploadInv
      <4> QED
        BY <3>1, <4>1
    <3>5. Fresh' => ValidateJobs' = {} /\ ~PastValidation'
      BY <2>2, <2>4, <3>2, <3>3 DEF UploadInv
    <3> QED
      BY <2>3, <2>4, <3>2, <3>3, <3>4, <3>5 DEF UploadInv
  <2>5. ASSUME NEW a \in Request, NEW j \in Job, UploadEnqueues(a),
               ValidateJobs' = ValidateJobs \cup {j}
        PROVE  UploadInv'
    <3>1. /\ req[a] = "created" /\ req' = [req EXCEPT ![a] = "idle"] /\ UNCHANGED <<batch, step>>
          /\ req \in [Request -> RequestSteps]
      BY <2>5 DEF UploadEnqueues, Answer, handler, ImportTyped, ImportTypeOK
    <3>2. ValidateJobs' = {j} /\ ~PastValidation
      BY <2>5, <3>1 DEF UploadInv, Fresh
    <3>3. ~PastValidation'
      BY <3>1, <3>2 DEF PastValidation
    <3>4. ~Fresh'
      BY <3>1 DEF UploadInv, Fresh
    <3> QED
      BY <2>3, <3>2, <3>3, <3>4 DEF UploadInv
  <2> QED
    BY <2>4, <2>5, ValidateJobsGrow
<1> QED
  BY <1>1, <1>2

\* A batch that is past its validation and loses it again loses it to a run of the
\* validate job that was reclaimed from a live worker: the job has committed, so a
\* run that is still around is one more than the queue allows without a theft.
LEMMA LateRun ==
  ASSUME ImportTyped, UploadInv, PastValidation, NEW w \in Worker, ValidateRejects(w)
  PROVE  LateRejection
<1>1. held[w] \in ValidateJobs /\ HandlerCommits(w)
  BY ValidateRuns
<1>2. committed[held[w]] >= 1 /\ held[w] \in Job
  BY <1>1 DEF UploadInv, ValidateJobs
<1>3. stolen[held[w]] > 0
  <2>1. /\ committed[held[w]] \in Nat /\ stolen[held[w]] \in Nat
        /\ Cardinality(Holders(held[w])) \in Nat /\ Holders(held[w]) # {}
        /\ committed[held[w]] + Permits(held[w]) <= 1 + stolen[held[w]]
    BY <1>2, HoldersFinite
       DEF ImportTyped, JobsKept, QueueInv, TypeOK, PermitsBounded, Holders
  <2>2. Cardinality(Holders(held[w])) >= 1
    BY <1>2, <2>1, NoHolders
  <2> QED
    BY <1>2, <2>1, <2>2 DEF Permits
<1>4. batch' = "VALIDATION_FAILED" /\ UNCHANGED rowStatus
  BY DEF ValidateRejects
<1> QED
  BY <1>1, <1>3, <1>4 DEF LateRejection

\* A validated batch keeps its verdict unless the validate job was reclaimed from a
\* live worker, and then it can only be rejected, with its rows as they are; for any
\* rows, workers, requests and faults.  With no row at all in the workbook a late run
\* would find nothing in its way and validate again, hence the hypothesis.
THEOREM ValidatesOnceHolds == ASSUME Row # {} PROVE ImportSpec => ValidatesOnce
<1>1. ImportInit => UploadInv
  BY DEF ImportInit, UploadInv, Fresh, ValidateJobs, PastValidation
<1>2. RowsInv /\ UploadInv /\ [ImportNext]_importVars => RowsInv' /\ UploadInv'
  BY RowsInvStep, UploadInvStep DEF RowsInv
<1>3. RowsInv /\ UploadInv /\ [ImportNext]_importVars => [Revalidates => LateRejection]_importVars
  <2> SUFFICES ASSUME ImportTyped, UploadInv, RowsPresent, ImportNext, Revalidates
               PROVE  LateRejection
    BY DEF RowsInv
  <2>1. /\ batch \in {"VALIDATED", "COMMITTING", "COMMITTED"} /\ batch' # batch
        /\ batch' \notin {"COMMITTING", "COMMITTED"}
        /\ PastValidation /\ ~ \A r \in Row : rowStatus[r] = "ABSENT"
    BY DEF Revalidates, RowsPresent, PastValidation
  <2>2. ASSUME NEW a \in Request,
               \/ UploadCreates(a) \/ UploadEnqueues(a)
               \/ TriggerChecks(a) \/ TriggerEnqueues(a) \/ TriggerMarks(a)
               \/ (\E r \in Row : RelinkChecks(a, r)) \/ RelinkWrites(a) \/ RequestDies(a)
        PROVE  FALSE
    BY <2>1, <2>2 DEF UploadCreates, UploadEnqueues, TriggerChecks, TriggerEnqueues, TriggerMarks,
                      RelinkChecks, RelinkWrites, RequestDies, table
  <2>3. ASSUME NEW w \in Worker, ValidateWritesRows(w) PROVE FALSE
    BY <2>1, <2>3 DEF ValidateWritesRows, RowsInsertable
  <2>4. ASSUME NEW w \in Worker,
               \/ CommitReads(w) \/ CommitMarks(w) \/ CommitLists(w)
               \/ RowResolves(w) \/ RowMarks(w) \/ CommitFinishes(w) \/ MarkErrors(w)
               \/ HandlerErrors(w) \/ WorkerStops(w) \/ DispatchAbandons(w)
        PROVE  FALSE
    BY <2>1, <2>4 DEF CommitReads, CommitMarks, CommitLists, RowResolves, RowMarks, CommitFinishes,
                      MarkErrors, HandlerErrors, WorkerStops, DispatchAbandons, Interrupted, table
  <2>5. ASSUME QueueStep \/ \E r \in Row : EntityAppears(r) PROVE FALSE
    BY <2>1, <2>5 DEF QueueStep, EntityAppears, table
  <2>6. ASSUME NEW w \in Worker, BatchHandlerStep(w) PROVE ValidateRejects(w)
    BY <2>3, <2>4, <2>6 DEF BatchHandlerStep
  <2>7. \E w \in Worker : ValidateRejects(w)
    BY <2>2, <2>4, <2>5, <2>6, Zenon DEF ImportNext
  <2> QED
    BY <2>1, <2>7, LateRun
<1> QED
  BY <1>1, <1>2, <1>3, RowsInitially, PTL DEF ImportSpec, ValidatesOnce
=============================================================================
