--------------------------------- MODULE Lead ---------------------------------
(***************************************************************************)
(* Customer leads: who holds one, what its calls and closings made of it,  *)
(* and who sees it (src/internal/lead, src/internal/activity,              *)
(* src/internal/closing; owners as src/internal/customer creates them).    *)
(*                                                                         *)
(* customer_leads says who holds a lead now; the active lead_assignments   *)
(* row says how it came there.  Every handler locks the lead with          *)
(* SELECT ... FOR UPDATE, decides from the row it read, and writes when it *)
(* commits: two steps here, with the row it read kept in seen.  A bulk     *)
(* request locks several leads and commits them together.  There is one    *)
(* lead per owner (uq_customer_leads_owner_id), so Lead names both.  The   *)
(* append-only trails (interactions, stage histories) are left out, and so *)
(* are the users' statuses: an assignee is active when he is assigned.     *)
(***************************************************************************)
EXTENDS Integers, FiniteSets

CONSTANTS
    Lead,       \* owners, and the customer_leads row of each
    Admin,      \* users of role ADMIN
    Supervisor, \* users of role SUPERVISOR
    Sales,      \* users of role SALES
    Training,   \* training_reports
    Closing,    \* sales_closings
    Request,    \* requests under way
    Null        \* SQL's NULL, and "no row"

User == Admin \cup Supervisor \cup Sales

ASSUME RoleAssumption ==
    /\ Admin \cap Supervisor = {}
    /\ Admin \cap Sales = {}
    /\ Supervisor \cap Sales = {}

VARIABLES
    lead,       \* the customer_leads row of each owner
    assignment, \* its active lead_assignments row
    testing,    \* the owners with is_testing_account
    training,   \* training_reports, by lead and status
    closing,    \* sales_closings
    eligible,   \* owners a CreateLead under way has read as regular ones
    seen        \* the lead rows each request has locked, as it read them

vars == <<lead, assignment, testing, training, closing, eligible, seen>>

Role(u) == CASE u \in Admin -> "ADMIN"
             [] u \in Supervisor -> "SUPERVISOR"
             [] u \in Sales -> "SALES"

LeadRow == [holder : User, role : {"ADMIN", "SUPERVISOR", "SALES"},
            supervisor : Supervisor \cup {Null}, sales : Sales \cup {Null},
            stage : {"NEW", "POSSIBLE", "POTENTIAL", "CLOSING", "INVALID"},
            status : {"OPEN", "INVALID"}, score : 0..3, invalidatedBy : Sales \cup {Null}]

AssignmentRow == [from : User \cup {Null}, to : User,
                  role : {"ADMIN", "SUPERVISOR", "SALES"}, supervisor : Supervisor \cup {Null}]

\* A locked row, and what the request knows of the owner's is_testing_account;
\* when it is "unread" the owner's row is not locked either.
SeenRow == [row : LeadRow, flag : {"testing", "regular", "unread"}]

TrainingRow == [lead : Lead, status : {"SCHEDULED", "COMPLETED", "CANCELED"}]

ClosingRow == [lead : Lead, sales : Sales, supervisor : Supervisor \cup {Null},
               status : {"PENDING_RECONCILIATION", "CONFIRMED", "REJECTED", "GONE"},
               deleted : BOOLEAN]

ASSUME NullAssumption ==
    Null \notin User \cup Lead /\ Null \notin LeadRow /\ Null \notin AssignmentRow
    /\ Null \notin SeenRow /\ Null \notin TrainingRow /\ Null \notin ClosingRow

TypeOK ==
    /\ lead \in [Lead -> LeadRow \cup {Null}]
    /\ assignment \in [Lead -> AssignmentRow \cup {Null}]
    /\ testing \subseteq Lead
    /\ training \in [Training -> TrainingRow \cup {Null}]
    /\ closing \in [Closing -> ClosingRow \cup {Null}]
    /\ eligible \subseteq Lead
    /\ seen \in [Request -> [Lead -> SeenRow \cup {Null}]]

\* Owners older than the leads have none until a request makes one.
Init ==
    /\ lead = [l \in Lead |-> Null]
    /\ assignment = [l \in Lead |-> Null]
    /\ testing = {}
    /\ training = [t \in Training |-> Null]
    /\ closing = [c \in Closing |-> Null]
    /\ eligible = {}
    /\ seen = [r \in Request |-> [l \in Lead |-> Null]]

-----------------------------------------------------------------------------
(***************************************************************************)
(* Rows and locks.                                                         *)
(***************************************************************************)
Locked(r) == {l \in Lead : seen[r][l] # Null}
Unlocked(l) == TRUE
Free(l) == \A r \in Request : l \notin Locked(r)

OwnerFree(l) == \A r \in Request : l \in Locked(r) => seen[r][l].flag = "unread"

Ends(r) == seen' = [seen EXCEPT ![r] = [l \in Lead |-> Null]]

NewLead(a) ==
    [holder |-> a, role |-> "ADMIN", supervisor |-> Null, sales |-> Null,
     stage |-> "NEW", status |-> "OPEN", score |-> 1, invalidatedBy |-> Null]
AssignedByRole(from, row) ==
    [from |-> from, to |-> row.holder, role |-> row.role,
     supervisor |-> IF row.role = "SALES" THEN row.supervisor ELSE Null]
Assigned(from, row) ==
    [from |-> from, to |-> row.holder, role |-> row.role, supervisor |-> row.supervisor]

\* currentBelongsToSupervisor
HoldsIt(row, s) == row.role = "SUPERVISOR" /\ row.holder = s
BelongsTo(row, s) == (row.role = "SUPERVISOR" /\ row.holder = s) \/ row.supervisor = s

\* canSeeLockedLead, canReadLeadActivity and canWriteLeadActivity
CanSee(u, row) ==
    CASE u \in Admin -> TRUE
      [] u \in Supervisor -> BelongsTo(row, u)
      [] u \in Sales -> row.role = "SALES" /\ row.holder = u

\* leadVisibilityWhere, and the lead half of ownerVisibilityWhere
Listed(u, row) ==
    CASE u \in Admin -> TRUE
      [] u \in Supervisor -> row.holder = u \/ row.supervisor = u
      [] u \in Sales -> row.role = "SALES" /\ row.holder = u

\* salesOwnsLead
SalesOwns(u, row) == u \in Sales /\ row.role = "SALES" /\ row.holder = u /\ row.sales = u

-----------------------------------------------------------------------------
(***************************************************************************)
(* What a handler makes of the row it read.                                *)
(***************************************************************************)
\* The row moveLead writes for an open lead
Moved(row, to, supervisor, sales, stage, score) ==
    [holder |-> to, role |-> Role(to), supervisor |-> supervisor, sales |-> sales,
     stage |-> stage, status |-> "OPEN", score |-> score, invalidatedBy |-> Null]

\* AssignSupervisor keeps the stage
ToSupervisor(row, s) == Moved(row, s, s, Null, row.stage, row.score)

\* AssignSales takes a lead of score 0 up again
KeepsStage(row, s, x) == Moved(row, x, s, x, row.stage, row.score)
ToSales(row, s, x) ==
    IF row.score = 0 THEN Moved(row, x, s, x, "POSSIBLE", 1)
                     ELSE Moved(row, x, s, x, row.stage, row.score)

\* ReleaseToAdmin
ResetsScore(row, a) == Moved(row, a, Null, Null, row.stage, 1)
ToAdmin(row, a) == Moved(row, a, Null, Null, "NEW", row.score)

\* MarkInvalid, and a remark of score 0: back to the supervisor
Invalidated(row, u) ==
    [holder |-> row.supervisor, role |-> "SUPERVISOR", supervisor |-> row.supervisor,
     sales |-> Null, stage |-> "INVALID", status |-> "INVALID", score |-> 0,
     invalidatedBy |-> u]

\* applyRemarkPolicy for a remark of score 1 or 2, with isStickyPotential
Sticky(row) == row.stage \in {"POTENTIAL", "CLOSING"} \/ row.score >= 2
At(row, stage, score) ==
    [row EXCEPT !.stage = stage, !.status = "OPEN", !.score = score, !.invalidatedBy = Null]
Remarked(row, score) ==
    IF score = 1 /\ Sticky(row)
    THEN [row EXCEPT !.invalidatedBy = Null]
    ELSE At(row, <<"POSSIBLE", "POTENTIAL", "CLOSING">>[score], score)

\* moveLead and insertAssignment, for every lead the request has locked
MovesAll(r, new) ==
    /\ lead' = [l \in Lead |-> IF l \in Locked(r) THEN new[l] ELSE lead[l]]
    /\ assignment' = [l \in Lead |-> IF l \in Locked(r)
                                     THEN Assigned(seen[r][l].row.holder, new[l])
                                     ELSE assignment[l]]
    /\ Ends(r)
    /\ UNCHANGED <<testing, training, closing, eligible>>

\* The last statement of applyLeadRemark and applyClosingLeadState: who holds
\* the lead is not among the columns they write.
Writes(r, l, row) ==
    /\ lead' = [lead EXCEPT ![l] = [@ EXCEPT !.stage = row.stage, !.status = row.status,
                           !.score = row.score, !.invalidatedBy = row.invalidatedBy]]
    /\ Ends(r)
    /\ UNCHANGED <<assignment, testing, eligible>>

-----------------------------------------------------------------------------
(***************************************************************************)
(* Locking.                                                                *)
(***************************************************************************)
\* lead.lockLead: a lead named by its own id, its outlet's or its owner's is
\* found with its owner's row ("found"); through another outlet of the owner the
\* lead's row alone is read, and made when there is none.
LocksLeads(r, ls, found) ==
    /\ Locked(r) = {}
    /\ ls # {} /\ found \subseteq ls
    /\ \A l \in ls : Free(l)
    /\ \A l \in found : lead[l] # Null
    /\ \E a \in Admin :
         seen' = [seen EXCEPT ![r] = [l \in Lead |->
             IF l \notin ls THEN Null
             ELSE [row |-> IF lead[l] = Null THEN NewLead(a) ELSE lead[l],
                   flag |-> IF l \notin found THEN "unread"
                            ELSE IF l \in testing THEN "testing" ELSE "regular"]]]
    /\ UNCHANGED <<lead, assignment, testing, training, closing, eligible>>

\* activity.lockLead and closing.lockLead read no owner and make no lead.
LocksLead(r, l) ==
    /\ Locked(r) = {}
    /\ Free(l)
    /\ lead[l] # Null
    /\ seen' = [seen EXCEPT ![r][l] = [row |-> lead[l], flag |-> "unread"]]
    /\ UNCHANGED <<lead, assignment, testing, training, closing, eligible>>

\* A refusal after the lock, a deadlock, or the client has gone
RollsBack(r) ==
    /\ Locked(r) # {}
    /\ Ends(r)
    /\ UNCHANGED <<lead, assignment, testing, training, closing, eligible>>

-----------------------------------------------------------------------------
(***************************************************************************)
(* Owners and their leads.                                                 *)
(***************************************************************************)
\* CreateLead, first statement: a plain read of the owner, which refuses a testing
\* account.  Nothing keeps the flag as it was until the INSERT; a request that goes
\* no further leaves no other trace.
EnsureOwnerEligible(l) ==
    /\ l \notin testing
    /\ eligible' = eligible \cup {l}
    /\ UNCHANGED <<lead, assignment, testing, training, closing, seen>>

\* CreateLead, the INSERTs; and createLeadForOwner, for an owner an administrator
\* creates.  uq_customer_leads_owner_id refuses a second lead.
CreateLead(l, a) ==
    /\ l \in eligible
    /\ lead[l] = Null
    /\ Free(l)
    /\ eligible' = eligible \ {l}
    /\ lead' = [lead EXCEPT ![l] = NewLead(a)]
    /\ assignment' = [assignment EXCEPT ![l] = Assigned(Null, NewLead(a))]
    /\ UNCHANGED <<testing, training, closing, seen>>

SetTestingAccount(l) ==
    /\ OwnerFree(l)
    /\ testing' = IF l \in testing THEN testing \ {l} ELSE testing \cup {l}
    /\ UNCHANGED <<lead, assignment, training, closing, eligible, seen>>

NotTesting(r) == \A l \in Locked(r) : seen[r][l].flag # "testing"
MaySee(r, u) == \A l \in Locked(r) : CanSee(u, seen[r][l].row)

AssignSupervisor(r, s) ==
    /\ Locked(r) # {}
    /\ NotTesting(r)
    /\ MovesAll(r, [l \in Locked(r) |-> ToSupervisor(seen[r][l].row, s)])

AssignSales(r, s, x) ==
    /\ Locked(r) # {}
    /\ MaySee(r, s)
    /\ NotTesting(r)
    /\ MovesAll(r, [l \in Locked(r) |-> ToSales(seen[r][l].row, s, x)])

\* Called by an administrator or by the supervisor of the leads
ReleaseToAdmin(r, u, a) ==
    /\ Locked(r) # {}
    /\ u \in Admin \cup Supervisor
    /\ MaySee(r, u)
    /\ MovesAll(r, [l \in Locked(r) |-> ToAdmin(seen[r][l].row, a)])

MarkInvalid(r, l, x) ==
    /\ Locked(r) = {l}
    /\ CanSee(x, seen[r][l].row)
    /\ seen[r][l].row.supervisor # Null
    /\ MovesAll(r, [k \in {l} |-> Invalidated(seen[r][l].row, x)])

-----------------------------------------------------------------------------
(***************************************************************************)
(* Interactions and trainings, by whoever may write the lead's activity.   *)
(***************************************************************************)
MayWrite(r, l, u) ==
    /\ Locked(r) = {l}
    /\ seen[r][l].flag = "unread"
    /\ lead[l] # Null
    /\ CanSee(u, seen[r][l].row)

\* CreateInteraction refuses a remark of score 3.  An interaction without a remark
\* changes nothing of the lead that is kept here.
AnyScore == 1..3
LowScores == 1..2
Remark(r, l, u, score) ==
    /\ MayWrite(r, l, u)
    /\ score \in LowScores
    /\ Writes(r, l, Remarked(seen[r][l].row, score))
    /\ UNCHANGED <<training, closing>>

\* A remark of score 0, the sales person's alone
RemarkInvalid(r, l, x) ==
    /\ MayWrite(r, l, x)
    /\ seen[r][l].row.supervisor # Null
    /\ MovesAll(r, [k \in {l} |-> Invalidated(seen[r][l].row, x)])

\* The id of the request goes into the row, not the locked lead's: a lead named by
\* its outlet's or its owner's id fails fk_training_reports_lead.
ScheduleTraining(r, l, u, t, named) ==
    /\ MayWrite(r, l, u)
    /\ training[t] = Null
    /\ named \in Lead
    /\ training' = [training EXCEPT ![t] = [lead |-> named, status |-> "SCHEDULED"]]
    /\ Writes(r, l, lead[l])
    /\ UNCHANGED closing

\* lockTraining locks the lead joined to the training as well, so the training's
\* row is the one read under that lock.  RescheduleTraining changes only dates.
DecideTraining(r, l, u, t, status) ==
    /\ MayWrite(r, l, u)
    /\ training[t] = [lead |-> l, status |-> "SCHEDULED"]
    /\ training' = [training EXCEPT ![t].status = status]
    /\ Writes(r, l, lead[l])
    /\ UNCHANGED closing

-----------------------------------------------------------------------------
(***************************************************************************)
(* Closings.                                                               *)
(***************************************************************************)
Open(c) == /\ closing[c] # Null
           /\ ~closing[c].deleted
           /\ closing[c].status \in {"PENDING_RECONCILIATION", "CONFIRMED"}

\* The request names the lead by its own id, or by its outlet's or owner's,
\* under which ensureNoOpenClosing finds no closing.
NoOpenClosing(named) == \A c \in Closing : Open(c) => closing[c].lead # named

CreateClosing(r, l, x, c, named) ==
    /\ MayWrite(r, l, x)
    /\ SalesOwns(x, seen[r][l].row)
    /\ NoOpenClosing(named)
    /\ closing[c] = Null
    /\ closing' = [closing EXCEPT ![c] =
           [lead |-> l, sales |-> seen[r][l].row.sales, supervisor |-> seen[r][l].row.supervisor,
            status |-> "PENDING_RECONCILIATION", deleted |-> FALSE]]
    /\ Writes(r, l, At(seen[r][l].row, "CLOSING", 3))
    /\ UNCHANGED training

\* visibilityWhere and canManageClosing, for a closing's row
ManagesClosing(u, c) == u \in Admin \/ closing[c].supervisor = u
SeesClosing(u, c) ==
    \/ u \in Admin \/ closing[c].supervisor = u \/ closing[c].sales = u
    \/ lead[closing[c].lead].supervisor = u \/ lead[closing[c].lead].holder = u

\* ConfirmClosing and RejectClosing lock the lead joined to the closing, too.
UpdateStatus(c, u, status) ==
    /\ closing[c] # Null /\ ~closing[c].deleted
    /\ Free(closing[c].lead)
    /\ ManagesClosing(u, c)
    /\ closing[c].status = "PENDING_RECONCILIATION"
    /\ closing' = [closing EXCEPT ![c].status = status]
    /\ UNCHANGED <<lead, assignment, testing, training, eligible, seen>>

\* DeleteClosings and RestoreClosings; a supervisor's or an administrator's
MarkDeleted(c, u, deleted) ==
    /\ closing[c] # Null /\ closing[c].status # "GONE"
    /\ Free(closing[c].lead)
    /\ u \in Admin \cup Supervisor /\ SeesClosing(u, c)
    /\ closing' = [closing EXCEPT ![c].deleted = deleted]
    /\ UNCHANGED <<lead, assignment, testing, training, eligible, seen>>

ForceDeleteClosing(c, u) ==
    /\ closing[c] # Null /\ closing[c].status # "GONE"
    /\ Free(closing[c].lead)
    /\ u \in Admin \cup Supervisor /\ SeesClosing(u, c)
    /\ closing' = [closing EXCEPT ![c].status = "GONE", ![c].deleted = TRUE]
    /\ UNCHANGED <<lead, assignment, testing, training, eligible, seen>>

-----------------------------------------------------------------------------
LeadNext ==
    \/ \E l \in Lead :
         SetTestingAccount(l) \/ EnsureOwnerEligible(l) \/ \E a \in Admin : CreateLead(l, a)
    \/ \E r \in Request : RollsBack(r)
    \/ \E r \in Request, ls \in SUBSET Lead : \E found \in SUBSET ls : LocksLeads(r, ls, found)
    \/ \E r \in Request, l \in Lead : LocksLead(r, l)
    \/ \E r \in Request, s \in Supervisor :
         AssignSupervisor(r, s) \/ \E x \in Sales : AssignSales(r, s, x)
    \/ \E r \in Request, u \in User, a \in Admin : ReleaseToAdmin(r, u, a)

ActivityNext ==
    \E r \in Request, l \in Lead :
        \/ \E x \in Sales : MarkInvalid(r, l, x) \/ RemarkInvalid(r, l, x)
        \/ \E u \in User, score \in 0..3 : Remark(r, l, u, score)
        \/ \E u \in User, t \in Training :
             \/ \E named \in {l, Null} : ScheduleTraining(r, l, u, t, named)
             \/ \E status \in {"COMPLETED", "CANCELED"} : DecideTraining(r, l, u, t, status)
        \/ \E x \in Sales, c \in Closing, named \in {l, Null} : CreateClosing(r, l, x, c, named)

ClosingNext ==
    \E c \in Closing, u \in User :
        \/ \E status \in {"CONFIRMED", "REJECTED"} : UpdateStatus(c, u, status)
        \/ \E deleted \in BOOLEAN : MarkDeleted(c, u, deleted)
        \/ ForceDeleteClosing(c, u)

Next == LeadNext \/ ActivityNext \/ ClosingNext

Spec == Init /\ [][Next]_vars

-----------------------------------------------------------------------------
(***************************************************************************)
(* Properties.                                                             *)
(***************************************************************************)
\* The active assignment is the one that made the present holder: two tables
\* written by the same requests never disagree (lead/repository.go, moveLead;
\* activity/repository.go, applyLeadRemark).
AssignmentAgrees ==
    \A l \in Lead : lead[l] # Null =>
        /\ assignment[l] # Null
        /\ assignment[l].to = lead[l].holder
        /\ assignment[l].role = lead[l].role
        /\ assignment[l].supervisor = lead[l].supervisor

\* A lead a sales person holds can be worked on: he is its active_sales, it has a
\* supervisor to go back to, and it is open; nobody else is its active sales, and
\* only a lead that was struck off says by whom (lead/repository.go AssignSales,
\* MarkInvalid; closing/repository.go salesOwnsLead).
Workable(row) ==
    /\ row.role = Role(row.holder)
    /\ row.role = "SALES" => /\ row.sales = row.holder
                             /\ row.supervisor # Null
                             /\ row.status = "OPEN" /\ row.stage # "INVALID"
    /\ row.role = "SUPERVISOR" => row.supervisor = row.holder
    /\ row.role # "SALES" => row.sales = Null
    /\ row.invalidatedBy # Null => row.role = "SUPERVISOR" /\ row.status = "INVALID"
SalesLeadWorkable == \A l \in Lead : lead[l] # Null => Workable(lead[l])

\* The stage says what the score says, except that a release keeps the score of
\* the lead it makes NEW (activity/policy.go; lead/repository.go).
StageFits(row) ==
    /\ row.score = 0 => row.stage \in {"NEW", "INVALID"}
    /\ row.stage = "INVALID" => row.score = 0
    /\ row.stage = "POSSIBLE" => row.score = 1
    /\ row.stage = "POTENTIAL" => row.score = 2
    /\ row.stage = "CLOSING" => row.score = 3
    /\ row.status = "INVALID" => row.stage = "INVALID"
StageMatchesScore == \A l \in Lead : lead[l] # Null => StageFits(lead[l])

\* A lead is at stage CLOSING only when a closing has been reported for it
\* (docs/sprint-08/sprint-08.md:43, activity/repository.go:89 refuses score 3).
ClosingReported ==
    \A l \in Lead : lead[l] # Null /\ lead[l].score = 3 =>
        \E c \in Closing : closing[c] # Null /\ closing[c].lead = l

\* What a list shows somebody he may act on, and nothing else: the SQL of
\* leadVisibilityWhere and the test on the locked row agree.
ListedIsSeen ==
    \A l \in Lead : lead[l] # Null => \A u \in User : Listed(u, lead[l]) <=> CanSee(u, lead[l])

\* The assignments of a lead form a chain: the next one starts from the user the
\* last one went to, whoever else was moving the lead meanwhile
\* (docs/sprint-05/sprint-05.md:22, every move is in the assignment history).
ChainUnbroken ==
    [][\A l \in Lead : assignment'[l] # assignment[l] /\ assignment[l] # Null =>
         assignment'[l].from = assignment[l].to]_vars

\* docs/sprint-16g/sprint-16g.md:68: a testing account cannot be assigned to a
\* supervisor or a sales person.
TestingStaysOut ==
    [][\A l \in testing : assignment'[l] # assignment[l] =>
         lead'[l].role = "ADMIN" \/ lead'[l].status = "INVALID"]_vars

\* docs/sprint-08/README.md:478 (Case 8.3): a lead with a pending or confirmed
\* closing gets no other one.
OneOpenClosing ==
    \A c, d \in Closing : Open(c) /\ Open(d) /\ closing[c].lead = closing[d].lead => c = d
=============================================================================
