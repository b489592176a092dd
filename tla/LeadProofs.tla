------------------------------ MODULE LeadProofs ------------------------------
(***************************************************************************)
(* Proofs about Lead, for any number of leads, users and requests.  The    *)
(* inductive invariant says that the row a request has locked is the row   *)
(* as it stands, and that no two requests have locked the same one.        *)
(***************************************************************************)
EXTENDS Lead, TLAPS

Sound(row) == row \in LeadRow /\ Workable(row) /\ StageFits(row)

\* What the row lock gives a request between its read and its commit; a lead it
\* has inserted itself is not there for the others yet.
LockedIsCurrent ==
    \A r \in Request, l \in Lead : l \in Locked(r) =>
        IF lead[l] # Null THEN seen[r][l].row = lead[l]
                          ELSE Sound(seen[r][l].row)
LockedByOne ==
    \A r, q \in Request, l \in Lead : l \in Locked(r) /\ l \in Locked(q) => r = q

NoOrphans == \A l \in Lead : assignment[l] # Null => lead[l] # Null

Inv ==
    /\ TypeOK
    /\ NoOrphans
    /\ LockedIsCurrent
    /\ LockedByOne
    /\ AssignmentAgrees
    /\ SalesLeadWorkable
    /\ StageMatchesScore

-----------------------------------------------------------------------------
(***************************************************************************)
(* What the handlers make of a sound row is sound.                         *)
(***************************************************************************)
LEMMA NewLeadSound == ASSUME NEW a \in Admin PROVE Sound(NewLead(a))
  BY RoleAssumption, NullAssumption
     DEF Sound, NewLead, LeadRow, Workable, StageFits, Role, User

LEMMA ToSupervisorSound ==
  ASSUME NEW row, Sound(row), NEW s \in Supervisor
  PROVE  Sound(ToSupervisor(row, s))
  BY RoleAssumption, NullAssumption
     DEF Sound, ToSupervisor, Moved, LeadRow, Workable, StageFits, Role, User

LEMMA ToSalesSound ==
  ASSUME NEW row, Sound(row), NEW s \in Supervisor, NEW x \in Sales
  PROVE  Sound(ToSales(row, s, x))
  BY RoleAssumption, NullAssumption
     DEF Sound, ToSales, Moved, LeadRow, Workable, StageFits, Role, User

LEMMA ToAdminSound ==
  ASSUME NEW row, Sound(row), NEW a \in Admin
  PROVE  Sound(ToAdmin(row, a))
  BY RoleAssumption, NullAssumption
     DEF Sound, ToAdmin, Moved, LeadRow, Workable, StageFits, Role, User

LEMMA InvalidatedSound ==
  ASSUME NEW row, Sound(row), NEW x \in Sales, row.supervisor # Null
  PROVE  Sound(Invalidated(row, x))
  BY RoleAssumption, NullAssumption
     DEF Sound, Invalidated, LeadRow, Workable, StageFits, Role, User

LEMMA AtSound ==
  ASSUME NEW row, Sound(row), NEW stage, NEW score \in 1..3,
         \/ stage = "POSSIBLE" /\ score = 1
         \/ stage = "POTENTIAL" /\ score = 2
         \/ stage = "CLOSING" /\ score = 3
  PROVE  Sound(At(row, stage, score))
<1>1. /\ At(row, stage, score).holder = row.holder
      /\ At(row, stage, score).role = row.role
      /\ At(row, stage, score).supervisor = row.supervisor
      /\ At(row, stage, score).sales = row.sales
      /\ At(row, stage, score).stage = stage
      /\ At(row, stage, score).status = "OPEN"
      /\ At(row, stage, score).score = score
      /\ At(row, stage, score).invalidatedBy = Null
  BY DEF At, Sound, LeadRow
<1>2. At(row, stage, score) \in LeadRow
  <2>1. row \in LeadRow
    BY DEF Sound
  <2>2. score \in 0..3 /\ stage \in {"NEW", "POSSIBLE", "POTENTIAL", "CLOSING", "INVALID"}
    OBVIOUS
  <2> QED
    BY <2>1, <2>2 DEF At, LeadRow
<1>3. Workable(At(row, stage, score))
  BY <1>1 DEF Sound, Workable
<1>4. StageFits(At(row, stage, score))
  BY <1>1 DEF StageFits
<1> QED
  BY <1>2, <1>3, <1>4 DEF Sound

LEMMA RemarkedSound ==
  ASSUME NEW row, Sound(row), NEW score \in LowScores
  PROVE  Sound(Remarked(row, score))
<1>1. CASE score = 1 /\ Sticky(row)
  BY <1>1 DEF Sound, Remarked, LeadRow, Workable, StageFits
<1>2. CASE score = 1 /\ ~Sticky(row)
  <2>1. Remarked(row, score) = At(row, "POSSIBLE", 1)
    BY <1>2 DEF Remarked
  <2> QED
    BY <2>1, AtSound
<1>3. CASE score = 2
  <2>1. Remarked(row, score) = At(row, "POTENTIAL", 2)
    BY <1>3 DEF Remarked
  <2> QED
    BY <2>1, AtSound
<1> QED
  BY <1>1, <1>2, <1>3 DEF LowScores

-----------------------------------------------------------------------------
(***************************************************************************)
(* The two ways a request ends by writing.                                 *)
(***************************************************************************)
LEMMA EndsUnlocks ==
  ASSUME NEW r \in Request, TypeOK, Ends(r)
  PROVE  /\ seen' \in [Request -> [Lead -> SeenRow \cup {Null}]]
         /\ \A l \in Lead : l \notin Locked(r)'
         /\ \A q \in Request \ {r}, l \in Lead :
              /\ (l \in Locked(q))' <=> l \in Locked(q)
              /\ seen'[q][l] = seen[q][l]
  BY DEF Ends, TypeOK, Locked

LEMMA LockedRow ==
  ASSUME NEW r \in Request, NEW l \in Locked(r), Inv
  PROVE  /\ l \in Lead
         /\ seen[r][l] \in SeenRow
         /\ Sound(seen[r][l].row)
         /\ lead[l] # Null => seen[r][l].row = lead[l]
<1>1. l \in Lead /\ seen[r][l] \in SeenRow
  BY DEF Inv, TypeOK, Locked
<1>2. CASE lead[l] # Null
  BY <1>1, <1>2 DEF Inv, TypeOK, LockedIsCurrent, SalesLeadWorkable, StageMatchesScore, Sound
<1>3. CASE lead[l] = Null
  BY <1>1, <1>3 DEF Inv, LockedIsCurrent
<1> QED
  BY <1>1, <1>2, <1>3

LEMMA MovesKeepInv ==
  ASSUME NEW r \in Request, NEW new, Inv, MovesAll(r, new),
         \A l \in Locked(r) : Sound(new[l])
  PROVE  Inv'
<1>1. /\ lead' = [l \in Lead |-> IF l \in Locked(r) THEN new[l] ELSE lead[l]]
      /\ assignment' = [l \in Lead |-> IF l \in Locked(r)
                                       THEN Assigned(seen[r][l].row.holder, new[l])
                                       ELSE assignment[l]]
      /\ Ends(r)
      /\ UNCHANGED <<testing, training, closing, eligible>>
  BY DEF MovesAll
<1>2. /\ seen' \in [Request -> [Lead -> SeenRow \cup {Null}]]
      /\ \A l \in Lead : l \notin Locked(r)'
      /\ \A q \in Request \ {r}, l \in Lead :
           /\ (l \in Locked(q))' <=> l \in Locked(q)
           /\ seen'[q][l] = seen[q][l]
  BY <1>1, EndsUnlocks DEF Inv
<1>3. \A l \in Locked(r) : Assigned(seen[r][l].row.holder, new[l]) \in AssignmentRow
  <2> TAKE l \in Locked(r)
  <2>1. new[l] \in LeadRow /\ seen[r][l] \in SeenRow
    BY LockedRow DEF Sound
  <2> QED
    BY <2>1 DEF Assigned, AssignmentRow, LeadRow, SeenRow
<1>4. TypeOK'
  <2>1. lead' \in [Lead -> LeadRow \cup {Null}]
    BY <1>1 DEF Inv, TypeOK, Sound
  <2>2. assignment' \in [Lead -> AssignmentRow \cup {Null}]
    BY <1>1, <1>3 DEF Inv, TypeOK
  <2> QED
    BY <1>1, <1>2, <2>1, <2>2 DEF Inv, TypeOK
<1>5. LockedIsCurrent'
  <2> SUFFICES ASSUME NEW q \in Request, NEW l \in Lead, (l \in Locked(q))'
               PROVE  (IF lead[l] # Null THEN seen[q][l].row = lead[l]
                                         ELSE Sound(seen[q][l].row))'
    BY DEF LockedIsCurrent
  <2>1. q # r /\ l \in Locked(q) /\ seen'[q][l] = seen[q][l]
    BY <1>2
  <2>2. l \notin Locked(r)
    BY <2>1 DEF Inv, LockedByOne
  <2>3. lead'[l] = lead[l]
    BY <1>1, <2>2
  <2> QED
    BY <2>1, <2>3 DEF Inv, LockedIsCurrent, Sound, Workable, StageFits
<1>6. LockedByOne'
  BY <1>2 DEF Inv, LockedByOne
<1>7. AssignmentAgrees'
  <2> SUFFICES ASSUME NEW l \in Lead, lead'[l] # Null
               PROVE  /\ assignment'[l] # Null
                      /\ assignment'[l].to = lead'[l].holder
                      /\ assignment'[l].role = lead'[l].role
                      /\ assignment'[l].supervisor = lead'[l].supervisor
    BY DEF AssignmentAgrees
  <2>1. CASE l \in Locked(r)
    <3>1. assignment'[l] = Assigned(seen[r][l].row.holder, new[l]) /\ lead'[l] = new[l]
      BY <1>1, <2>1
    <3>2. assignment'[l] \in AssignmentRow
      BY <1>3, <2>1, <3>1
    <3>3. assignment'[l] # Null
      BY <3>2, NullAssumption
    <3> QED
      BY <3>1, <3>3 DEF Assigned
  <2>2. CASE l \notin Locked(r)
    BY <1>1, <2>2 DEF Inv, AssignmentAgrees
  <2> QED
    BY <2>1, <2>2
<1>8. SalesLeadWorkable' /\ StageMatchesScore'
  <2> SUFFICES ASSUME NEW l \in Lead, lead'[l] # Null
               PROVE  Workable(lead'[l]) /\ StageFits(lead'[l])
    BY DEF SalesLeadWorkable, StageMatchesScore, Workable, StageFits
  <2>1. CASE l \in Locked(r)
    BY <1>1, <2>1 DEF Sound
  <2>2. CASE l \notin Locked(r)
    BY <1>1, <2>2 DEF Inv, SalesLeadWorkable, StageMatchesScore
  <2> QED
    BY <2>1, <2>2
<1>9. NoOrphans'
  BY <1>1, NullAssumption DEF Inv, NoOrphans, Sound
<1> QED
  BY <1>4, <1>5, <1>6, <1>7, <1>8, <1>9 DEF Inv

LEMMA WrittenRow ==
  ASSUME NEW old, Sound(old), NEW row, Sound(row),
         row.holder = old.holder, row.role = old.role,
         row.supervisor = old.supervisor, row.sales = old.sales
  PROVE  LET new == [old EXCEPT !.stage = row.stage, !.status = row.status,
                                !.score = row.score, !.invalidatedBy = row.invalidatedBy]
         IN /\ Sound(new)
            /\ new.holder = old.holder /\ new.role = old.role
            /\ new.supervisor = old.supervisor
<1> DEFINE new == [old EXCEPT !.stage = row.stage, !.status = row.status,
                              !.score = row.score, !.invalidatedBy = row.invalidatedBy]
<1>1. old \in LeadRow /\ row \in LeadRow
  BY DEF Sound
<1>2. /\ new.holder = old.holder /\ new.role = old.role
      /\ new.supervisor = old.supervisor /\ new.sales = old.sales
      /\ new.stage = row.stage /\ new.status = row.status
      /\ new.score = row.score /\ new.invalidatedBy = row.invalidatedBy
  BY <1>1 DEF LeadRow
<1>3. new \in LeadRow
  <2>1. /\ row.stage \in {"NEW", "POSSIBLE", "POTENTIAL", "CLOSING", "INVALID"}
        /\ row.status \in {"OPEN", "INVALID"}
        /\ row.score \in 0..3
        /\ row.invalidatedBy \in Sales \cup {Null}
    BY <1>1 DEF LeadRow
  <2> QED
    BY <1>1, <2>1 DEF LeadRow
<1> HIDE DEF new
<1>4. Workable(new)
  BY <1>2 DEF Sound, Workable
<1>5. StageFits(new)
  BY <1>2 DEF Sound, StageFits
<1>6. Sound(new)
  BY <1>3, <1>4, <1>5 DEF Sound
<1> QED
  BY <1>2, <1>6 DEF new

\* A handler that writes stage and score of the one lead it has locked, as it
\* computed them from the row it read
LEMMA WritesKeepInv ==
  ASSUME NEW r \in Request, NEW l \in Lead, NEW row, Inv,
         Locked(r) = {l}, lead[l] # Null, Writes(r, l, row),
         Sound(row), row.holder = lead[l].holder, row.role = lead[l].role,
         row.supervisor = lead[l].supervisor, row.sales = lead[l].sales,
         training' \in [Training -> TrainingRow \cup {Null}],
         closing' \in [Closing -> ClosingRow \cup {Null}]
  PROVE  Inv'
<1> DEFINE new == [lead[l] EXCEPT !.stage = row.stage, !.status = row.status,
                                  !.score = row.score, !.invalidatedBy = row.invalidatedBy]
<1>1. /\ lead' = [lead EXCEPT ![l] = new]
      /\ Ends(r)
      /\ UNCHANGED <<assignment, testing, eligible>>
  BY DEF Writes
<1>2. /\ seen' \in [Request -> [Lead -> SeenRow \cup {Null}]]
      /\ \A k \in Lead : k \notin Locked(r)'
      /\ \A q \in Request \ {r}, k \in Lead :
           /\ (k \in Locked(q))' <=> k \in Locked(q)
           /\ seen'[q][k] = seen[q][k]
  BY <1>1, EndsUnlocks DEF Inv
<1>3. Sound(lead[l])
  BY DEF Inv, TypeOK, SalesLeadWorkable, StageMatchesScore, Sound
<1>4. /\ Sound(new)
      /\ new.holder = lead[l].holder /\ new.role = lead[l].role
      /\ new.supervisor = lead[l].supervisor
  BY <1>3, WrittenRow
<1> HIDE DEF new
<1>5. lead'[l] = new /\ \A k \in Lead \ {l} : lead'[k] = lead[k]
  BY <1>1 DEF Inv, TypeOK
<1>6. TypeOK'
  <2>1. lead' \in [Lead -> LeadRow \cup {Null}]
    BY <1>1, <1>4 DEF Inv, TypeOK, Sound
  <2> QED
    BY <1>1, <1>2, <2>1 DEF Inv, TypeOK
<1>7. LockedIsCurrent'
  <2> SUFFICES ASSUME NEW q \in Request, NEW k \in Lead, (k \in Locked(q))'
               PROVE  (IF lead[k] # Null THEN seen[q][k].row = lead[k]
                                         ELSE Sound(seen[q][k].row))'
    BY DEF LockedIsCurrent
  <2>1. q # r /\ k \in Locked(q) /\ seen'[q][k] = seen[q][k]
    BY <1>2
  <2>2. k # l
    BY <2>1 DEF Inv, LockedByOne
  <2>3. lead'[k] = lead[k]
    BY <1>5, <2>2
  <2> QED
    BY <2>1, <2>3 DEF Inv, LockedIsCurrent, Sound, Workable, StageFits
<1>8. LockedByOne'
  BY <1>2 DEF Inv, LockedByOne
<1>9. AssignmentAgrees'
  BY <1>1, <1>4, <1>5 DEF Inv, AssignmentAgrees
<1>10. SalesLeadWorkable' /\ StageMatchesScore'
  <2> SUFFICES ASSUME NEW k \in Lead, lead'[k] # Null
               PROVE  Workable(lead'[k]) /\ StageFits(lead'[k])
    BY DEF SalesLeadWorkable, StageMatchesScore, Workable, StageFits
  <2>1. CASE k = l
    BY <1>4, <1>5, <2>1 DEF Sound
  <2>2. CASE k # l
    BY <1>5, <2>2 DEF Inv, SalesLeadWorkable, StageMatchesScore
  <2> QED
    BY <2>1, <2>2
<1>11. NoOrphans'
  BY <1>1, <1>4, <1>5, NullAssumption DEF Inv, NoOrphans, Sound
<1> QED
  BY <1>6, <1>7, <1>8, <1>9, <1>10, <1>11 DEF Inv

-----------------------------------------------------------------------------
(***************************************************************************)
(* Steps that write no lead.                                               *)
(***************************************************************************)
LEMMA LeadsUntouched ==
  ASSUME Inv, UNCHANGED <<lead, assignment, seen>>, testing' \subseteq Lead,
         eligible' \subseteq Lead,
         training' \in [Training -> TrainingRow \cup {Null}],
         closing' \in [Closing -> ClosingRow \cup {Null}]
  PROVE  Inv'
<1>1. TypeOK'
  BY DEF Inv, TypeOK
<1>2. LockedIsCurrent' /\ LockedByOne'
  BY DEF Inv, LockedIsCurrent, LockedByOne, Locked, Sound, Workable, StageFits
<1>3. NoOrphans' /\ AssignmentAgrees' /\ SalesLeadWorkable' /\ StageMatchesScore'
  BY DEF Inv, NoOrphans, AssignmentAgrees, SalesLeadWorkable, StageMatchesScore, Workable, StageFits
<1> QED
  BY <1>1, <1>2, <1>3 DEF Inv

LEMMA RollsBackKeepsInv ==
  ASSUME NEW r \in Request, Inv, RollsBack(r)
  PROVE  Inv'
<1>1. /\ Ends(r)
      /\ UNCHANGED <<lead, assignment, testing, training, closing, eligible>>
  BY DEF RollsBack
<1>2. /\ seen' \in [Request -> [Lead -> SeenRow \cup {Null}]]
      /\ \A l \in Lead : l \notin Locked(r)'
      /\ \A q \in Request \ {r}, l \in Lead :
           /\ (l \in Locked(q))' <=> l \in Locked(q)
           /\ seen'[q][l] = seen[q][l]
  BY <1>1, EndsUnlocks DEF Inv
<1>3. TypeOK'
  BY <1>1, <1>2 DEF Inv, TypeOK
<1>4. LockedIsCurrent'
  <2> SUFFICES ASSUME NEW q \in Request, NEW l \in Lead, (l \in Locked(q))'
               PROVE  (IF lead[l] # Null THEN seen[q][l].row = lead[l]
                                         ELSE Sound(seen[q][l].row))'
    BY DEF LockedIsCurrent
  <2>1. q # r /\ l \in Locked(q) /\ seen'[q][l] = seen[q][l] /\ lead'[l] = lead[l]
    BY <1>1, <1>2
  <2> QED
    BY <2>1 DEF Inv, LockedIsCurrent, Sound, Workable, StageFits
<1>5. LockedByOne'
  BY <1>2 DEF Inv, LockedByOne
<1>6. NoOrphans' /\ AssignmentAgrees' /\ SalesLeadWorkable' /\ StageMatchesScore'
  BY <1>1 DEF Inv, NoOrphans, AssignmentAgrees, SalesLeadWorkable, StageMatchesScore, Workable, StageFits
<1> QED
  BY <1>3, <1>4, <1>5, <1>6 DEF Inv

\* A lock is taken only on a lead no other request has locked.
LEMMA LockKeepsInv ==
  ASSUME NEW r \in Request, NEW s \in [Lead -> SeenRow \cup {Null}], Inv,
         seen' = [seen EXCEPT ![r] = s], Locked(r) = {},
         UNCHANGED <<lead, assignment, testing, training, closing, eligible>>,
         \A l \in Lead : s[l] # Null =>
           /\ Free(l)
           /\ IF lead[l] # Null THEN s[l].row = lead[l] ELSE Sound(s[l].row)
  PROVE  Inv'
<1>1. /\ seen' \in [Request -> [Lead -> SeenRow \cup {Null}]]
      /\ \A l \in Lead : seen'[r][l] = s[l]
      /\ \A q \in Request \ {r}, l \in Lead : seen'[q][l] = seen[q][l]
  BY DEF Inv, TypeOK
<1>2. TypeOK'
  BY <1>1 DEF Inv, TypeOK
<1>3. LockedIsCurrent'
  <2> SUFFICES ASSUME NEW q \in Request, NEW l \in Lead, seen'[q][l] # Null
               PROVE  IF lead[l] # Null THEN seen'[q][l].row = lead[l]
                                        ELSE Sound(seen'[q][l].row)
    BY DEF LockedIsCurrent, Locked, Sound, Workable, StageFits
  <2>1. CASE q = r
    BY <1>1, <2>1
  <2>2. CASE q # r
    BY <1>1, <2>2 DEF Inv, LockedIsCurrent, Locked
  <2> QED
    BY <2>1, <2>2
<1>4. LockedByOne'
  <2> SUFFICES ASSUME NEW q \in Request, NEW p \in Request, NEW l \in Lead,
                      seen'[q][l] # Null, seen'[p][l] # Null
               PROVE  q = p
    BY DEF LockedByOne, Locked
  <2> QED
    BY <1>1 DEF Inv, LockedByOne, Locked, Free
<1>5. NoOrphans' /\ AssignmentAgrees' /\ SalesLeadWorkable' /\ StageMatchesScore'
  BY DEF Inv, NoOrphans, AssignmentAgrees, SalesLeadWorkable, StageMatchesScore, Workable, StageFits
<1> QED
  BY <1>2, <1>3, <1>4, <1>5 DEF Inv

LEMMA LocksLeadsKeepsInv ==
  ASSUME NEW r \in Request, NEW ls \in SUBSET Lead, NEW found \in SUBSET ls,
         Inv, LocksLeads(r, ls, found)
  PROVE  Inv'
<1>1. PICK a \in Admin :
         seen' = [seen EXCEPT ![r] = [l \in Lead |->
             IF l \notin ls THEN Null
             ELSE [row |-> IF lead[l] = Null THEN NewLead(a) ELSE lead[l],
                   flag |-> IF l \notin found THEN "unread"
                            ELSE IF l \in testing THEN "testing" ELSE "regular"]]]
  BY DEF LocksLeads
<1> DEFINE s == [l \in Lead |->
             IF l \notin ls THEN Null
             ELSE [row |-> IF lead[l] = Null THEN NewLead(a) ELSE lead[l],
                   flag |-> IF l \notin found THEN "unread"
                            ELSE IF l \in testing THEN "testing" ELSE "regular"]]
<1>2. Sound(NewLead(a))
  BY NewLeadSound
<1>3. s \in [Lead -> SeenRow \cup {Null}]
  <2>1. \A l \in Lead : (IF lead[l] = Null THEN NewLead(a) ELSE lead[l]) \in LeadRow
    BY <1>2 DEF Inv, TypeOK, Sound
  <2> QED
    BY <2>1 DEF SeenRow
<1>4. \A l \in Lead : s[l] # Null =>
           /\ Free(l)
           /\ IF lead[l] # Null THEN s[l].row = lead[l] ELSE Sound(s[l].row)
  <2> SUFFICES ASSUME NEW l \in Lead, l \in ls
               PROVE  /\ Free(l)
                      /\ IF lead[l] # Null THEN s[l].row = lead[l] ELSE Sound(s[l].row)
    OBVIOUS
  <2>1. s[l].row = IF lead[l] = Null THEN NewLead(a) ELSE lead[l]
    OBVIOUS
  <2>2. Free(l)
    BY DEF LocksLeads
  <2> HIDE DEF s
  <2> QED
    BY <1>2, <2>1, <2>2
<1>5. /\ seen' = [seen EXCEPT ![r] = s] /\ Locked(r) = {}
      /\ UNCHANGED <<lead, assignment, testing, training, closing, eligible>>
  BY <1>1 DEF LocksLeads
<1> HIDE DEF s
<1> QED
  BY <1>3, <1>4, <1>5, LockKeepsInv

LEMMA LocksLeadKeepsInv ==
  ASSUME NEW r \in Request, NEW l \in Lead, Inv, LocksLead(r, l)
  PROVE  Inv'
<1> DEFINE s == [seen[r] EXCEPT ![l] = [row |-> lead[l], flag |-> "unread"]]
<1>1. /\ Locked(r) = {} /\ Free(l) /\ lead[l] # Null
      /\ seen' = [seen EXCEPT ![r] = s]
      /\ UNCHANGED <<lead, assignment, testing, training, closing, eligible>>
  BY DEF LocksLead
<1>2. s \in [Lead -> SeenRow \cup {Null}]
  <2>1. lead[l] \in LeadRow /\ seen[r] \in [Lead -> SeenRow \cup {Null}]
    BY <1>1 DEF Inv, TypeOK
  <2> QED
    BY <2>1 DEF SeenRow
<1>3. \A k \in Lead : s[k] # Null => k = l
  BY <1>1 DEF Inv, TypeOK, Locked
<1>4. s[l].row = lead[l]
  BY DEF Inv, TypeOK
<1> HIDE DEF s
<1> QED
  BY <1>1, <1>2, <1>3, <1>4, LockKeepsInv

LEMMA CreateLeadKeepsInv ==
  ASSUME NEW l \in Lead, NEW a \in Admin, Inv, CreateLead(l, a)
  PROVE  Inv'
<1>1. /\ lead' = [lead EXCEPT ![l] = NewLead(a)]
      /\ assignment' = [assignment EXCEPT ![l] = Assigned(Null, NewLead(a))]
      /\ UNCHANGED <<testing, training, closing, seen>> /\ eligible' = eligible \ {l}
      /\ \A r \in Request : l \notin Locked(r)
  BY DEF CreateLead, Free
<1>2. Sound(NewLead(a))
  BY NewLeadSound
<1>3. Assigned(Null, NewLead(a)) \in AssignmentRow
  BY DEF Assigned, NewLead, AssignmentRow, User
<1>4. TypeOK'
  BY <1>1, <1>2, <1>3 DEF Inv, TypeOK, Sound
<1>5. lead'[l] = NewLead(a) /\ \A k \in Lead \ {l} : lead'[k] = lead[k]
  BY <1>1 DEF Inv, TypeOK
<1>6. assignment'[l] = Assigned(Null, NewLead(a))
      /\ \A k \in Lead \ {l} : assignment'[k] = assignment[k]
  BY <1>1 DEF Inv, TypeOK
<1>7. LockedIsCurrent'
  <2> SUFFICES ASSUME NEW q \in Request, NEW k \in Lead, (k \in Locked(q))'
               PROVE  (IF lead[k] # Null THEN seen[q][k].row = lead[k]
                                         ELSE Sound(seen[q][k].row))'
    BY DEF LockedIsCurrent
  <2>1. k \in Locked(q) /\ seen'[q][k] = seen[q][k]
    BY <1>1 DEF Locked
  <2>2. lead'[k] = lead[k]
    BY <1>1, <1>5, <2>1
  <2> QED
    BY <2>1, <2>2 DEF Inv, LockedIsCurrent, Sound, Workable, StageFits
<1>8. LockedByOne'
  BY <1>1 DEF Inv, LockedByOne, Locked
<1>9. AssignmentAgrees'
  <2>1. Assigned(Null, NewLead(a)) # Null
    BY <1>3, NullAssumption
  <2> QED
    BY <1>5, <1>6, <2>1 DEF Inv, AssignmentAgrees, Assigned
<1>10. SalesLeadWorkable' /\ StageMatchesScore'
  <2> SUFFICES ASSUME NEW k \in Lead, lead'[k] # Null
               PROVE  Workable(lead'[k]) /\ StageFits(lead'[k])
    BY DEF SalesLeadWorkable, StageMatchesScore, Workable, StageFits
  <2>1. CASE k = l
    BY <1>2, <1>5, <2>1 DEF Sound
  <2>2. CASE k # l
    BY <1>5, <2>2 DEF Inv, SalesLeadWorkable, StageMatchesScore
  <2> QED
    BY <2>1, <2>2
<1>11. NoOrphans'
  BY <1>2, <1>5, <1>6, NullAssumption DEF Inv, NoOrphans, Sound
<1> QED
  BY <1>4, <1>7, <1>8, <1>9, <1>10, <1>11 DEF Inv

-----------------------------------------------------------------------------
(***************************************************************************)
(* Steps that write one.                                                   *)
(***************************************************************************)
LEMMA AssigningKeepsInv ==
  ASSUME NEW r \in Request, Inv,
         \/ \E s \in Supervisor : AssignSupervisor(r, s)
         \/ \E s \in Supervisor, x \in Sales : AssignSales(r, s, x)
         \/ \E u \in User, a \in Admin : ReleaseToAdmin(r, u, a)
  PROVE  Inv'
<1>1. ASSUME NEW s \in Supervisor, AssignSupervisor(r, s) PROVE Inv'
  <2> DEFINE new == [l \in Locked(r) |-> ToSupervisor(seen[r][l].row, s)]
  <2>1. \A l \in Locked(r) : Sound(new[l])
    BY LockedRow, ToSupervisorSound
  <2>2. MovesAll(r, new)
    BY <1>1 DEF AssignSupervisor
  <2> HIDE DEF new
  <2> QED
    BY <2>1, <2>2, MovesKeepInv
<1>2. ASSUME NEW s \in Supervisor, NEW x \in Sales, AssignSales(r, s, x) PROVE Inv'
  <2> DEFINE new == [l \in Locked(r) |-> ToSales(seen[r][l].row, s, x)]
  <2>1. \A l \in Locked(r) : Sound(new[l])
    BY LockedRow, ToSalesSound
  <2>2. MovesAll(r, new)
    BY <1>2 DEF AssignSales
  <2> HIDE DEF new
  <2> QED
    BY <2>1, <2>2, MovesKeepInv
<1>3. ASSUME NEW u \in User, NEW a \in Admin, ReleaseToAdmin(r, u, a) PROVE Inv'
  <2> DEFINE new == [l \in Locked(r) |-> ToAdmin(seen[r][l].row, a)]
  <2>1. \A l \in Locked(r) : Sound(new[l])
    BY LockedRow, ToAdminSound
  <2>2. MovesAll(r, new)
    BY <1>3 DEF ReleaseToAdmin
  <2> HIDE DEF new
  <2> QED
    BY <2>1, <2>2, MovesKeepInv
<1> QED
  BY <1>1, <1>2, <1>3

LEMMA InvalidatingKeepsInv ==
  ASSUME NEW r \in Request, NEW l \in Lead, NEW x \in Sales, Inv,
         MarkInvalid(r, l, x) \/ RemarkInvalid(r, l, x)
  PROVE  Inv'
<1>1. Locked(r) = {l} /\ seen[r][l].row.supervisor # Null
  BY DEF MarkInvalid, RemarkInvalid, MayWrite
<1> DEFINE new == [k \in {l} |-> Invalidated(seen[r][l].row, x)]
<1>2. \A k \in Locked(r) : Sound(new[k])
  BY <1>1, LockedRow, InvalidatedSound
<1>3. MovesAll(r, new)
  BY DEF MarkInvalid, RemarkInvalid
<1> HIDE DEF new
<1> QED
  BY <1>2, <1>3, MovesKeepInv

LEMMA MayWriteRow ==
  ASSUME NEW r \in Request, NEW l \in Lead, NEW u, Inv, MayWrite(r, l, u)
  PROVE  /\ Locked(r) = {l} /\ lead[l] # Null
         /\ seen[r][l].row = lead[l] /\ Sound(lead[l])
<1>1. Locked(r) = {l} /\ lead[l] # Null
  BY DEF MayWrite
<1> QED
  BY <1>1, LockedRow

LEMMA RemarkedHolder ==
  ASSUME NEW row, Sound(row), NEW score
  PROVE  LET new == Remarked(row, score)
         IN  /\ new.holder = row.holder /\ new.role = row.role
             /\ new.supervisor = row.supervisor /\ new.sales = row.sales
<1>1. CASE score = 1 /\ Sticky(row)
  BY <1>1 DEF Remarked, Sound, LeadRow
<1>2. CASE ~(score = 1 /\ Sticky(row))
  BY <1>2 DEF Remarked, At, Sound, LeadRow
<1> QED
  BY <1>1, <1>2

LEMMA RemarkKeepsInv ==
  ASSUME NEW r \in Request, NEW l \in Lead, NEW u, NEW score, Inv, Remark(r, l, u, score)
  PROVE  Inv'
<1>1. /\ MayWrite(r, l, u) /\ score \in LowScores
      /\ Writes(r, l, Remarked(seen[r][l].row, score))
      /\ UNCHANGED <<training, closing>>
  BY DEF Remark
<1>2. /\ Locked(r) = {l} /\ lead[l] # Null
      /\ seen[r][l].row = lead[l] /\ Sound(lead[l])
  BY <1>1, MayWriteRow
<1> DEFINE row == Remarked(lead[l], score)
<1>3. Sound(row)
  BY <1>1, <1>2, RemarkedSound
<1>4. /\ row.holder = lead[l].holder /\ row.role = lead[l].role
      /\ row.supervisor = lead[l].supervisor /\ row.sales = lead[l].sales
  BY <1>2, RemarkedHolder
<1>5. Writes(r, l, row)
  BY <1>1, <1>2
<1>6. /\ training' \in [Training -> TrainingRow \cup {Null}]
      /\ closing' \in [Closing -> ClosingRow \cup {Null}]
  BY <1>1 DEF Inv, TypeOK
<1> HIDE DEF row
<1> QED
  BY <1>2, <1>3, <1>4, <1>5, <1>6, WritesKeepInv

LEMMA TrainingKeepsInv ==
  ASSUME NEW r \in Request, NEW l \in Lead, NEW u, NEW t \in Training, Inv,
         \/ \E named \in {l, Null} : ScheduleTraining(r, l, u, t, named)
         \/ \E status \in {"COMPLETED", "CANCELED"} : DecideTraining(r, l, u, t, status)
  PROVE  Inv'
<1>1. MayWrite(r, l, u) /\ Writes(r, l, lead[l]) /\ closing' = closing
  BY DEF ScheduleTraining, DecideTraining
<1>2. /\ Locked(r) = {l} /\ lead[l] # Null
      /\ seen[r][l].row = lead[l] /\ Sound(lead[l])
  BY <1>1, MayWriteRow
<1>3. training' \in [Training -> TrainingRow \cup {Null}]
  <2>1. ASSUME NEW named, ScheduleTraining(r, l, u, t, named)
        PROVE  training' \in [Training -> TrainingRow \cup {Null}]
    BY <2>1 DEF ScheduleTraining, TrainingRow, Inv, TypeOK
  <2>2. ASSUME NEW status \in {"COMPLETED", "CANCELED"}, DecideTraining(r, l, u, t, status)
        PROVE  training' \in [Training -> TrainingRow \cup {Null}]
    <3>1. training' = [training EXCEPT ![t].status = status] /\ training[t] # Null
      BY <2>2, NullAssumption DEF DecideTraining, TrainingRow
    <3>2. [training[t] EXCEPT !.status = status] \in TrainingRow
      BY <3>1 DEF TrainingRow, Inv, TypeOK
    <3> QED
      BY <3>1, <3>2 DEF Inv, TypeOK
  <2> QED
    BY <2>1, <2>2
<1>4. closing' \in [Closing -> ClosingRow \cup {Null}]
  BY <1>1 DEF Inv, TypeOK
<1> QED
  BY <1>1, <1>2, <1>3, <1>4, WritesKeepInv

LEMMA CreateClosingKeepsInv ==
  ASSUME NEW r \in Request, NEW l \in Lead, NEW x \in Sales, NEW c \in Closing, NEW named,
         Inv, CreateClosing(r, l, x, c, named)
  PROVE  Inv'
<1>1. /\ MayWrite(r, l, x) /\ SalesOwns(x, seen[r][l].row)
      /\ closing' = [closing EXCEPT ![c] =
             [lead |-> l, sales |-> seen[r][l].row.sales,
              supervisor |-> seen[r][l].row.supervisor,
              status |-> "PENDING_RECONCILIATION", deleted |-> FALSE]]
      /\ Writes(r, l, At(seen[r][l].row, "CLOSING", 3))
      /\ training' = training
  BY DEF CreateClosing
<1>2. /\ Locked(r) = {l} /\ lead[l] # Null
      /\ seen[r][l].row = lead[l] /\ Sound(lead[l])
  BY <1>1, MayWriteRow
<1> DEFINE row == At(lead[l], "CLOSING", 3)
<1>3. Sound(row)
  BY <1>2, AtSound
<1>4. /\ row.holder = lead[l].holder /\ row.role = lead[l].role
      /\ row.supervisor = lead[l].supervisor /\ row.sales = lead[l].sales
  BY <1>2 DEF At, Sound, LeadRow
<1>5. Writes(r, l, row)
  BY <1>1, <1>2
<1>6. closing' \in [Closing -> ClosingRow \cup {Null}]
  <2>1. lead[l].sales \in Sales
    BY <1>1, <1>2 DEF SalesOwns
  <2>2. lead[l].supervisor \in Supervisor \cup {Null}
    BY <1>2 DEF Sound, LeadRow
  <2>3. [lead |-> l, sales |-> lead[l].sales, supervisor |-> lead[l].supervisor,
         status |-> "PENDING_RECONCILIATION", deleted |-> FALSE] \in ClosingRow
    BY <2>1, <2>2 DEF ClosingRow
  <2> QED
    BY <1>1, <1>2, <2>3 DEF Inv, TypeOK
<1>7. training' \in [Training -> TrainingRow \cup {Null}]
  BY <1>1 DEF Inv, TypeOK
<1> HIDE DEF row
<1> QED
  BY <1>2, <1>3, <1>4, <1>5, <1>6, <1>7, WritesKeepInv

LEMMA ClosingKeepsInv ==
  ASSUME NEW c \in Closing, NEW u \in User, Inv,
         \/ \E status \in {"CONFIRMED", "REJECTED"} : UpdateStatus(c, u, status)
         \/ \E deleted \in BOOLEAN : MarkDeleted(c, u, deleted)
         \/ ForceDeleteClosing(c, u)
  PROVE  Inv'
<1>1. UNCHANGED <<lead, assignment, testing, training, eligible, seen>> /\ closing[c] # Null
  BY DEF UpdateStatus, MarkDeleted, ForceDeleteClosing
<1>2. closing[c] \in ClosingRow
  BY <1>1 DEF Inv, TypeOK
<1>3. closing' \in [Closing -> ClosingRow \cup {Null}]
  <2>1. ASSUME NEW status \in {"CONFIRMED", "REJECTED"}, UpdateStatus(c, u, status)
        PROVE  closing' \in [Closing -> ClosingRow \cup {Null}]
    <3>1. [closing[c] EXCEPT !.status = status] \in ClosingRow
      BY <1>2 DEF ClosingRow
    <3> QED
      BY <2>1, <3>1 DEF UpdateStatus, Inv, TypeOK
  <2>2. ASSUME NEW deleted \in BOOLEAN, MarkDeleted(c, u, deleted)
        PROVE  closing' \in [Closing -> ClosingRow \cup {Null}]
    <3>1. [closing[c] EXCEPT !.deleted = deleted] \in ClosingRow
      BY <1>2 DEF ClosingRow
    <3> QED
      BY <2>2, <3>1 DEF MarkDeleted, Inv, TypeOK
  <2>3. CASE ForceDeleteClosing(c, u)
    <3>1. [closing[c] EXCEPT !.status = "GONE", !.deleted = TRUE] \in ClosingRow
      BY <1>2 DEF ClosingRow
    <3> QED
      BY <2>3, <3>1 DEF ForceDeleteClosing, Inv, TypeOK
  <2> QED
    BY <2>1, <2>2, <2>3
<1> QED
  BY <1>1, <1>3, LeadsUntouched DEF Inv, TypeOK

-----------------------------------------------------------------------------
(***************************************************************************)
(* The theorems.                                                           *)
(***************************************************************************)
LEMMA InitInv == Init => Inv
  BY DEF Init, Inv, NoOrphans, TypeOK, LockedIsCurrent, LockedByOne, Locked, AssignmentAgrees,
         SalesLeadWorkable, StageMatchesScore

LEMMA NextInv == Inv /\ [Next]_vars => Inv'
<1> SUFFICES ASSUME Inv, [Next]_vars PROVE Inv'
  OBVIOUS
<1>1. CASE LeadNext
  <2>1. ASSUME NEW l \in Lead, SetTestingAccount(l) \/ EnsureOwnerEligible(l) PROVE Inv'
    BY <2>1, LeadsUntouched DEF SetTestingAccount, EnsureOwnerEligible, Inv, TypeOK
  <2>2. ASSUME NEW l \in Lead, NEW a \in Admin, CreateLead(l, a) PROVE Inv'
    BY <2>2, CreateLeadKeepsInv
  <2>3. ASSUME NEW r \in Request, RollsBack(r) PROVE Inv'
    BY <2>3, RollsBackKeepsInv
  <2>4. ASSUME NEW r \in Request, NEW ls \in SUBSET Lead, NEW found \in SUBSET ls,
               LocksLeads(r, ls, found) PROVE Inv'
    BY <2>4, LocksLeadsKeepsInv
  <2>5. ASSUME NEW r \in Request, NEW l \in Lead, LocksLead(r, l) PROVE Inv'
    BY <2>5, LocksLeadKeepsInv
  <2> QED
    BY <1>1, <2>1, <2>2, <2>3, <2>4, <2>5, AssigningKeepsInv DEF LeadNext
<1>2. CASE ActivityNext
  <2> SUFFICES ASSUME NEW r \in Request, NEW l \in Lead,
        \/ \E x \in Sales : MarkInvalid(r, l, x) \/ RemarkInvalid(r, l, x)
        \/ \E u \in User, score \in 0..3 : Remark(r, l, u, score)
        \/ \E u \in User, t \in Training :
             \/ \E named \in {l, Null} : ScheduleTraining(r, l, u, t, named)
             \/ \E status \in {"COMPLETED", "CANCELED"} : DecideTraining(r, l, u, t, status)
        \/ \E x \in Sales, c \in Closing, named \in {l, Null} : CreateClosing(r, l, x, c, named)
               PROVE Inv'
    BY <1>2 DEF ActivityNext
  <2> QED
    BY InvalidatingKeepsInv, RemarkKeepsInv, TrainingKeepsInv, CreateClosingKeepsInv
<1>3. CASE ClosingNext
  BY <1>3, ClosingKeepsInv DEF ClosingNext
<1>4. CASE UNCHANGED vars
  BY <1>4, LeadsUntouched DEF vars, Inv, TypeOK
<1> QED
  BY <1>1, <1>2, <1>3, <1>4 DEF Next

\* Every variable keeps its type (src/internal/lead, activity, closing).
THEOREM TypeCorrect == Spec => []TypeOK
<1>1. Inv => TypeOK
  BY DEF Inv
<1> QED
  BY <1>1, InitInv, NextInv, PTL DEF Spec

\* The inductive invariant: in particular the row a request decides from is the
\* row as it stands when it commits (SELECT ... FOR UPDATE in the three lockLead).
THEOREM Invariant == Spec => []Inv
  BY InitInv, NextInv, PTL DEF Spec

\* customer_leads and the active lead_assignments row agree.
THEOREM AssignmentsAgree == Spec => []AssignmentAgrees
<1>1. Inv => AssignmentAgrees
  BY DEF Inv
<1> QED
  BY <1>1, InitInv, NextInv, PTL DEF Spec

\* A lead in a sales person's hands is open, his, and has a supervisor.
THEOREM LeadsWorkable == Spec => []SalesLeadWorkable
<1>1. Inv => SalesLeadWorkable
  BY DEF Inv
<1> QED
  BY <1>1, InitInv, NextInv, PTL DEF Spec

\* A lead's stage says what its score says.
THEOREM StagesMatch == Spec => []StageMatchesScore
<1>1. Inv => StageMatchesScore
  BY DEF Inv
<1> QED
  BY <1>1, InitInv, NextInv, PTL DEF Spec

\* The condition of the lists and the test on the locked row agree.
THEOREM ListsAgree == Spec => []ListedIsSeen
<1>1. Inv => ListedIsSeen
  <2> SUFFICES ASSUME Inv, NEW l \in Lead, lead[l] # Null, NEW u \in User
               PROVE  Listed(u, lead[l]) <=> CanSee(u, lead[l])
    BY DEF ListedIsSeen
  <2>1. lead[l] \in LeadRow /\ Workable(lead[l])
    BY DEF Inv, TypeOK, SalesLeadWorkable
  <2>2. CASE u \in Admin
    BY <2>2, RoleAssumption DEF Listed, CanSee
  <2>3. CASE u \in Supervisor
    <3>1. lead[l].holder = u => lead[l].role = "SUPERVISOR"
      BY <2>1, <2>3, RoleAssumption DEF Workable, Role
    <3>2. u \notin Admin
      BY <2>3, RoleAssumption
    <3> QED
      BY <2>3, <3>1, <3>2 DEF Listed, CanSee, BelongsTo
  <2>4. CASE u \in Sales
    BY <2>4, RoleAssumption DEF Listed, CanSee
  <2> QED
    BY <2>2, <2>3, <2>4 DEF User
<1> QED
  BY <1>1, InitInv, NextInv, PTL DEF Spec

LEMMA MovesChain ==
  ASSUME NEW r \in Request, NEW new, Inv, MovesAll(r, new),
         NEW l \in Lead, assignment'[l] # assignment[l], assignment[l] # Null
  PROVE  assignment'[l].from = assignment[l].to
<1>1. assignment'[l] = IF l \in Locked(r) THEN Assigned(seen[r][l].row.holder, new[l])
                                           ELSE assignment[l]
  BY DEF MovesAll
<1>2. l \in Locked(r) /\ assignment'[l].from = seen[r][l].row.holder
  BY <1>1 DEF Assigned
<1>3. seen[r][l].row = lead[l] /\ assignment[l].to = lead[l].holder
  BY <1>2 DEF Inv, NoOrphans, LockedIsCurrent, AssignmentAgrees
<1> QED
  BY <1>2, <1>3

\* Every move of a lead starts from the user the last one went to.
THEOREM ChainsUnbroken == Spec => ChainUnbroken
<1> DEFINE A == \A l \in Lead : assignment'[l] # assignment[l] /\ assignment[l] # Null =>
                   assignment'[l].from = assignment[l].to
<1>1. Inv /\ [Next]_vars => [A]_vars
  <2> SUFFICES ASSUME Inv, Next, NEW l \in Lead,
                      assignment'[l] # assignment[l], assignment[l] # Null
               PROVE  assignment'[l].from = assignment[l].to
    OBVIOUS
  <2>1. ASSUME NEW r \in Request, NEW new, MovesAll(r, new)
        PROVE  assignment'[l].from = assignment[l].to
    BY <2>1, MovesChain
  <2>2. CASE LeadNext
    <3>1. ASSUME NEW k \in Lead, NEW a \in Admin, CreateLead(k, a) PROVE FALSE
      BY <3>1 DEF CreateLead, Inv, NoOrphans, TypeOK
    <3>2. assignment' # assignment
      OBVIOUS
    <3> QED
      BY <2>1, <2>2, <3>1, <3>2
         DEF LeadNext, SetTestingAccount, EnsureOwnerEligible, RollsBack, LocksLeads, LocksLead,
             AssignSupervisor, AssignSales, ReleaseToAdmin
  <2>3. CASE ActivityNext
    <3>1. assignment' # assignment
      OBVIOUS
    <3>2. ASSUME NEW r \in Request, NEW k \in Lead, NEW x \in Sales,
                 MarkInvalid(r, k, x) \/ RemarkInvalid(r, k, x)
          PROVE  assignment'[l].from = assignment[l].to
      BY <2>1, <3>2 DEF MarkInvalid, RemarkInvalid
    <3>3. ASSUME NEW r \in Request, NEW k \in Lead, NEW row, Writes(r, k, row)
          PROVE  FALSE
      BY <3>1, <3>3 DEF Writes
    <3>4. ASSUME NEW r \in Request, NEW k \in Lead, NEW u \in User, NEW score, Remark(r, k, u, score)
          PROVE  FALSE
      BY <3>3, <3>4 DEF Remark
    <3>5. ASSUME NEW r \in Request, NEW k \in Lead, NEW u \in User, NEW t \in Training,
                 \/ \E named \in {k, Null} : ScheduleTraining(r, k, u, t, named)
                 \/ \E status \in {"COMPLETED", "CANCELED"} : DecideTraining(r, k, u, t, status)
          PROVE  FALSE
      BY <3>3, <3>5 DEF ScheduleTraining, DecideTraining
    <3>6. ASSUME NEW r \in Request, NEW k \in Lead, NEW x \in Sales, NEW c \in Closing, NEW named,
                 CreateClosing(r, k, x, c, named)
          PROVE  FALSE
      BY <3>3, <3>6 DEF CreateClosing
    <3> QED
      BY <2>3, <3>2, <3>4, <3>5, <3>6 DEF ActivityNext
  <2>4. CASE ClosingNext
    BY <2>4 DEF ClosingNext, UpdateStatus, MarkDeleted, ForceDeleteClosing
  <2> QED
    BY <2>2, <2>3, <2>4 DEF Next
<1>2. Spec => []Inv
  BY Invariant
<1> QED
  BY <1>1, <1>2, PTL DEF Spec, ChainUnbroken

-----------------------------------------------------------------------------
(***************************************************************************)
(* Score 3 comes from a closing.  A request carries the row it read over   *)
(* to its commit, so that row's score must be accounted for as well.       *)
(***************************************************************************)
Reported(l) == \E c \in Closing : closing[c] # Null /\ closing[c].lead = l

SeenReported ==
    \A r \in Request, l \in Lead : l \in Locked(r) /\ seen[r][l].row.score = 3 => Reported(l)

ReportInv == ClosingReported /\ SeenReported

\* A closing stays, marked when it is erased, and names the same lead.
LEMMA ReportsStay ==
  ASSUME Inv, [Next]_vars, NEW l \in Lead, Reported(l)
  PROVE  Reported(l)'
<1>1. PICK c \in Closing : closing[c] # Null /\ closing[c].lead = l
  BY DEF Reported
<1>2. closing \in [Closing -> ClosingRow \cup {Null}] /\ closing[c] \in ClosingRow
  BY <1>1 DEF Inv, TypeOK
<1>3. closing'[c] # Null /\ closing'[c].lead = l
  <2>1. CASE UNCHANGED closing
    BY <1>1, <2>1
  <2>2. ASSUME NEW r \in Request, NEW k \in Lead, NEW x \in Sales, NEW d \in Closing, NEW named,
               CreateClosing(r, k, x, d, named)
        PROVE  closing'[c] = closing[c]
    BY <1>1, <1>2, <2>2 DEF CreateClosing
  <2>3. ASSUME NEW d \in Closing, NEW new \in ClosingRow, closing[d] # Null,
               new.lead = closing[d].lead, closing' = [closing EXCEPT ![d] = new]
        PROVE  closing'[c] # Null /\ closing'[c].lead = l
    BY <1>1, <1>2, <2>3, NullAssumption
  <2>4. ASSUME NEW d \in Closing, NEW u \in User, NEW status \in {"CONFIRMED", "REJECTED"},
               UpdateStatus(d, u, status)
        PROVE  closing'[c] # Null /\ closing'[c].lead = l
    <3>1. /\ closing[d] # Null /\ closing[d] \in ClosingRow
          /\ closing' = [closing EXCEPT ![d] = [closing[d] EXCEPT !.status = status]]
      BY <1>2, <2>4 DEF UpdateStatus
    <3>2. [closing[d] EXCEPT !.status = status] \in ClosingRow
      BY <3>1 DEF ClosingRow
    <3>3. [closing[d] EXCEPT !.status = status].lead = closing[d].lead
      BY <3>1 DEF ClosingRow
    <3> QED
      BY <2>3, <3>1, <3>2, <3>3
  <2>5. ASSUME NEW d \in Closing, NEW u \in User, NEW deleted \in BOOLEAN,
               MarkDeleted(d, u, deleted)
        PROVE  closing'[c] # Null /\ closing'[c].lead = l
    <3>1. /\ closing[d] # Null /\ closing[d] \in ClosingRow
          /\ closing' = [closing EXCEPT ![d] = [closing[d] EXCEPT !.deleted = deleted]]
      BY <1>2, <2>5 DEF MarkDeleted
    <3>2. [closing[d] EXCEPT !.deleted = deleted] \in ClosingRow
      BY <3>1 DEF ClosingRow
    <3>3. [closing[d] EXCEPT !.deleted = deleted].lead = closing[d].lead
      BY <3>1 DEF ClosingRow
    <3> QED
      BY <2>3, <3>1, <3>2, <3>3
  <2>6. ASSUME NEW d \in Closing, NEW u \in User, ForceDeleteClosing(d, u)
        PROVE  closing'[c] # Null /\ closing'[c].lead = l
    <3> DEFINE new == [closing[d] EXCEPT !.status = "GONE", !.deleted = TRUE]
    <3>1. /\ closing[d] # Null /\ closing[d] \in ClosingRow
          /\ closing' = [closing EXCEPT ![d] = new]
      BY <1>2, <2>6 DEF ForceDeleteClosing
    <3>2. new \in ClosingRow /\ new.lead = closing[d].lead
      BY <3>1 DEF ClosingRow
    <3> HIDE DEF new
    <3> QED
      BY <2>3, <3>1, <3>2
  <2>7. CASE LeadNext
    <3> UNCHANGED closing
      BY <2>7 DEF LeadNext, SetTestingAccount, EnsureOwnerEligible, CreateLead, RollsBack,
                  LocksLeads, LocksLead, AssignSupervisor, AssignSales, ReleaseToAdmin, MovesAll
    <3> QED
      BY <2>1
  <2>8. CASE ActivityNext
    BY <1>1, <2>1, <2>2, <2>8
       DEF ActivityNext, MarkInvalid, RemarkInvalid, MovesAll, Remark, ScheduleTraining,
           DecideTraining
  <2>9. CASE ClosingNext
    BY <2>4, <2>5, <2>6, <2>9 DEF ClosingNext
  <2> QED
    BY <2>1, <2>7, <2>8, <2>9 DEF Next, vars
<1> QED
  BY <1>3 DEF Reported

\* The locks a step leaves alone, and leads it leaves alone
LEMMA OthersReported ==
  ASSUME Inv, ReportInv, [Next]_vars, NEW r \in Request, Ends(r),
         NEW ls \in SUBSET Lead, \A l \in Lead \ ls : lead'[l] = lead[l],
         \A l \in ls : lead'[l] # Null /\ lead'[l].score = 3 => Reported(l)'
  PROVE  ReportInv'
<1>1. \A l \in Lead : Reported(l) => Reported(l)'
  BY ReportsStay
<1>2. /\ \A l \in Lead : l \notin Locked(r)'
      /\ \A q \in Request \ {r}, l \in Lead :
           /\ (l \in Locked(q))' <=> l \in Locked(q)
           /\ seen'[q][l] = seen[q][l]
  BY EndsUnlocks DEF Inv
<1>3. ClosingReported'
  BY <1>1 DEF ReportInv, ClosingReported, Reported
<1>4. SeenReported'
  BY <1>1, <1>2 DEF ReportInv, SeenReported
<1> QED
  BY <1>3, <1>4 DEF ReportInv

\* A move takes no score to 3.
LEMMA MovesReported ==
  ASSUME Inv, ReportInv, [Next]_vars, NEW r \in Request, NEW new, MovesAll(r, new),
         \A l \in Locked(r) : new[l].score = 3 => seen[r][l].row.score = 3
  PROVE  ReportInv'
<1>1. /\ Ends(r)
      /\ \A l \in Lead \ Locked(r) : lead'[l] = lead[l]
      /\ \A l \in Locked(r) : l \in Lead /\ lead'[l] = new[l]
  BY DEF MovesAll, Locked
<1>2. \A l \in Locked(r) : lead'[l] # Null /\ lead'[l].score = 3 => Reported(l)'
  BY <1>1, ReportsStay DEF ReportInv, SeenReported
<1> QED
  BY <1>1, <1>2, OthersReported DEF Locked

LEMMA AssigningReported ==
  ASSUME Inv, ReportInv, [Next]_vars, NEW r \in Request,
         \/ \E s \in Supervisor :
              AssignSupervisor(r, s) \/ \E x \in Sales : AssignSales(r, s, x)
         \/ \E u \in User, a \in Admin : ReleaseToAdmin(r, u, a)
         \/ \E l \in Lead, x \in Sales : MarkInvalid(r, l, x) \/ RemarkInvalid(r, l, x)
  PROVE  ReportInv'
<1>1. ASSUME NEW s \in Supervisor, AssignSupervisor(r, s) PROVE ReportInv'
  <2> DEFINE new == [l \in Locked(r) |-> ToSupervisor(seen[r][l].row, s)]
  <2>1. MovesAll(r, new)
    BY <1>1 DEF AssignSupervisor
  <2>2. \A l \in Locked(r) : new[l].score = 3 => seen[r][l].row.score = 3
    BY DEF ToSupervisor, Moved
  <2> HIDE DEF new
  <2> QED
    BY <2>1, <2>2, MovesReported
<1>2. ASSUME NEW s \in Supervisor, NEW x \in Sales, AssignSales(r, s, x) PROVE ReportInv'
  <2> DEFINE new == [l \in Locked(r) |-> ToSales(seen[r][l].row, s, x)]
  <2>1. MovesAll(r, new)
    BY <1>2 DEF AssignSales
  <2>2. \A l \in Locked(r) : new[l].score = 3 => seen[r][l].row.score = 3
    BY DEF ToSales, Moved
  <2> HIDE DEF new
  <2> QED
    BY <2>1, <2>2, MovesReported
<1>3. ASSUME NEW u \in User, NEW a \in Admin, ReleaseToAdmin(r, u, a) PROVE ReportInv'
  <2> DEFINE new == [l \in Locked(r) |-> ToAdmin(seen[r][l].row, a)]
  <2>1. MovesAll(r, new)
    BY <1>3 DEF ReleaseToAdmin
  <2>2. \A l \in Locked(r) : new[l].score = 3 => seen[r][l].row.score = 3
    BY DEF ToAdmin, Moved
  <2> HIDE DEF new
  <2> QED
    BY <2>1, <2>2, MovesReported
<1>4. ASSUME NEW l \in Lead, NEW x \in Sales, MarkInvalid(r, l, x) \/ RemarkInvalid(r, l, x)
      PROVE  ReportInv'
  <2> DEFINE new == [k \in {l} |-> Invalidated(seen[r][l].row, x)]
  <2>1. MovesAll(r, new) /\ Locked(r) = {l}
    BY <1>4 DEF MarkInvalid, RemarkInvalid, MayWrite
  <2>2. \A k \in Locked(r) : new[k].score = 3 => seen[r][k].row.score = 3
    BY <2>1 DEF Invalidated
  <2> HIDE DEF new
  <2> QED
    BY <2>1, <2>2, MovesReported
<1> QED
  BY <1>1, <1>2, <1>3, <1>4

\* A write to the one locked lead takes its score to 3 only with a closing.
LEMMA WritesReported ==
  ASSUME Inv, ReportInv, [Next]_vars, NEW r \in Request, NEW l \in Lead, NEW row,
         lead[l] # Null, Writes(r, l, row), row.score = 3 => Reported(l)'
  PROVE  ReportInv'
<1>1. /\ Ends(r)
      /\ \A k \in Lead \ {l} : lead'[k] = lead[k]
      /\ lead'[l].score = row.score
  BY DEF Writes, Inv, TypeOK, LeadRow
<1> DEFINE ls == {l}
<1>2. /\ ls \in SUBSET Lead
      /\ \A k \in Lead \ ls : lead'[k] = lead[k]
      /\ \A k \in ls : lead'[k] # Null /\ lead'[k].score = 3 => Reported(k)'
  BY <1>1
<1> HIDE DEF ls
<1> QED
  BY <1>1, <1>2, OthersReported

LEMMA ActivityReported ==
  ASSUME Inv, ReportInv, ActivityNext
  PROVE  ReportInv'
<1>1. [Next]_vars
  BY DEF Next
<1>2. ASSUME NEW r \in Request, NEW l \in Lead, NEW u \in User, NEW score,
             Remark(r, l, u, score)
      PROVE  ReportInv'
  <2>1. /\ lead[l] # Null /\ seen[r][l].row = lead[l] /\ Sound(lead[l])
        /\ score \in {1, 2}
        /\ Writes(r, l, Remarked(lead[l], score))
    BY <1>2, MayWriteRow DEF Remark, LowScores
  <2>2. Remarked(lead[l], score).score = 3 => lead[l].score = 3
    BY <2>1 DEF Remarked, At, Sound, LeadRow
  <2>3. lead[l].score = 3 => Reported(l)'
    BY <1>1, <2>1, ReportsStay DEF ReportInv, ClosingReported, Reported
  <2> QED
    BY <1>1, <2>1, <2>2, <2>3, WritesReported
<1>3. ASSUME NEW r \in Request, NEW l \in Lead, NEW u \in User, NEW t \in Training,
             \/ \E named \in {l, Null} : ScheduleTraining(r, l, u, t, named)
             \/ \E status \in {"COMPLETED", "CANCELED"} : DecideTraining(r, l, u, t, status)
      PROVE  ReportInv'
  <2>1. lead[l] # Null /\ Writes(r, l, lead[l])
    BY <1>3 DEF ScheduleTraining, DecideTraining, MayWrite
  <2>2. lead[l].score = 3 => Reported(l)'
    BY <1>1, <2>1, ReportsStay DEF ReportInv, ClosingReported, Reported
  <2> QED
    BY <1>1, <2>1, <2>2, WritesReported
<1>4. ASSUME NEW r \in Request, NEW l \in Lead, NEW x \in Sales, NEW c \in Closing, NEW named,
             CreateClosing(r, l, x, c, named)
      PROVE  ReportInv'
  <2>1. lead[l] # Null /\ Writes(r, l, At(seen[r][l].row, "CLOSING", 3))
    BY <1>4 DEF CreateClosing, MayWrite
  <2>2. closing'[c] # Null /\ closing'[c].lead = l
    <3>1. closing'[c] = [lead |-> l, sales |-> seen[r][l].row.sales,
                         supervisor |-> seen[r][l].row.supervisor,
                         status |-> "PENDING_RECONCILIATION", deleted |-> FALSE]
      BY <1>4 DEF CreateClosing, Inv, TypeOK
    <3>2. closing'[c] \in ClosingRow
      <4>1. /\ seen[r][l].row = lead[l] /\ Sound(lead[l]) /\ SalesOwns(x, lead[l])
        BY <1>4, MayWriteRow DEF CreateClosing
      <4>2. lead[l].sales \in Sales /\ lead[l].supervisor \in Supervisor \cup {Null}
        BY <4>1 DEF Sound, LeadRow, SalesOwns
      <4> QED
        BY <3>1, <4>1, <4>2 DEF ClosingRow
    <3>3. closing'[c] # Null
      BY <3>2, NullAssumption
    <3>4. closing'[c].lead = l
      BY <3>1
    <3> QED
      BY <3>3, <3>4
  <2> QED
    BY <1>1, <2>1, <2>2, WritesReported DEF Reported
<1> QED
  BY <1>1, <1>2, <1>3, <1>4, AssigningReported DEF ActivityNext

LEMMA LeadReported ==
  ASSUME Inv, ReportInv, LeadNext
  PROVE  ReportInv'
<1>1. [Next]_vars
  BY DEF Next
<1>2. \A l \in Lead : Reported(l) => Reported(l)'
  BY <1>1, ReportsStay
<1>3. ASSUME UNCHANGED <<lead, seen>> PROVE ReportInv'
  BY <1>2, <1>3 DEF ReportInv, ClosingReported, SeenReported, Reported, Locked
<1>4. ASSUME NEW l \in Lead, NEW a \in Admin, CreateLead(l, a) PROVE ReportInv'
  <2>1. /\ lead'[l].score = 1 /\ \A k \in Lead \ {l} : lead'[k] = lead[k]
        /\ seen' = seen
    BY <1>4 DEF CreateLead, NewLead, Inv, TypeOK
  <2> QED
    BY <1>2, <2>1 DEF ReportInv, ClosingReported, SeenReported, Reported, Locked
<1>5. ASSUME NEW r \in Request, RollsBack(r) PROVE ReportInv'
  <2> DEFINE ls == {}
  <2>1. /\ Ends(r) /\ ls \in SUBSET Lead
        /\ \A l \in Lead \ ls : lead'[l] = lead[l]
        /\ \A l \in ls : lead'[l] # Null /\ lead'[l].score = 3 => Reported(l)'
    BY <1>5 DEF RollsBack
  <2> HIDE DEF ls
  <2> QED
    BY <1>1, <2>1, OthersReported
<1>6. ASSUME NEW r \in Request, lead' = lead, seen' \in [Request -> [Lead -> SeenRow \cup {Null}]],
             \A q \in Request \ {r} : seen'[q] = seen[q],
             \A l \in Lead : seen'[r][l] # Null /\ seen'[r][l].row.score = 3 =>
                lead[l] # Null /\ lead[l].score = 3
      PROVE  ReportInv'
  <2>1. \A l \in Lead : lead[l] # Null /\ lead[l].score = 3 => Reported(l)'
    BY <1>2 DEF ReportInv, ClosingReported, Reported
  <2>2. ClosingReported'
    BY <1>6, <2>1 DEF ClosingReported, Reported
  <2>3. SeenReported'
    BY <1>2, <1>6, <2>1 DEF ReportInv, SeenReported, Locked
  <2> QED
    BY <2>2, <2>3 DEF ReportInv
<1>7. seen' \in [Request -> [Lead -> SeenRow \cup {Null}]]
  BY <1>1, NextInv DEF Inv, TypeOK
<1>8. ASSUME NEW r \in Request, NEW ls \in SUBSET Lead, NEW found \in SUBSET ls,
             LocksLeads(r, ls, found)
      PROVE  ReportInv'
  <2>1. PICK a \in Admin :
          seen' = [seen EXCEPT ![r] = [l \in Lead |->
             IF l \notin ls THEN Null
             ELSE [row |-> IF lead[l] = Null THEN NewLead(a) ELSE lead[l],
                   flag |-> IF l \notin found THEN "unread"
                            ELSE IF l \in testing THEN "testing" ELSE "regular"]]]
    BY <1>8 DEF LocksLeads
  <2>2. \A q \in Request \ {r} : seen'[q] = seen[q]
    BY <2>1 DEF Inv, TypeOK
  <2>3. \A l \in Lead : seen'[r][l] # Null =>
           seen'[r][l].row = IF lead[l] = Null THEN NewLead(a) ELSE lead[l]
    BY <2>1 DEF Inv, TypeOK
  <2>4. NewLead(a).score = 1
    BY DEF NewLead
  <2> QED
    BY <1>6, <1>7, <1>8, <2>2, <2>3, <2>4 DEF LocksLeads
<1>9. ASSUME NEW r \in Request, NEW l \in Lead, LocksLead(r, l) PROVE ReportInv'
  <2>1. /\ \A q \in Request \ {r} : seen'[q] = seen[q]
        /\ \A k \in Lead \ {l} : seen'[r][k] = Null
        /\ seen'[r][l].row = lead[l] /\ lead[l] # Null /\ lead' = lead
    BY <1>9 DEF LocksLead, Locked, Inv, TypeOK
  <2> QED
    BY <1>6, <1>7, <2>1
<1> QED
  BY <1>1, <1>3, <1>4, <1>5, <1>8, <1>9, AssigningReported
     DEF LeadNext, SetTestingAccount, EnsureOwnerEligible

\* A lead is at score 3, stage CLOSING, only when a closing has been reported for it
\* (CreateInteraction refuses the score; CreateClosing writes it with the closing).
THEOREM ClosingsReported == Spec => []ClosingReported
<1>1. Init => ReportInv
  BY NullAssumption DEF Init, ReportInv, ClosingReported, SeenReported, Locked
<1>2. Inv /\ ReportInv /\ [Next]_vars => ReportInv'
  <2> SUFFICES ASSUME Inv, ReportInv, [Next]_vars PROVE ReportInv'
    OBVIOUS
  <2>1. CASE UNCHANGED <<lead, seen>>
    BY <2>1, ReportsStay DEF ReportInv, ClosingReported, SeenReported, Reported, Locked
  <2>2. CASE ClosingNext
    BY <2>1, <2>2 DEF ClosingNext, UpdateStatus, MarkDeleted, ForceDeleteClosing
  <2>3. CASE UNCHANGED vars
    BY <2>1, <2>3 DEF vars
  <2> QED
    BY <2>2, <2>3, ActivityReported, LeadReported DEF Next
<1>3. ReportInv => ClosingReported
  BY DEF ReportInv
<1> QED
  BY <1>1, <1>2, <1>3, Invariant, PTL DEF Spec
=============================================================================
