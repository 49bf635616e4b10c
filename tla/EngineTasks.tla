---------------------------- MODULE EngineTasks ----------------------------
(***************************************************************************)
(* Engine tasks: the rows of the tasks table and the requests of agents'   *)
(* tools and of the HTTP API that change them.  The status state machine   *)
(* is domain/engine_task.go, the statements are those of                   *)
(* configrepo/task_repository.go, and what a request does with them is     *)
(* engine_task_manager_adapter.go.                                         *)
(*                                                                         *)
(* One step is one database statement, or several whose order nobody can   *)
(* observe.  A request that changes a task reads the row, changes its copy *)
(* in memory and saves every column of the copy.  Cancel runs in a         *)
(* transaction; the database is PostgreSQL with its default isolation,     *)
(* read committed: a transaction sees what others have committed, and a    *)
(* row it has saved is locked for other saves until it ends.               *)
(*                                                                         *)
(* Of a row, the columns the state machine is about are kept.  Title,      *)
(* priority, result and the like are data; an edit of them is a save that  *)
(* leaves the copy as it was read.                                         *)
(***************************************************************************)
EXTENDS Integers, FiniteSets

CONSTANTS
    Tasks,          \* ids of the tasks that may be created
    Requests,       \* requests in progress at the same time
    Targets,        \* statuses that requests other than Cancel ask for
    Approval,       \* values of RequireApproval that requests use
    MaxTaskDepth    \* MaxTaskDepth (10)

Terminal == {"completed", "failed", "cancelled"}
Status == {"draft", "approved", "pending", "in_progress", "needs_input"}
              \cup Terminal
None == "none"

ASSUME NoneAssumption == None \notin Tasks
ASSUME TargetsAssumption == Targets \subseteq Status
ASSUME ApprovalAssumption == Approval \subseteq BOOLEAN
ASSUME DepthAssumption == MaxTaskDepth \in Nat \ {0}

VARIABLES
    created,    \* ids of the rows that exist
    row,        \* row[t]: the committed row
    parent,     \* parent[t]: parent_task_id; no request changes it
    pc,         \* pc[r]: where request r is
    loaded,     \* loaded[r]: the task r has read last
    copy,       \* copy[r]: the row r has read, as it will save it
    todo,       \* todo[r]: tasks r's cancel has still to visit
    written,    \* written[r]: rows saved, and locked, by r's transaction
    txRow       \* txRow[r][t]: what the transaction of r saved for t

rowVars == <<created, row, parent>>
txVars == <<todo, written, txRow>>
vars == <<rowVars, pc, loaded, copy, txVars>>

Row == [status : Status, approvedAt : BOOLEAN, startedAt : BOOLEAN,
        completedAt : BOOLEAN]

NewRow(s) == [status |-> s, approvedAt |-> FALSE, startedAt |-> FALSE,
              completedAt |-> FALSE]

\* Stands for no row.
Blank == NewRow("pending")

TypeOK ==
    /\ created \subseteq Tasks
    /\ row \in [Tasks -> Row]
    /\ parent \in [Tasks -> Tasks \cup {None}]
    /\ pc \in [Requests -> {"idle", "save", "create", "cancel", "cancelSave"}]
    /\ loaded \in [Requests -> Tasks \cup {None}]
    /\ copy \in [Requests -> Row]
    /\ todo \in [Requests -> SUBSET Tasks]
    /\ written \in [Requests -> SUBSET Tasks]
    /\ txRow \in [Requests -> [Tasks -> Row]]

Init ==
    /\ created = {}
    /\ row = [t \in Tasks |-> Blank]
    /\ parent = [t \in Tasks |-> None]
    /\ pc = [r \in Requests |-> "idle"]
    /\ loaded = [r \in Requests |-> None]
    /\ copy = [r \in Requests |-> Blank]
    /\ todo = [r \in Requests |-> {}]
    /\ written = [r \in Requests |-> {}]
    /\ txRow = [r \in Requests |-> [t \in Tasks |-> Blank]]

-----------------------------------------------------------------------------
(* The state machine.                                                      *)

engineTaskValidTransitions ==
    [s \in Status |->
        CASE s = "draft" -> {"approved", "cancelled"}
          [] s \in {"approved", "pending"} -> {"in_progress", "cancelled"}
          [] s = "in_progress" ->
                {"completed", "failed", "needs_input", "cancelled"}
          [] s = "needs_input" -> {"in_progress", "failed", "cancelled"}
          [] s \in Terminal -> {}]

CanTransitionTo(m, s) == s \in engineTaskValidTransitions[m.status]

\* Transition on a copy for which it is allowed.
Transition(m, s) ==
    [status      |-> s,
     approvedAt  |-> m.approvedAt \/ s = "approved",
     startedAt   |-> m.startedAt \/ s = "in_progress",
     completedAt |-> m.completedAt \/ s \in Terminal]

-----------------------------------------------------------------------------
(* Creation.                                                               *)

\* Mutant of InitialStatus: the status is only set without approval.
InitialStatusUnset(requireApproval) ==
    IF requireApproval THEN "" ELSE "pending"

InitialStatus(requireApproval) ==
    IF requireApproval THEN "draft" ELSE "pending"

\* uuid.New: which fresh id it is makes no difference.
FreshId == CHOOSE t \in Tasks : t \notin created

\* Create inserts a row with a fresh id.
Create(p) ==
    /\ created # Tasks
    /\ created' = created \cup {FreshId}
    /\ \E a \in Approval :
          row' = [row EXCEPT ![FreshId] = NewRow(InitialStatus(a))]
    /\ parent' = [parent EXCEPT ![FreshId] = p]

CreateTask(r) ==
    /\ pc[r] = "idle"
    /\ Create(None)
    /\ UNCHANGED <<pc, loaded, copy, txVars>>

\* The task n levels above t, or None: the walk of validateParent.
Ancestor(t, n) ==
    LET up[i \in 0..n] ==
            IF i = 0 THEN t
            ELSE IF up[i - 1] = None THEN None ELSE parent[up[i - 1]]
    IN  up[n]

\* Mutant of DepthAllowed: one level too many.
DepthAllowedLoose(p) == Ancestor(p, MaxTaskDepth) = None

\* A child of p is fewer than MaxTaskDepth levels below its root.
DepthAllowed(p) == Ancestor(p, MaxTaskDepth - 1) = None

\* validateParent: the parent is read, the row created in a later statement.
ValidateParent(r, p) ==
    /\ pc[r] = "idle"
    /\ p \in created
    /\ row[p].status \notin Terminal
    /\ DepthAllowed(p)
    /\ pc' = [pc EXCEPT ![r] = "create"]
    /\ loaded' = [loaded EXCEPT ![r] = p]
    /\ UNCHANGED <<rowVars, copy, txVars>>

CreateSubTask(r) ==
    /\ pc[r] = "create"
    /\ Create(loaded[r])
    /\ pc' = [pc EXCEPT ![r] = "idle"]
    /\ loaded' = [loaded EXCEPT ![r] = None]
    /\ UNCHANGED <<copy, txVars>>

-----------------------------------------------------------------------------
(* Requests that read a row, change the copy and save it.                  *)

Load(r, t, m) ==
    /\ pc[r] = "idle"
    /\ t \in created
    /\ pc' = [pc EXCEPT ![r] = "save"]
    /\ loaded' = [loaded EXCEPT ![r] = t]
    /\ copy' = [copy EXCEPT ![r] = m]
    /\ UNCHANGED <<rowVars, txVars>>

\* UpdateStatus and FailTask: an invalid transition is refused.
UpdateStatus(r, t) ==
    \E s \in Targets :
        /\ CanTransitionTo(row[t], s)
        /\ Load(r, t, Transition(row[t], s))

\* AssignTaskToAgent starts a task that waits, and does nothing otherwise.
AssignTaskToAgent(r, t) ==
    /\ row[t].status \in {"approved", "pending"}
    /\ Load(r, t, Transition(row[t], "in_progress"))

\* UpdateTask and SetTaskPriority, on tasks of any status.
UpdateTask(r, t) == Load(r, t, row[t])

Locked(r, t) == \E q \in Requests \ {r} : t \in written[q]

\* What db.Updates would make of row m: a nil time stamp is not written.
Updates(m, c) ==
    [status      |-> c.status,
     approvedAt  |-> m.approvedAt \/ c.approvedAt,
     startedAt   |-> m.startedAt \/ c.startedAt,
     completedAt |-> m.completedAt \/ c.completedAt]

\* Mutant of Save: db.Updates for db.Save.
SaveUpdates(r) ==
    /\ pc[r] = "save"
    /\ ~Locked(r, loaded[r])
    /\ row' = [row EXCEPT ![loaded[r]] = Updates(@, copy[r])]
    /\ pc' = [pc EXCEPT ![r] = "idle"]
    /\ loaded' = [loaded EXCEPT ![r] = None]
    /\ copy' = [copy EXCEPT ![r] = Blank]
    /\ UNCHANGED <<created, parent, txVars>>

\* db.Save: all columns, whatever the row holds by now.
Save(r) ==
    /\ pc[r] = "save"
    /\ ~Locked(r, loaded[r])
    /\ row' = [row EXCEPT ![loaded[r]] = copy[r]]
    /\ pc' = [pc EXCEPT ![r] = "idle"]
    /\ loaded' = [loaded EXCEPT ![r] = None]
    /\ copy' = [copy EXCEPT ![r] = Blank]
    /\ UNCHANGED <<created, parent, txVars>>

-----------------------------------------------------------------------------
(* Cancel.                                                                 *)

SubTasks(t) == {s \in created : parent[s] = t}

\* Mutant of Cancel: the subtasks are visited in no order with the task.
CancelWithSubTasks(r, t) ==
    /\ pc[r] = "idle"
    /\ t \in created
    /\ pc' = [pc EXCEPT ![r] = "cancel"]
    /\ todo' = [todo EXCEPT ![r] = {t} \cup SubTasks(t)]
    /\ UNCHANGED <<rowVars, loaded, copy, written, txRow>>

\* A transaction that begins with the task itself.
Cancel(r, t) ==
    /\ pc[r] = "idle"
    /\ t \in created
    /\ pc' = [pc EXCEPT ![r] = "cancel"]
    /\ todo' = [todo EXCEPT ![r] = {t}]
    /\ UNCHANGED <<rowVars, loaded, copy, written, txRow>>

\* cancelRecursive reads the next task; one that has ended is left alone,
\* and so are its subtasks.  The code goes depth first; here any task that
\* was found may be next, which includes that order.  No task is reached
\* twice, as none has two parents, so the row read is never one this
\* transaction saved, and the walk ends within MaxTaskDepth levels, far
\* from MaxCancelDepth.
CancelLoad(r, t) ==
    /\ pc[r] = "cancel"
    /\ t \in todo[r]
    /\ todo' = [todo EXCEPT ![r] = @ \ {t}]
    /\ IF row[t].status \in Terminal
       THEN UNCHANGED <<pc, loaded, copy>>
       ELSE /\ pc' = [pc EXCEPT ![r] = "cancelSave"]
            /\ loaded' = [loaded EXCEPT ![r] = t]
            /\ copy' = [copy EXCEPT ![r] = Transition(row[t], "cancelled")]
    /\ UNCHANGED <<rowVars, written, txRow>>

\* ... saves it, and reads its subtasks.
CancelSave(r) ==
    LET t == loaded[r] IN
    /\ pc[r] = "cancelSave"
    /\ ~Locked(r, t)
    /\ written' = [written EXCEPT ![r] = @ \cup {t}]
    /\ txRow' = [txRow EXCEPT ![r][t] = copy[r]]
    /\ todo' = [todo EXCEPT ![r] = @ \cup SubTasks(t)]
    /\ pc' = [pc EXCEPT ![r] = "cancel"]
    /\ loaded' = [loaded EXCEPT ![r] = None]
    /\ copy' = [copy EXCEPT ![r] = Blank]
    /\ UNCHANGED rowVars

\* The request ends, and with it its transaction if it has one.
End(r) ==
    /\ pc' = [pc EXCEPT ![r] = "idle"]
    /\ loaded' = [loaded EXCEPT ![r] = None]
    /\ todo' = [todo EXCEPT ![r] = {}]
    /\ written' = [written EXCEPT ![r] = {}]
    /\ copy' = [copy EXCEPT ![r] = Blank]
    /\ txRow' = [txRow EXCEPT ![r] = [t \in Tasks |-> Blank]]
    /\ UNCHANGED <<created, parent>>

CancelCommit(r) ==
    /\ pc[r] = "cancel"
    /\ todo[r] = {}
    /\ row' = [t \in Tasks |->
                  IF t \in written[r] THEN txRow[r][t] ELSE row[t]]
    /\ End(r)

\* A statement of the request fails or its context is cancelled; the rows
\* a transaction has saved are rolled back.
Fail(r) ==
    /\ pc[r] # "idle"
    /\ End(r)
    /\ UNCHANGED row

-----------------------------------------------------------------------------

Next ==
    \E r \in Requests :
        \/ CreateTask(r)
        \/ \E t \in Tasks : ValidateParent(r, t) \/ UpdateStatus(r, t)
        \/ \E t \in Tasks : AssignTaskToAgent(r, t) \/ UpdateTask(r, t)
        \/ \E t \in Tasks : Cancel(r, t)
        \/ CreateSubTask(r) \/ Save(r)
        \/ \E t \in Tasks : CancelLoad(r, t)
        \/ CancelSave(r) \/ CancelCommit(r)
        \/ Fail(r)

Spec == Init /\ [][Next]_vars

-----------------------------------------------------------------------------
(* Properties.                                                             *)

\* Status and time stamps of one row agree.
Consistent(m) ==
    /\ m.completedAt <=> m.status \in Terminal
    /\ m.status \in {"in_progress", "needs_input", "completed", "failed"}
          => m.startedAt
    /\ m.status = "approved" => m.approvedAt
    /\ m.status = "draft" => ~m.approvedAt /\ ~m.startedAt

\* Status, ApprovedAt, StartedAt and CompletedAt of a row always agree,
\* whichever stale copies requests save over each other: a save writes the
\* whole row.
RowsConsistent == \A t \in created : Consistent(row[t])

\* No task is MaxTaskDepth levels below its root, although validateParent
\* and the insert are separate statements of concurrent requests.
DepthBounded == \A t \in created : Ancestor(t, MaxTaskDepth) = None

\* Request r waits for a row that the transaction of q has saved.
WaitsFor(r, q) ==
    /\ pc[r] \in {"save", "cancelSave"}
    /\ q # r
    /\ loaded[r] \in written[q]

\* No set of requests waits for each other in a circle, however the subtrees
\* that concurrent cancels lock overlap: cancelRecursive saves a task before
\* it visits its subtasks, and never a task above the one it began with.
NoWaitCycle ==
    \A S \in SUBSET Requests :
        S # {} => \E r \in S : \A q \in S : ~WaitsFor(r, q)
=============================================================================
