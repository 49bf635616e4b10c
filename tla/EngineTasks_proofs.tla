------------------------ MODULE EngineTasks_proofs ------------------------
(***************************************************************************)
(* Proofs about EngineTasks for any tasks, any number of concurrent        *)
(* requests and any depth: the types; that the columns of a row agree; how *)
(* deep the tree of tasks can be; and that requests do not wait for each   *)
(* other in a circle.                                                      *)
(*                                                                         *)
(* RowsConsistent alone is not inductive: a Save writes a copy read many   *)
(* steps earlier.  IInv therefore says the same of every copy a request    *)
(* holds and of every row a transaction has not committed; and a request   *)
(* between its read and its write has a task.                              *)
(*                                                                         *)
(* DepthBounded says how a walk ends and nothing of where it leads.        *)
(* TreeInv says that tasks can be given levels, and that a request which   *)
(* has passed validateParent has found one left below its parent.  That    *)
(* the walk counts levels is by induction on its length, drawn from the    *)
(* well-foundedness of < on the naturals.                                  *)
(*                                                                         *)
(* NoWaitCycle is about requests, LockInv about what each has locked: a    *)
(* cancel locks a part of the tree from the top down, so a locked task it  *)
(* runs into is the top of somebody else's part.  Waiting thus leads       *)
(* further down, by the levels of TreeInv, and comes to an end.            *)
(***************************************************************************)
EXTENDS EngineTasks, TLAPS, WellFoundedInduction

AllConsistent ==
    /\ \A t \in Tasks : Consistent(row[t])
    /\ \A r \in Requests : Consistent(copy[r])
    /\ \A r \in Requests : \A t \in Tasks : Consistent(txRow[r][t])

\* A request between its read and its write has a task.
LoadedInv ==
    \A r \in Requests :
        pc[r] \in {"save", "create", "cancelSave"} => loaded[r] \in Tasks

IInv == TypeOK /\ AllConsistent /\ LoadedInv

-----------------------------------------------------------------------------
(* What the operators return.                                              *)

\* A row as Create inserts it has a type and agreeing columns.
LEMMA NewRowFacts ==
    /\ Blank \in Row /\ Consistent(Blank)
    /\ \A a \in BOOLEAN : /\ NewRow(InitialStatus(a)) \in Row
                          /\ Consistent(NewRow(InitialStatus(a)))
BY DEF Blank, NewRow, Row, Status, Terminal, Consistent, InitialStatus

\* A transition the state machine allows keeps the columns of the row in
\* agreement.
LEMMA TransitionFacts ==
    ASSUME NEW m \in Row, Consistent(m), NEW s \in Status,
           CanTransitionTo(m, s)
    PROVE  Transition(m, s) \in Row /\ Consistent(Transition(m, s))
<1>1. m.status \in Status
    BY DEF Row
<1>2. s \in engineTaskValidTransitions[m.status]
    BY DEF CanTransitionTo
<1>3. CASE m.status = "draft"
    BY <1>2, <1>3 DEF engineTaskValidTransitions, Transition, Row, Status,
        Terminal, Consistent
<1>4. CASE m.status \in {"approved", "pending"}
    BY <1>2, <1>4 DEF engineTaskValidTransitions, Transition, Row, Status,
        Terminal, Consistent
<1>5. CASE m.status = "in_progress"
    BY <1>2, <1>5 DEF engineTaskValidTransitions, Transition, Row, Status,
        Terminal, Consistent
<1>6. CASE m.status = "needs_input"
    BY <1>2, <1>6 DEF engineTaskValidTransitions, Transition, Row, Status,
        Terminal, Consistent
<1>7. CASE m.status \in Terminal
    BY <1>2, <1>7 DEF engineTaskValidTransitions, Status, Terminal
<1> QED
    BY <1>1, <1>3, <1>4, <1>5, <1>6, <1>7 DEF Status

\* Every status that is not terminal may be cancelled.
LEMMA CancelAllowed ==
    ASSUME NEW m \in Row, m.status \notin Terminal
    PROVE  CanTransitionTo(m, "cancelled")
BY DEF Row, Status, Terminal, CanTransitionTo, engineTaskValidTransitions

\* A task that AssignTaskToAgent starts may be started.
LEMMA StartAllowed ==
    ASSUME NEW m \in Row, m.status \in {"approved", "pending"}
    PROVE  CanTransitionTo(m, "in_progress")
BY DEF Row, Status, Terminal, CanTransitionTo, engineTaskValidTransitions

-----------------------------------------------------------------------------

\* The invariant holds of an empty table with no request in progress.
LEMMA InitIInv == Init => IInv
BY NewRowFacts DEF Init, IInv, TypeOK, AllConsistent, LoadedInv

\* A request that has read a row holds a copy of it as it will save it.
LEMMA LoadIInv ==
    ASSUME IInv, NEW r \in Requests, NEW t \in Tasks, NEW m \in Row,
           Consistent(m), Load(r, t, m)
    PROVE  IInv'
BY DEF Load, IInv, TypeOK, AllConsistent, LoadedInv, rowVars, txVars

\* Every step preserves the invariant.
LEMMA NextIInv == IInv /\ [Next]_vars => IInv'
<1> SUFFICES ASSUME IInv, [Next]_vars PROVE IInv'
    OBVIOUS
<1>1. CASE UNCHANGED vars
    BY <1>1 DEF IInv, TypeOK, AllConsistent, LoadedInv, vars, rowVars, txVars
<1>2. ASSUME NEW r \in Requests, CreateTask(r)
      PROVE  IInv'
  <2>1. None \in Tasks \cup {None} /\ FreshId \in Tasks
      BY <1>2 DEF CreateTask, Create, FreshId, IInv, TypeOK
  <2> QED
      BY <1>2, <2>1, NewRowFacts, ApprovalAssumption
      DEF CreateTask, Create, IInv, TypeOK, AllConsistent, LoadedInv, txVars
<1>3. ASSUME NEW r \in Requests, CreateSubTask(r)
      PROVE  IInv'
  <2>1. loaded[r] \in Tasks \cup {None} /\ FreshId \in Tasks
      BY <1>3 DEF CreateSubTask, Create, FreshId, IInv, TypeOK
  <2> QED
      BY <1>3, <2>1, NewRowFacts, ApprovalAssumption
      DEF CreateSubTask, Create, IInv, TypeOK, AllConsistent, LoadedInv, txVars
<1>4. ASSUME NEW r \in Requests, NEW t \in Tasks, ValidateParent(r, t)
      PROVE  IInv'
    BY <1>4 DEF ValidateParent, IInv, TypeOK, AllConsistent, LoadedInv,
        rowVars, txVars
<1>5. ASSUME NEW r \in Requests, NEW t \in Tasks, UpdateStatus(r, t)
      PROVE  IInv'
  <2>1. PICK s \in Targets : /\ CanTransitionTo(row[t], s)
                             /\ Load(r, t, Transition(row[t], s))
      BY <1>5 DEF UpdateStatus
  <2>2. row[t] \in Row /\ Consistent(row[t]) /\ s \in Status
      BY TargetsAssumption DEF IInv, TypeOK, AllConsistent, LoadedInv
  <2>3. Transition(row[t], s) \in Row /\ Consistent(Transition(row[t], s))
      BY <2>1, <2>2, TransitionFacts
  <2> QED
      BY <2>1, <2>3, LoadIInv
<1>6. ASSUME NEW r \in Requests, NEW t \in Tasks, AssignTaskToAgent(r, t)
      PROVE  IInv'
  <2>1. row[t] \in Row /\ Consistent(row[t]) /\ "in_progress" \in Status
      BY DEF IInv, TypeOK, AllConsistent, LoadedInv, Status
  <2>2. CanTransitionTo(row[t], "in_progress")
      BY <1>6, <2>1, StartAllowed DEF AssignTaskToAgent
  <2>3. /\ Transition(row[t], "in_progress") \in Row
        /\ Consistent(Transition(row[t], "in_progress"))
      BY <2>1, <2>2, TransitionFacts
  <2> QED
      BY <1>6, <2>3, LoadIInv DEF AssignTaskToAgent
<1>7. ASSUME NEW r \in Requests, NEW t \in Tasks, UpdateTask(r, t)
      PROVE  IInv'
  <2>1. row[t] \in Row /\ Consistent(row[t])
      BY DEF IInv, TypeOK, AllConsistent, LoadedInv
  <2> QED
      BY <1>7, <2>1, LoadIInv DEF UpdateTask
<1>8. ASSUME NEW r \in Requests, NEW t \in Tasks, Cancel(r, t)
      PROVE  IInv'
    BY <1>8 DEF Cancel, IInv, TypeOK, AllConsistent, LoadedInv, rowVars
<1>9. ASSUME NEW r \in Requests, Save(r)
      PROVE  IInv'
    BY <1>9, NewRowFacts
    DEF Save, IInv, TypeOK, AllConsistent, LoadedInv, txVars
<1>10. ASSUME NEW r \in Requests, NEW t \in Tasks, CancelLoad(r, t)
       PROVE  IInv'
  <2>1. CASE row[t].status \in Terminal
      BY <1>10, <2>1
      DEF CancelLoad, IInv, TypeOK, AllConsistent, LoadedInv, rowVars
  <2>2. CASE row[t].status \notin Terminal
    <3>1. row[t] \in Row /\ Consistent(row[t]) /\ "cancelled" \in Status
        BY DEF IInv, TypeOK, AllConsistent, LoadedInv, Status, Terminal
    <3>2. CanTransitionTo(row[t], "cancelled")
        BY <2>2, <3>1, CancelAllowed
    <3>3. /\ Transition(row[t], "cancelled") \in Row
          /\ Consistent(Transition(row[t], "cancelled"))
        BY <3>1, <3>2, TransitionFacts
    <3>4. PICK m \in Row : m = Transition(row[t], "cancelled") /\ Consistent(m)
        BY <3>3
    <3>5. /\ loaded' = [loaded EXCEPT ![r] = t]
          /\ copy' = [copy EXCEPT ![r] = m]
          /\ pc' = [pc EXCEPT ![r] = "cancelSave"]
          /\ todo' = [todo EXCEPT ![r] = @ \ {t}]
          /\ UNCHANGED <<rowVars, written, txRow>>
        BY <1>10, <2>2, <3>4 DEF CancelLoad
    <3>6. TypeOK'
        BY <3>5 DEF IInv, TypeOK, rowVars
    <3>7. AllConsistent'
        BY <3>4, <3>5 DEF IInv, TypeOK, AllConsistent, rowVars
    <3>8. LoadedInv'
        BY <3>5 DEF IInv, TypeOK, LoadedInv
    <3> QED
        BY <3>6, <3>7, <3>8 DEF IInv
  <2> QED
      BY <2>1, <2>2
<1>11. ASSUME NEW r \in Requests, CancelSave(r)
       PROVE  IInv'
  <2>1. SubTasks(loaded[r]) \subseteq Tasks
      BY DEF SubTasks, IInv, TypeOK
  <2>2. TypeOK'
      BY <1>11, <2>1, NewRowFacts
      DEF CancelSave, IInv, TypeOK, LoadedInv, rowVars
  <2>3. AllConsistent'
      BY <1>11, NewRowFacts
      DEF CancelSave, IInv, TypeOK, AllConsistent, rowVars
  <2>4. LoadedInv'
      BY <1>11 DEF CancelSave, IInv, TypeOK, LoadedInv
  <2> QED
      BY <2>2, <2>3, <2>4 DEF IInv
<1>12. ASSUME NEW r \in Requests, CancelCommit(r)
       PROVE  IInv'
    BY <1>12, NewRowFacts
    DEF CancelCommit, End, IInv, TypeOK, AllConsistent, LoadedInv
<1>13. ASSUME NEW r \in Requests, Fail(r)
       PROVE  IInv'
    BY <1>13, NewRowFacts DEF Fail, End, IInv, TypeOK, AllConsistent, LoadedInv
<1> QED
    BY <1>1, <1>2, <1>3, <1>4, <1>5, <1>6, <1>7, <1>8, <1>9, <1>10, <1>11,
       <1>12, <1>13 DEF Next

\* The invariant holds in every reachable state.
THEOREM SpecIInv == Spec => []IInv
BY InitIInv, NextIInv, PTL DEF Spec

\* Every variable keeps its type.
THEOREM SpecTypeOK == Spec => []TypeOK
<1>1. IInv => TypeOK
    BY DEF IInv
<1> QED
    BY <1>1, SpecIInv, PTL

\* However many requests save stale copies over each other and however the
\* transactions of cancels overlap with them, the status of a row and its
\* three time stamps always agree.
THEOREM SpecRowsConsistent == Spec => []RowsConsistent
<1>1. IInv => RowsConsistent
    BY DEF IInv, TypeOK, AllConsistent, LoadedInv, RowsConsistent
<1> QED
    BY <1>1, SpecIInv, PTL

-----------------------------------------------------------------------------
(* Induction over the natural numbers, for sets.                           *)

LessThan == {p \in Nat \X Nat : p[1] < p[2]}

\* Less-than on the naturals is well-founded, as a set of pairs.
LEMMA LessThanWellFounded == IsWellFoundedOn(LessThan, Nat)
BY NatLessThanWellFounded, Zenon DEF OpToRel, LessThan

\* A nonempty set of naturals has a least element.
LEMMA LeastElement ==
    ASSUME NEW S \in SUBSET Nat, S # {}
    PROVE  \E x \in S : \A y \in S : x <= y
<1>1. PICK x \in S : \A y \in S : <<y, x>> \notin LessThan
  BY LessThanWellFounded, WFMin
<1>2. ASSUME NEW y \in S
      PROVE  x <= y
  <2>1. <<y, x>> \in LessThan <=> y < x
    BY DEF LessThan
  <2> QED
    BY <1>1, <2>1
<1> QED
  BY <1>2

\* A set that contains 0 and with a number its successor contains all.
LEMMA Induction ==
    ASSUME NEW S, 0 \in S, \A n \in Nat : n \in S => n + 1 \in S
    PROVE  Nat \subseteq S
<1> SUFFICES ASSUME Nat \ S # {} PROVE FALSE
  OBVIOUS
<1>1. PICK x \in Nat \ S : \A y \in Nat \ S : x <= y
  BY LeastElement
<1>2. x # 0 /\ x - 1 \in Nat
  BY <1>1
<1>3. (x - 1) + 1 \in S
  BY <1>1, <1>2
<1> QED
  BY <1>1, <1>3

-----------------------------------------------------------------------------
(* The tree of tasks.                                                      *)

\* d[t] is the number of tasks above t: of a task whose parent exists.
LevelsOf(d) ==
    \A t \in created :
        IF parent[t] = None
        THEN d[t] = 0
        ELSE parent[t] \in created /\ d[t] = d[parent[t]] + 1

\* A request about to create a subtask has found room below its parent.
RoomBelow(d) ==
    \A r \in Requests :
        pc[r] = "create" =>
            loaded[r] \in created /\ d[loaded[r]] + 1 < MaxTaskDepth

\* Parents do not form cycles, and no chain of them is too long.
TreeInv ==
    \E d \in [Tasks -> 0..(MaxTaskDepth - 1)] : LevelsOf(d) /\ RoomBelow(d)

-----------------------------------------------------------------------------
(* What the transaction of a cancel has locked.                            *)

\* t is the task the cancel of r began with.
IsTop(r, t) ==
    /\ t \in written[r]
    /\ \A s \in written[r] : s = t \/ parent[s] \in written[r]

\* The tasks the cancel of r has found and not yet saved.
Visiting(r) == todo[r] \cup (IF pc[r] = "cancelSave" THEN {loaded[r]} ELSE {})

\* A cancel locks tasks from the top down: all but the first below one it has
\* locked, and no two cancels the same.
LockInv ==
    /\ \A r \in Requests :
        /\ todo[r] \subseteq created /\ written[r] \subseteq created
        /\ pc[r] \in {"save", "cancelSave"} => loaded[r] \in created
        /\ pc[r] \notin {"cancel", "cancelSave"} => todo[r] = {} /\ written[r] = {}
        /\ written[r] = {} =>
             /\ pc[r] = "cancelSave" => todo[r] = {}
             /\ \A s, t \in todo[r] : s = t
        /\ written[r] # {} =>
             /\ \E t \in Tasks : IsTop(r, t)
             /\ \A t \in Visiting(r) : parent[t] \in written[r]
    /\ \A q, r \in Requests : q # r => written[q] \cap written[r] = {}

-----------------------------------------------------------------------------
(* The walk of validateParent.                                             *)

\* The walk from t over n parents.
IsWalk(f, t, n) ==
    f = [i \in 0..n |->
           IF i = 0 THEN t
           ELSE IF f[i - 1] = None THEN None ELSE parent[f[i - 1]]]

\* It exists for every length.
LEMMA WalkExists ==
    ASSUME NEW t, NEW n \in Nat
    PROVE  \E f : IsWalk(f, t, n)
<1> DEFINE S == {m \in Nat : \E f : IsWalk(f, t, m)}
<1>1. 0 \in S
  <2> DEFINE f == [i \in 0..0 |-> t]
  <2>1. IsWalk(f, t, 0)
    BY DEF IsWalk
  <2> QED
    BY <2>1
<1>2. ASSUME NEW m \in Nat, m \in S
      PROVE  m + 1 \in S
  <2>1. PICK f : IsWalk(f, t, m)
    BY <1>2
  <2> DEFINE last == IF f[m] = None THEN None ELSE parent[f[m]]
             g == [i \in 0..(m + 1) |-> IF i = m + 1 THEN last ELSE f[i]]
  <2>2. \A i \in 0..m : g[i] = f[i]
    OBVIOUS
  <2>3. g[m + 1] = last
    OBVIOUS
  <2>4. ASSUME NEW i \in 0..(m + 1)
        PROVE  g[i] = IF i = 0 THEN t
                      ELSE IF g[i - 1] = None THEN None ELSE parent[g[i - 1]]
    <3>1. CASE i = m + 1
      BY <3>1, <2>2, <2>3
    <3>2. CASE i \in 0..m
      <4>1. f[i] = IF i = 0 THEN t
                   ELSE IF f[i - 1] = None THEN None ELSE parent[f[i - 1]]
        BY <2>1, <3>2 DEF IsWalk
      <4>2. g[i] = f[i] /\ (i # 0 => g[i - 1] = f[i - 1])
        BY <2>2, <3>2
      <4> HIDE DEF g
      <4> QED
        BY <4>1, <4>2
    <3> QED
      BY <3>1, <3>2
  <2>5. g = [i \in 0..(m + 1) |-> g[i]]
    OBVIOUS
  <2> HIDE DEF g
  <2>6. IsWalk(g, t, m + 1)
    BY <2>4, <2>5 DEF IsWalk
  <2> QED
    BY <2>6
<1> HIDE DEF S
<1>3. n \in S
  BY <1>1, <1>2, Induction
<1> QED
  BY <1>3 DEF S

\* Ancestor returns the end of such a walk.
LEMMA AncestorWalk ==
    ASSUME NEW t, NEW n \in Nat
    PROVE  \E f : IsWalk(f, t, n) /\ Ancestor(t, n) = f[n]
<1> DEFINE up == CHOOSE f : IsWalk(f, t, n)
<1>1. IsWalk(up, t, n)
  BY WalkExists
<1>2. Ancestor(t, n) = up[n]
  BY DEF Ancestor, IsWalk
<1> QED
  BY <1>1, <1>2

\* What it finds, in a tree with levels: nothing above the root, and the task
\* n levels up otherwise.
LEMMA AncestorLevel ==
    ASSUME TypeOK, NEW d \in [Tasks -> Nat], LevelsOf(d),
           NEW t \in created, NEW n \in Nat
    PROVE  Ancestor(t, n) = None <=> d[t] < n
<1>1. PICK f : IsWalk(f, t, n) /\ Ancestor(t, n) = f[n]
  BY AncestorWalk
<1>2. created \subseteq Tasks /\ None \notin Tasks /\ d[t] \in Nat
  BY NoneAssumption DEF TypeOK
<1> DEFINE P(i) == IF d[t] < i THEN f[i] = None
                   ELSE f[i] \in created /\ d[f[i]] = d[t] - i
           S == {i \in Nat : i <= n => P(i)}
<1>3. 0 \in S
  <2>1. f[0] = t
    BY <1>1 DEF IsWalk
  <2> QED
    BY <2>1, <1>2
<1>4. ASSUME NEW i \in Nat, i \in S
      PROVE  i + 1 \in S
  <2> SUFFICES ASSUME i + 1 <= n
               PROVE  P(i + 1)
    OBVIOUS
  <2>1. P(i)
    BY <1>4
  <2>2. f[i + 1] = IF f[i] = None THEN None ELSE parent[f[i]]
    BY <1>1 DEF IsWalk
  <2>3. CASE d[t] < i
    BY <2>1, <2>2, <2>3, <1>2
  <2>4. CASE d[t] >= i
    <3>1. f[i] \in created /\ d[f[i]] = d[t] - i /\ f[i] # None
      BY <2>1, <2>4, <1>2
    <3>2. IF parent[f[i]] = None THEN d[f[i]] = 0
          ELSE parent[f[i]] \in created /\ d[f[i]] = d[parent[f[i]]] + 1
      BY <3>1 DEF LevelsOf
    <3>3. parent[f[i]] \in created => d[parent[f[i]]] \in Nat
      BY <1>2
    <3>4. f[i + 1] = parent[f[i]]
      BY <2>2, <3>1
    <3> HIDE DEF LevelsOf
    <3> QED
      BY <3>1, <3>2, <3>3, <3>4, <2>4, <1>2
  <2> QED
    BY <2>3, <2>4, <1>2
<1>5. n \in S
  <2> HIDE DEF S
  <2> QED
    BY <1>3, <1>4, Induction
<1> QED
  BY <1>1, <1>2, <1>5

-----------------------------------------------------------------------------
(* TreeInv is an invariant.                                                *)

\* A request that is about to create a subtask was so before.
SameCreators ==
    \A r \in Requests :
        pc'[r] = "create" => pc[r] = "create" /\ loaded'[r] = loaded[r]

\* A step that creates nothing and validates nothing keeps it.
LEMMA TreeFrame ==
    ASSUME TreeInv, UNCHANGED <<created, parent>>, SameCreators
    PROVE  TreeInv'
BY DEF TreeInv, LevelsOf, RoomBelow, SameCreators

\* A new task is one level below its parent; nobody is below it yet.
LEMMA CreateTree ==
    ASSUME TypeOK, NEW d \in [Tasks -> 0..(MaxTaskDepth - 1)],
           LevelsOf(d), RoomBelow(d), NEW p, Create(p), SameCreators,
           p # None => p \in created /\ d[p] + 1 < MaxTaskDepth
    PROVE  TreeInv'
<1>1. FreshId \in Tasks /\ FreshId \notin created /\ created \subseteq Tasks
  BY DEF Create, FreshId, TypeOK
<1>2. PICK level \in 0..(MaxTaskDepth - 1) :
         level = IF p = None THEN 0 ELSE d[p] + 1
  <2>1. p # None => d[p] + 1 \in 0..(MaxTaskDepth - 1)
    BY <1>1, DepthAssumption
  <2> QED
    BY <2>1, DepthAssumption
<1>3. PICK e \in [Tasks -> 0..(MaxTaskDepth - 1)] :
         e[FreshId] = level /\ \A t \in created : e[t] = d[t]
  <2> DEFINE g == [d EXCEPT ![FreshId] = level]
  <2>1. g \in [Tasks -> 0..(MaxTaskDepth - 1)]
    BY <1>1
  <2>2. g[FreshId] = level /\ \A t \in created : g[t] = d[t]
    BY <1>1
  <2> QED
    BY <2>1, <2>2
<1>4. /\ created' = created \cup {FreshId}
      /\ parent'[FreshId] = p
      /\ \A t \in created : parent'[t] = parent[t]
  BY <1>1 DEF Create, TypeOK
<1>5. LevelsOf(e)'
  <2> SUFFICES ASSUME NEW t \in created'
               PROVE  IF parent'[t] = None THEN e[t] = 0
                      ELSE parent'[t] \in created' /\ e[t] = e[parent'[t]] + 1
    BY DEF LevelsOf
  <2>1. CASE t = FreshId
    BY <2>1, <1>1, <1>2, <1>3, <1>4
  <2>2. CASE t \in created
    BY <2>2, <1>3, <1>4 DEF LevelsOf
  <2> QED
    BY <2>1, <2>2, <1>4
<1>6. RoomBelow(e)'
  BY <1>3, <1>4 DEF RoomBelow, SameCreators
<1> QED
  BY <1>3, <1>5, <1>6 DEF TreeInv

\* Every step keeps it: validateParent has measured the depth of the parent,
\* and no task moves.
LEMMA NextTree == TypeOK /\ TreeInv /\ [Next]_vars => TreeInv'
<1> SUFFICES ASSUME TypeOK, TreeInv, [Next]_vars
             PROVE  TreeInv'
  OBVIOUS
<1>1. PICK d \in [Tasks -> 0..(MaxTaskDepth - 1)] : LevelsOf(d) /\ RoomBelow(d)
  BY DEF TreeInv
<1>2. CASE UNCHANGED vars
  BY <1>2, TreeFrame DEF vars, rowVars, SameCreators
<1>3. ASSUME NEW r \in Requests, CreateTask(r)
      PROVE  TreeInv'
  <2>1. SameCreators
    BY <1>3 DEF CreateTask, SameCreators
  <2> QED
    BY <1>1, <1>3, <2>1, CreateTree DEF CreateTask
<1>4. ASSUME NEW r \in Requests, CreateSubTask(r)
      PROVE  TreeInv'
  <2>1. SameCreators
    BY <1>4 DEF CreateSubTask, SameCreators, TypeOK
  <2>2. loaded[r] \in created /\ d[loaded[r]] + 1 < MaxTaskDepth
    BY <1>1, <1>4 DEF CreateSubTask, RoomBelow
  <2> QED
    BY <1>1, <1>4, <2>1, <2>2, CreateTree DEF CreateSubTask
<1>5. ASSUME NEW r \in Requests, NEW p \in Tasks, ValidateParent(r, p)
      PROVE  TreeInv'
  <2>1. p \in created /\ Ancestor(p, MaxTaskDepth - 1) = None
    BY <1>5 DEF ValidateParent, DepthAllowed
  <2>2. d \in [Tasks -> Nat] /\ MaxTaskDepth - 1 \in Nat
    BY DepthAssumption
  <2>3. d[p] < MaxTaskDepth - 1
    BY <1>1, <2>1, <2>2, AncestorLevel
  <2>4. d[p] + 1 < MaxTaskDepth
    BY <2>2, <2>3, DepthAssumption
  <2>5. LevelsOf(d)'
    BY <1>1, <1>5 DEF ValidateParent, LevelsOf, rowVars
  <2>6. RoomBelow(d)'
    BY <1>1, <1>5, <2>1, <2>4 DEF ValidateParent, RoomBelow, rowVars, TypeOK
  <2> QED
    BY <2>5, <2>6 DEF TreeInv
<1>6. ASSUME NEW r \in Requests, NEW t \in Tasks, NEW m, Load(r, t, m)
      PROVE  TreeInv'
  BY <1>6, TreeFrame DEF Load, rowVars, SameCreators, TypeOK
<1>7. ASSUME NEW r \in Requests, NEW t \in Tasks, Cancel(r, t)
      PROVE  TreeInv'
  BY <1>7, TreeFrame DEF Cancel, rowVars, SameCreators, TypeOK
<1>8. ASSUME NEW r \in Requests, Save(r)
      PROVE  TreeInv'
  BY <1>8, TreeFrame DEF Save, rowVars, SameCreators, TypeOK
<1>9. ASSUME NEW r \in Requests, NEW t \in Tasks, CancelLoad(r, t)
      PROVE  TreeInv'
  BY <1>9, TreeFrame DEF CancelLoad, rowVars, SameCreators, TypeOK
<1>10. ASSUME NEW r \in Requests, CancelSave(r)
       PROVE  TreeInv'
  BY <1>10, TreeFrame DEF CancelSave, rowVars, SameCreators, TypeOK
<1>11. ASSUME NEW r \in Requests, End(r)
       PROVE  TreeInv'
  BY <1>11, TreeFrame DEF End, SameCreators, TypeOK
<1> QED
  BY <1>2, <1>3, <1>4, <1>5, <1>6, <1>7, <1>8, <1>9, <1>10, <1>11
     DEF Next, UpdateStatus, AssignTaskToAgent, UpdateTask, CancelCommit, Fail

\* With no tasks there is nothing to order.
LEMMA InitTree == Init => TreeInv
<1> SUFFICES ASSUME Init PROVE TreeInv
  OBVIOUS
<1> DEFINE d == [t \in Tasks |-> 0]
<1>1. d \in [Tasks -> 0..(MaxTaskDepth - 1)]
  BY DepthAssumption
<1>2. LevelsOf(d) /\ RoomBelow(d)
  BY DEF Init, LevelsOf, RoomBelow
<1> QED
  BY <1>1, <1>2 DEF TreeInv

-----------------------------------------------------------------------------
(* LockInv is an invariant.                                                *)

\* No cancel has begun.
LEMMA InitLock == Init => LockInv
BY DEF Init, LockInv, Visiting

\* A step of a request that is not cancelling, while tasks keep their parents.
LEMMA LockFrame ==
    ASSUME TypeOK, LockInv, NEW r \in Requests,
           UNCHANGED <<todo, written>>, created \subseteq created',
           \A t \in created : parent'[t] = parent[t],
           pc[r] \notin {"cancel", "cancelSave"},
           pc'[r] \notin {"cancel", "cancelSave"},
           pc'[r] = "save" => loaded'[r] \in created',
           \A q \in Requests \ {r} : pc'[q] = pc[q] /\ loaded'[q] = loaded[q]
    PROVE  LockInv'
<1>1. ASSUME NEW q \in Requests
      PROVE  /\ todo'[q] \subseteq created' /\ written'[q] \subseteq created'
             /\ pc'[q] \in {"save", "cancelSave"} => loaded'[q] \in created'
             /\ pc'[q] \notin {"cancel", "cancelSave"} =>
                  todo'[q] = {} /\ written'[q] = {}
             /\ written'[q] = {} =>
                  /\ pc'[q] = "cancelSave" => todo'[q] = {}
                  /\ \A s, t \in todo'[q] : s = t
             /\ written'[q] # {} =>
                  /\ \E t \in Tasks : IsTop(q, t)'
                  /\ \A t \in Visiting(q)' : parent'[t] \in written'[q]
  <2>1. CASE q = r
    BY <2>1 DEF LockInv
  <2>2. CASE q # r
    <3>1. ASSUME NEW t \in Tasks, IsTop(q, t)
          PROVE  IsTop(q, t)'
      BY <3>1 DEF IsTop, LockInv
    <3>2. Visiting(q)' = Visiting(q) /\ Visiting(q) \subseteq created
      BY <2>2 DEF Visiting, LockInv
    <3> QED
      BY <2>2, <3>1, <3>2 DEF LockInv
  <2> QED
    BY <2>1, <2>2
<1>2. \A p, q \in Requests : p # q => written'[p] \cap written'[q] = {}
  BY DEF LockInv
<1> QED
  BY <1>1, <1>2 DEF LockInv

\* A step of the cancel of r leaves the other requests and the tree alone; it
\* is enough to look at r.
LEMMA LockStep ==
    ASSUME TypeOK, LockInv, NEW r \in Requests,
           UNCHANGED <<created, parent>>,
           \A q \in Requests \ {r} :
               /\ pc'[q] = pc[q] /\ loaded'[q] = loaded[q]
               /\ todo'[q] = todo[q] /\ written'[q] = written[q],
           todo'[r] \subseteq created, written'[r] \subseteq created,
           pc'[r] \in {"save", "cancelSave"} => loaded'[r] \in created,
           pc'[r] \notin {"cancel", "cancelSave"} =>
               todo'[r] = {} /\ written'[r] = {},
           written'[r] = {} =>
               /\ pc'[r] = "cancelSave" => todo'[r] = {}
               /\ \A s, t \in todo'[r] : s = t,
           written'[r] # {} =>
               /\ \E t \in Tasks : IsTop(r, t)'
               /\ \A t \in Visiting(r)' : parent[t] \in written'[r],
           \A q \in Requests \ {r} : written[q] \cap written'[r] = {}
    PROVE  LockInv'
<1>1. ASSUME NEW q \in Requests \ {r}
      PROVE  /\ \A t \in Tasks : IsTop(q, t)' <=> IsTop(q, t)
             /\ Visiting(q)' = Visiting(q)
  BY DEF IsTop, Visiting
<1>2. ASSUME NEW q \in Requests
      PROVE  /\ todo'[q] \subseteq created' /\ written'[q] \subseteq created'
             /\ pc'[q] \in {"save", "cancelSave"} => loaded'[q] \in created'
             /\ pc'[q] \notin {"cancel", "cancelSave"} =>
                  todo'[q] = {} /\ written'[q] = {}
             /\ written'[q] = {} =>
                  /\ pc'[q] = "cancelSave" => todo'[q] = {}
                  /\ \A s, t \in todo'[q] : s = t
             /\ written'[q] # {} =>
                  /\ \E t \in Tasks : IsTop(q, t)'
                  /\ \A t \in Visiting(q)' : parent'[t] \in written'[q]
  <2>1. CASE q = r
    BY <2>1
  <2>2. CASE q # r
    BY <2>2, <1>1 DEF LockInv
  <2> QED
    BY <2>1, <2>2
<1>3. \A p, q \in Requests : p # q => written'[p] \cap written'[q] = {}
  <2> TAKE p, q \in Requests
  <2> HAVE p # q
  <2>1. CASE p # r /\ q # r
    BY <2>1 DEF LockInv
  <2>2. CASE p = r
    BY <2>2
  <2>3. CASE q = r
    BY <2>3
  <2> QED
    BY <2>1, <2>2, <2>3
<1> QED
  BY <1>2, <1>3 DEF LockInv

\* Every step keeps it: a task waits its turn to be saved if another cancel
\* has locked it, and the subtasks found are below the task just saved.
LEMMA NextLock == TypeOK /\ LockInv /\ [Next]_vars => LockInv'
<1> SUFFICES ASSUME TypeOK, LockInv, [Next]_vars
             PROVE  LockInv'
  OBVIOUS
<1>1. CASE UNCHANGED vars
  <2>1. /\ \A r \in Requests, t \in Tasks : IsTop(r, t)' <=> IsTop(r, t)
        /\ \A r \in Requests : Visiting(r)' = Visiting(r)
    BY <1>1 DEF vars, rowVars, txVars, IsTop, Visiting
  <2> QED
    BY <1>1, <2>1 DEF vars, rowVars, txVars, LockInv
<1>2. ASSUME NEW r \in Requests, CreateTask(r)
      PROVE  LockInv'
  <2>1. FreshId \notin created
    BY <1>2 DEF CreateTask, Create, FreshId, TypeOK
  <2>2. /\ created' = created \cup {FreshId}
        /\ \A t \in created : parent'[t] = parent[t]
    BY <1>2, <2>1 DEF CreateTask, Create, TypeOK
  <2>3. UNCHANGED <<pc, loaded, todo, written>>
    BY <1>2 DEF CreateTask, txVars
  <2>4. pc[r] = "idle"
    BY <1>2 DEF CreateTask
  <2> QED
    BY <2>2, <2>3, <2>4, LockFrame
<1>3. ASSUME NEW r \in Requests, CreateSubTask(r)
      PROVE  LockInv'
  <2>1. FreshId \notin created
    BY <1>3 DEF CreateSubTask, Create, FreshId, TypeOK
  <2>2. /\ created' = created \cup {FreshId}
        /\ \A t \in created : parent'[t] = parent[t]
    BY <1>3, <2>1 DEF CreateSubTask, Create, TypeOK
  <2>3. UNCHANGED <<todo, written>>
    BY <1>3 DEF CreateSubTask, txVars
  <2>4. /\ pc[r] = "create" /\ pc'[r] = "idle"
        /\ \A q \in Requests \ {r} : pc'[q] = pc[q] /\ loaded'[q] = loaded[q]
    BY <1>3 DEF CreateSubTask, TypeOK
  <2> QED
    BY <2>2, <2>3, <2>4, LockFrame
<1>4. ASSUME NEW r \in Requests, NEW p \in Tasks, ValidateParent(r, p)
      PROVE  LockInv'
  <2>1. /\ pc[r] = "idle" /\ pc'[r] = "create"
        /\ \A q \in Requests \ {r} : pc'[q] = pc[q] /\ loaded'[q] = loaded[q]
    BY <1>4 DEF ValidateParent, TypeOK
  <2> QED
    BY <1>4, <2>1, LockFrame DEF ValidateParent, rowVars, txVars
<1>5. ASSUME NEW r \in Requests, NEW t \in Tasks, NEW m, Load(r, t, m)
      PROVE  LockInv'
  <2>1. /\ pc[r] = "idle" /\ pc'[r] = "save" /\ loaded'[r] = t
        /\ \A q \in Requests \ {r} : pc'[q] = pc[q] /\ loaded'[q] = loaded[q]
    BY <1>5 DEF Load, TypeOK
  <2> QED
    BY <1>5, <2>1, LockFrame DEF Load, rowVars, txVars
<1>6. ASSUME NEW r \in Requests, Save(r)
      PROVE  LockInv'
  <2>1. /\ pc[r] = "save" /\ pc'[r] = "idle"
        /\ \A q \in Requests \ {r} : pc'[q] = pc[q] /\ loaded'[q] = loaded[q]
    BY <1>6 DEF Save, TypeOK
  <2> QED
    BY <1>6, <2>1, LockFrame DEF Save, txVars
<1>7. ASSUME NEW r \in Requests, NEW t \in Tasks, Cancel(r, t)
      PROVE  LockInv'
  <2>1. /\ pc[r] = "idle" /\ pc'[r] = "cancel"
        /\ todo'[r] = {t} /\ t \in created
        /\ written[r] = {} /\ written' = written
        /\ UNCHANGED <<created, parent, loaded>>
    BY <1>7 DEF Cancel, TypeOK, LockInv, rowVars
  <2>2. \A q \in Requests \ {r} : pc'[q] = pc[q] /\ todo'[q] = todo[q]
    BY <1>7 DEF Cancel, TypeOK
  <2> QED
    BY <2>1, <2>2, LockStep
<1>8. ASSUME NEW r \in Requests, NEW t \in Tasks, CancelLoad(r, t)
      PROVE  LockInv'
  <2>1. /\ pc[r] = "cancel" /\ t \in todo[r]
        /\ todo'[r] = todo[r] \ {t}
        /\ written' = written
        /\ UNCHANGED <<created, parent>>
        /\ \/ pc'[r] = "cancel" /\ loaded' = loaded
           \/ pc'[r] = "cancelSave" /\ loaded'[r] = t
    BY <1>8 DEF CancelLoad, TypeOK, rowVars
  <2>2. \A q \in Requests \ {r} : /\ pc'[q] = pc[q] /\ todo'[q] = todo[q]
                                 /\ loaded'[q] = loaded[q]
    BY <1>8 DEF CancelLoad, TypeOK
  <2>3. \A s \in Tasks : IsTop(r, s)' <=> IsTop(r, s)
    BY <2>1 DEF IsTop
  <2>4. Visiting(r)' \subseteq Visiting(r)
    BY <2>1 DEF Visiting
  <2>5. /\ todo[r] \subseteq created /\ written[r] \subseteq created
        /\ written[r] = {} => \A s, u \in todo[r] : s = u
        /\ written[r] # {} => /\ \E s \in Tasks : IsTop(r, s)
                              /\ \A s \in Visiting(r) : parent[s] \in written[r]
        /\ \A q \in Requests \ {r} : written[q] \cap written[r] = {}
    BY DEF LockInv
  <2>6. /\ todo'[r] \subseteq created /\ written'[r] \subseteq created
        /\ pc'[r] \in {"save", "cancelSave"} => loaded'[r] \in created
        /\ pc'[r] \in {"cancel", "cancelSave"}
    BY <2>1, <2>5
  <2>7. written'[r] = {} =>
          /\ pc'[r] = "cancelSave" => todo'[r] = {}
          /\ \A s, u \in todo'[r] : s = u
    BY <2>1, <2>5
  <2>8. written'[r] # {} =>
          /\ \E s \in Tasks : IsTop(r, s)'
          /\ \A s \in Visiting(r)' : parent[s] \in written'[r]
    BY <2>1, <2>3, <2>4, <2>5
  <2> QED
    BY <2>1, <2>2, <2>5, <2>6, <2>7, <2>8, LockStep
<1>9. ASSUME NEW r \in Requests, CancelSave(r)
      PROVE  LockInv'
  <2>1. PICK t \in created : t = loaded[r]
    BY <1>9 DEF CancelSave, LockInv
  <2>2. /\ pc[r] = "cancelSave" /\ pc'[r] = "cancel"
        /\ written'[r] = written[r] \cup {t}
        /\ todo'[r] = todo[r] \cup SubTasks(t)
        /\ UNCHANGED <<created, parent>>
    BY <1>9, <2>1 DEF CancelSave, TypeOK, rowVars
  <2>3. \A q \in Requests \ {r} :
           /\ pc'[q] = pc[q] /\ todo'[q] = todo[q]
           /\ loaded'[q] = loaded[q] /\ written'[q] = written[q]
    BY <1>9 DEF CancelSave, TypeOK
  <2>4. \A q \in Requests \ {r} : t \notin written[q]
    BY <1>9, <2>1 DEF CancelSave, Locked
  <2>5. SubTasks(t) \subseteq created /\ \A s \in SubTasks(t) : parent[s] = t
    BY DEF SubTasks
  <2>6. \E s \in Tasks : IsTop(r, s)'
    <3>1. CASE written[r] = {}
      <4>1. IsTop(r, t)'
        BY <2>2, <3>1 DEF IsTop
      <4> QED
        BY <4>1, <2>1 DEF TypeOK
    <3>2. CASE written[r] # {}
      <4>1. PICK s \in Tasks : IsTop(r, s)
        BY <3>2 DEF LockInv
      <4>2. parent[t] \in written[r]
        BY <2>1, <2>2, <3>2 DEF LockInv, Visiting
      <4>3. IsTop(r, s)'
        BY <2>2, <4>1, <4>2 DEF IsTop
      <4> QED
        BY <4>3
    <3> QED
      BY <3>1, <3>2
  <2>7. \A s \in Visiting(r)' : parent[s] \in written'[r]
    <3>1. Visiting(r)' = todo[r] \cup SubTasks(t)
      BY <2>2 DEF Visiting
    <3>2. ASSUME NEW s \in todo[r]
          PROVE  parent[s] \in written[r]
      BY <3>2, <2>2 DEF LockInv, Visiting
    <3> QED
      BY <3>1, <3>2, <2>2, <2>5
  <2>8. todo'[r] \subseteq created /\ written'[r] \subseteq created
    BY <2>1, <2>2, <2>5 DEF LockInv
  <2>9. \A q \in Requests \ {r} : written[q] \cap written'[r] = {}
    BY <2>2, <2>4 DEF LockInv
  <2>10. pc'[r] = "cancel" /\ written'[r] # {}
    BY <2>2
  <2> QED
    BY <2>2, <2>3, <2>6, <2>7, <2>8, <2>9, <2>10, LockStep
<1>10. ASSUME NEW r \in Requests, End(r)
       PROVE  LockInv'
  <2>1. /\ pc'[r] = "idle" /\ todo'[r] = {} /\ written'[r] = {}
        /\ UNCHANGED <<created, parent>>
    BY <1>10 DEF End, TypeOK
  <2>2. \A q \in Requests \ {r} :
           /\ pc'[q] = pc[q] /\ todo'[q] = todo[q]
           /\ loaded'[q] = loaded[q] /\ written'[q] = written[q]
    BY <1>10 DEF End, TypeOK
  <2> QED
    BY <2>1, <2>2, LockStep
<1> QED
  BY <1>1, <1>2, <1>3, <1>4, <1>5, <1>6, <1>7, <1>8, <1>9, <1>10
     DEF Next, UpdateStatus, AssignTaskToAgent, UpdateTask, CancelCommit, Fail

-----------------------------------------------------------------------------
(* What the two invariants are for.                                        *)

\* The depth of a task is the length of the walk up from it.
LEMMA DepthFromTree == TypeOK /\ TreeInv => DepthBounded
<1> SUFFICES ASSUME TypeOK, TreeInv, NEW t \in created
             PROVE  Ancestor(t, MaxTaskDepth) = None
  BY DEF DepthBounded
<1>1. PICK d \in [Tasks -> 0..(MaxTaskDepth - 1)] : LevelsOf(d)
  BY DEF TreeInv
<1>2. d \in [Tasks -> Nat] /\ MaxTaskDepth \in Nat /\ d[t] < MaxTaskDepth
  BY DepthAssumption DEF TypeOK
<1> QED
  BY <1>1, <1>2, AncestorLevel

\* The task a cancel began with is above all others it has locked.
LEMMA TopIsLeast ==
    ASSUME TypeOK, LockInv, NEW d \in [Tasks -> Nat], LevelsOf(d),
           NEW r \in Requests, NEW t \in Tasks, IsTop(r, t),
           NEW s \in written[r]
    PROVE  d[t] <= d[s]
<1>1. written[r] \subseteq created /\ created \subseteq Tasks
  BY DEF LockInv, TypeOK
<1> DEFINE D == {d[u] : u \in written[r]}
<1>2. D \in SUBSET Nat /\ D # {}
  BY <1>1
<1>3. PICK u \in written[r] : \A v \in written[r] : d[u] <= d[v]
  <2>1. PICK x \in D : \A y \in D : x <= y
    BY <1>2, LeastElement
  <2> QED
    BY <2>1
<1>4. CASE u = t
  BY <1>3, <1>4
<1>5. CASE u # t
  <2>1. parent[u] \in written[r]
    BY <1>5 DEF IsTop
  <2>2. parent[u] # None
    BY <2>1, <1>1, NoneAssumption
  <2>3. d[u] = d[parent[u]] + 1
    BY <2>2, <1>1 DEF LevelsOf
  <2>4. d[u] <= d[parent[u]] /\ d[parent[u]] \in Nat
    BY <2>1, <1>1, <1>3
  <2> QED
    BY <2>3, <2>4
<1> QED
  BY <1>4, <1>5

\* A cancel that holds locks only waits for one that began further down.
LEMMA WaitsBelow ==
    ASSUME TypeOK, LockInv, NEW d \in [Tasks -> Nat], LevelsOf(d),
           NEW r \in Requests, NEW q \in Requests, WaitsFor(r, q),
           NEW t \in Tasks, IsTop(r, t)
    PROVE  \E u \in Tasks : IsTop(q, u) /\ d[t] < d[u]
<1>1. PICK l \in written[q] : l = loaded[r]
  BY DEF WaitsFor
<1>2. pc[r] = "cancelSave" /\ written[r] # {} /\ q # r
  BY DEF WaitsFor, IsTop, LockInv
<1>3. parent[l] \in written[r]
  BY <1>1, <1>2 DEF LockInv, Visiting
<1>4. parent[l] \notin written[q]
  BY <1>2, <1>3 DEF LockInv
<1>5. IsTop(q, l)
  BY <1>1, <1>4 DEF IsTop, LockInv
<1>6. /\ written[r] \subseteq created /\ written[q] \subseteq created
      /\ created \subseteq Tasks
  BY DEF LockInv, TypeOK
<1>7. d[l] = d[parent[l]] + 1
  BY <1>1, <1>3, <1>6, NoneAssumption DEF LevelsOf
<1>8. d[t] <= d[parent[l]]
  BY <1>3, TopIsLeast
<1>9. d[t] \in Nat /\ d[parent[l]] \in Nat /\ d[l] \in Nat /\ l \in Tasks
  BY <1>1, <1>3, <1>6
<1> QED
  BY <1>5, <1>7, <1>8, <1>9

\* So whoever began furthest down, of requests that wait for each other, has
\* nobody to wait for.
LEMMA NoCycleFromLocks == TypeOK /\ TreeInv /\ LockInv => NoWaitCycle
<1> SUFFICES ASSUME TypeOK, TreeInv, LockInv, NEW S \in SUBSET Requests,
                    S # {}, \A r \in S : \E q \in S : WaitsFor(r, q)
             PROVE  FALSE
  BY DEF NoWaitCycle
<1>1. PICK d \in [Tasks -> 0..(MaxTaskDepth - 1)] : LevelsOf(d)
  BY DEF TreeInv
<1>2. d \in [Tasks -> Nat] /\ MaxTaskDepth \in Nat
  BY DepthAssumption
<1> DEFINE Tops == {t \in Tasks : \E r \in S : IsTop(r, t)}
           Rooms == {MaxTaskDepth - d[t] : t \in Tops}
<1>3. \A t \in Tasks : d[t] < MaxTaskDepth /\ MaxTaskDepth - d[t] \in Nat
  BY <1>2
<1>4. Rooms \in SUBSET Nat
  BY <1>3
<1>5. Rooms # {}
  <2>1. PICK r \in S, q \in S : WaitsFor(r, q)
    OBVIOUS
  <2>2. written[q] # {}
    BY <2>1 DEF WaitsFor
  <2>3. PICK t \in Tasks : IsTop(q, t)
    BY <2>2 DEF LockInv
  <2> QED
    BY <2>3
<1>6. PICK x \in Rooms : \A y \in Rooms : x <= y
  BY <1>4, <1>5, LeastElement
<1>7. PICK r \in S, t \in Tasks : IsTop(r, t) /\ x = MaxTaskDepth - d[t]
  BY <1>6
<1>8. PICK q \in S : WaitsFor(r, q)
  BY <1>7
<1>9. PICK u \in Tasks : IsTop(q, u) /\ d[t] < d[u]
  BY <1>1, <1>2, <1>7, <1>8, WaitsBelow
<1>10. MaxTaskDepth - d[u] \in Rooms
  BY <1>9
<1>11. MaxTaskDepth - d[t] <= MaxTaskDepth - d[u]
  BY <1>6, <1>7, <1>10
<1>12. d[t] \in Nat /\ d[u] \in Nat
  BY <1>2
<1> QED
  BY <1>2, <1>9, <1>11, <1>12

\* Tasks form a forest of bounded depth, and who is about to add to it has
\* found room.
THEOREM SpecTreeInv == Spec => []TreeInv
<1>1. Init => TreeInv
  BY InitTree
<1>2. TypeOK /\ TreeInv /\ [Next]_vars => TreeInv'
  BY NextTree
<1> QED
  BY <1>1, <1>2, SpecTypeOK, PTL DEF Spec

\* Cancels lock from the top down and no two of them the same task.
THEOREM SpecLockInv == Spec => []LockInv
<1>1. Init => LockInv
  BY InitLock
<1>2. TypeOK /\ LockInv /\ [Next]_vars => LockInv'
  BY NextLock
<1> QED
  BY <1>1, <1>2, SpecTypeOK, PTL DEF Spec

\* No task is ever MaxTaskDepth levels below its root, however many requests
\* sit between validateParent and the insert.
THEOREM SpecDepthBounded == Spec => []DepthBounded
BY DepthFromTree, SpecTypeOK, SpecTreeInv, PTL

\* Saves and cancels, however many and wherever they begin, never wait for
\* each other in a circle.
THEOREM SpecNoWaitCycle == Spec => []NoWaitCycle
BY NoCycleFromLocks, SpecTypeOK, SpecTreeInv, SpecLockInv, PTL
=============================================================================
