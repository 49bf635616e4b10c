------------------------ MODULE ModelCatalog_proofs ------------------------
(***************************************************************************)
(* Proofs about ModelCatalog for any number of models, agents, requests    *)
(* and turns: the types, that there is one default at most and that it is  *)
(* handed over, and what explains a cached client that is out of date.     *)
(***************************************************************************)
EXTENDS ModelCatalog, FiniteSetTheorems, TLAPS

\* What a request can be doing at each of its steps; only the transaction of
\* SetDefault holds locks.
Phase(r) ==
    /\ req[r].pc # "promote" => req[r].locks = {}
    /\ req[r].pc \notin {"idle", "rebind"} => req[r].model \in Models
    /\ req[r].pc \in {"read", "write"} => req[r].op \in {"update", "patch", "toolUpdate"}
    /\ req[r].pc = "insert" => req[r].op \in {"create", "toolCreate"}
    /\ req[r].pc = "check" => req[r].op = "delete"
    /\ req[r].pc = "delete" => req[r].op \in {"delete", "toolDelete"}
    /\ req[r].pc \in {"snapshot", "clear", "promote"} =>
         req[r].op \in {"create", "update", "patch", "toolUpdate", "toolDefault"}
    /\ req[r].pc \in {"list", "backfill"} => req[r].op \in {"create", "update", "patch"}
    /\ req[r].pc = "invalidate" /\ req[r].op = "delete" => req[r].model \in deleted
PhaseInv ==
    /\ \A r \in Requests : Phase(r)
    /\ \A t \in Turns : get[t].pc = "install" => get[t].model \in Models

UniqueInv == \A m, n \in DefaultChat : m = n

\* A request that has changed or deleted the row of m and is on its way to
\* invalidate the cached client.
WillInvalidate(r, m) ==
    /\ req[r].model = m
    /\ req[r].op \in {"update", "patch", "delete"}
    /\ req[r].pc \in {"snapshot", "clear", "promote", "list", "backfill", "invalidate"}
Deleted(r, m) == req[r].model = m /\ req[r].op = "delete" /\ req[r].pc = "invalidate"

\* A client of m made from revision v is up to date or is explained.
Explained(m, v) ==
    \/ m \in unexplained
    \/ /\ m \in Existing
       /\ v = rows[m].rev \/ \E r \in Requests : WillInvalidate(r, m)
    \/ m \notin Existing /\ \E r \in Requests : Deleted(r, m)

\* Both clients in the cache and those a Get is about to put there are.
StaleInv ==
    /\ \A m \in DOMAIN clients : Explained(m, clients[m])
    /\ \A t \in Turns : get[t].pc = "install" => Explained(get[t].model, get[t].rev)

IInv == TypeOK /\ PhaseInv /\ UniqueInv /\ StaleInv

-----------------------------------------------------------------------------
(* Types.                                                                  *)

PCs == {"idle", "read", "insert", "write", "check", "delete", "snapshot",
        "clear", "promote", "list", "backfill", "invalidate", "rebind"}
Ops == HttpWrites \cup ToolWrites \cup AgentWrites \cup {"none"}

\* The records that the steps of a request build are requests.
LEMMA NoReqType == NoReq \in Request
BY DEF NoReq, Request, Kinds

LEMMA GotoType ==
    ASSUME NEW c \in Request, NEW pc \in PCs, NEW todo \in SUBSET Agents
    PROVE  [c EXCEPT !.pc = pc, !.todo = todo] \in Request
BY DEF Request, PCs

LEMMA ReadType ==
    ASSUME NEW c \in Request, NEW pc \in PCs, NEW was \in BOOLEAN, NEW kind \in Kinds
    PROVE  [c EXCEPT !.pc = pc, !.wasDefault = was, !.kind = kind] \in Request
BY DEF Request, PCs

LEMMA TargetsType ==
    ASSUME NEW c \in Request, NEW pc \in PCs, NEW targets \in SUBSET Models
    PROVE  [c EXCEPT !.pc = pc, !.targets = targets] \in Request
BY DEF Request, PCs

LEMMA LocksType ==
    ASSUME NEW c \in Request, NEW pc \in PCs, NEW locks \in SUBSET Models
    PROVE  [c EXCEPT !.pc = pc, !.locks = locks] \in Request
BY DEF Request, PCs

LEMMA ClearType ==
    ASSUME NEW c \in Request, NEW pc \in PCs, NEW targets \in SUBSET Models,
           NEW locks \in SUBSET Models
    PROVE  [c EXCEPT !.pc = pc, !.targets = targets, !.locks = locks] \in Request
BY DEF Request, PCs

LEMMA TodoType ==
    ASSUME NEW c \in Request, NEW todo \in SUBSET Agents
    PROVE  [c EXCEPT !.todo = todo] \in Request
BY DEF Request

LEMMA AskedType ==
    ASSUME NEW c \in Request, NEW pc \in PCs, NEW op \in Ops, NEW m \in Models \cup {None}
    PROVE  [c EXCEPT !.pc = pc, !.op = op, !.model = m] \in Request
BY DEF Request, PCs, Ops

LEMMA AskedDefaultType ==
    ASSUME NEW c \in Request, NEW pc \in PCs, NEW op \in Ops, NEW m \in Models \cup {None},
           NEW was \in BOOLEAN
    PROVE  [c EXCEPT !.pc = pc, !.op = op, !.model = m, !.wasDefault = was] \in Request
BY DEF Request, PCs, Ops

LEMMA HowType ==
    ASSUME NEW c \in Request, NEW kind \in Kinds, NEW promote \in BOOLEAN
    PROVE  /\ \A todo \in SUBSET Agents :
                [c EXCEPT !.kind = kind, !.promote = promote, !.todo = todo] \in Request
           /\ \A was \in BOOLEAN :
                [c EXCEPT !.kind = kind, !.promote = promote, !.wasDefault = was] \in Request
BY DEF Request

\* A step that replaces one request by another keeps the type of req.
LEMMA ReplaceType ==
    ASSUME TypeOK, NEW r \in Requests, NEW c \in Request, req' = [req EXCEPT ![r] = c]
    PROVE  req' \in [Requests -> Request]
BY DEF TypeOK

LEMMA ReqInType ==
    ASSUME TypeOK, NEW r \in Requests
    PROVE  req[r] \in Request
BY DEF TypeOK

LEMMA GotoStep ==
    ASSUME TypeOK, NEW r \in Requests, NEW pc \in PCs, Goto(r, pc)
    PROVE  req' \in [Requests -> Request]
<1> DEFINE c == [req[r] EXCEPT !.pc = pc, !.todo = {}]
<1>1. c \in Request
    BY ReqInType, GotoType
<1>2. req' = [req EXCEPT ![r] = c]
    BY DEF Goto
<1> QED
    BY <1>1, <1>2, ReplaceType

LEMMA ReturnStep ==
    ASSUME TypeOK, NEW r \in Requests, Return(r)
    PROVE  req' \in [Requests -> Request]
BY NoReqType, ReplaceType DEF Return

LEMMA BeginStep ==
    ASSUME TypeOK, NEW r \in Requests, NEW pc \in PCs, NEW op \in Ops,
           NEW m \in Models \cup {None}, NEW kind \in Kinds, NEW promote \in BOOLEAN,
           NEW todo \in SUBSET Agents, Begin(r, op, m, kind, promote, todo, pc)
    PROVE  req' \in [Requests -> Request]
<1> DEFINE b == [NoReq EXCEPT !.pc = pc, !.op = op, !.model = m]
           c == [b EXCEPT !.kind = kind, !.promote = promote, !.todo = todo]
<1>1. req' = [req EXCEPT ![r] = c]
    BY DEF Begin
<1>2. b \in Request
    BY AskedType, NoReqType
<1> HIDE DEF b
<1>3. c \in Request
    BY <1>2, HowType
<1> QED
    BY <1>1, <1>3, ReplaceType

LEMMA OpsAre ==
    /\ {"create", "update", "patch", "delete"} \subseteq Ops
    /\ {"toolCreate", "toolUpdate", "toolDefault", "toolDelete"} \subseteq Ops
    /\ {"bind", "inherit", "touch"} \subseteq Ops
    /\ "chat" \in Kinds
BY DEF Ops, HttpWrites, ToolWrites, AgentWrites, Kinds

\* Beginning a request.
LEMMA BeginsType ==
    ASSUME TypeOK, NEW r \in Requests, RequestBegins(r)
    PROVE  req' \in [Requests -> Request]
<1> USE OpsAre DEF PCs
<1>1. ASSUME NEW m \in Models, NEW kind \in Kinds, NEW promote \in BOOLEAN,
             CreateModel(r, m, kind, promote)
      PROVE  req' \in [Requests -> Request]
  <2> DEFINE p == promote /\ kind = "chat"
             w == kind = "chat" /\ ~promote /\ DefaultChat = {}
             b == [NoReq EXCEPT !.pc = "insert", !.op = "create", !.model = m]
             c == [b EXCEPT !.kind = kind, !.promote = p, !.wasDefault = w]
  <2>1. req' = [req EXCEPT ![r] = c]
    BY <1>1 DEF CreateModel
  <2>2. b \in Request /\ p \in BOOLEAN /\ w \in BOOLEAN
    BY AskedType, NoReqType
  <2> HIDE DEF b, p, w
  <2>3. c \in Request
    BY <2>2, HowType
  <2> QED BY <2>1, <2>3, ReplaceType
<1>2. ASSUME NEW m \in Models, NEW promote \in BOOLEAN, AdminCreateModel(r, m, promote)
      PROVE  req' \in [Requests -> Request]
  <2> DEFINE c == [NoReq EXCEPT !.pc = "insert", !.op = "toolCreate", !.model = m,
                                !.wasDefault = promote]
  <2>1. req' = [req EXCEPT ![r] = c]
    BY <1>2 DEF AdminCreateModel
  <2>2. c \in Request
    BY AskedDefaultType, NoReqType
  <2> QED BY <2>1, <2>2, ReplaceType
<1>3. ASSUME NEW pc \in PCs, NEW op \in Ops, NEW m \in Models \cup {None},
             NEW kind \in Kinds, NEW promote \in BOOLEAN, NEW todo \in SUBSET Agents,
             Begin(r, op, m, kind, promote, todo, pc)
      PROVE  req' \in [Requests -> Request]
    BY <1>3, BeginStep
<1> DEFINE Begins ==
        \E pc \in PCs, op \in Ops, m \in Models \cup {None}, kind \in Kinds,
           promote \in BOOLEAN, todo \in SUBSET Agents :
               Begin(r, op, m, kind, promote, todo, pc)
<1>4. ASSUME NEW m \in Models, NEW kind \in Kinds, NEW promote \in BOOLEAN,
             \/ UpdateModel(r, m, kind, promote) \/ PatchModel(r, m, promote)
             \/ AdminUpdateModel(r, m, promote) \/ DeleteModel(r, m)
             \/ AdminSetDefaultModel(r, m) \/ AdminDeleteModel(r, m)
      PROVE  Begins
  <2> "read" \in PCs /\ "check" \in PCs /\ "snapshot" \in PCs /\ "delete" \in PCs
    BY DEF PCs
  <2> TRUE \in BOOLEAN /\ FALSE \in BOOLEAN /\ {} \in SUBSET Agents /\ m \in Models \cup {None}
    OBVIOUS
  <2>0. ASSUME NEW k \in Kinds, UpdateModel(r, m, k, promote) PROVE Begins
    BY <2>0, OpsAre DEF UpdateModel
  <2>1. CASE UpdateModel(r, m, kind, promote)
    BY <2>0, <2>1
  <2>2. CASE PatchModel(r, m, promote)
    <3>1. CASE Begin(r, "patch", m, "chat", promote, {}, "read")
      BY <3>1, OpsAre
    <3> HIDE DEF Begins
    <3> QED BY <2>0, <2>2, <3>1 DEF PatchModel
  <2>3. CASE AdminUpdateModel(r, m, promote)
    BY <2>3, OpsAre DEF AdminUpdateModel
  <2>4. CASE DeleteModel(r, m)
    BY <2>4, OpsAre DEF DeleteModel
  <2>5. CASE AdminSetDefaultModel(r, m)
    BY <2>5, OpsAre DEF AdminSetDefaultModel
  <2>6. CASE AdminDeleteModel(r, m)
    BY <2>6, OpsAre DEF AdminDeleteModel
  <2> QED BY <1>4, <2>1, <2>2, <2>3, <2>4, <2>5, <2>6
<1>5. ASSUME NEW a \in Agents, NEW m \in Models \cup {None}, NEW op \in Ops,
             Begin(r, op, m, "chat", FALSE, {a}, "rebind")
      PROVE  Begins
  <2> "rebind" \in PCs
    BY DEF PCs
  <2> FALSE \in BOOLEAN /\ {a} \in SUBSET Agents /\ "chat" \in Kinds
    BY OpsAre
  <2> QED BY <1>5
<1>6. ASSUME NEW a \in Agents, NEW m \in Models, BindAgent(r, a, m)
      PROVE  Begins
    BY <1>5, <1>6, OpsAre DEF BindAgent
<1>7. ASSUME NEW a \in Agents, InheritDefault(r, a)
      PROVE  Begins
    BY <1>5, <1>7, OpsAre DEF InheritDefault, DefaultChat, TypeOK
<1>8. ASSUME NEW a \in Agents, TouchAgent(r, a)
      PROVE  Begins
  <2>1. agentModel[a] \in Models \cup {None}
    BY DEF TypeOK
  <2> QED BY <1>5, <1>8, <2>1, OpsAre DEF TouchAgent
<1>9. Begins => req' \in [Requests -> Request]
    BY <1>3
<1> HIDE DEF Begins
<1>10. CASE \E m \in Models, promote \in BOOLEAN :
        \/ \E kind \in Kinds : CreateModel(r, m, kind, promote)
                               \/ UpdateModel(r, m, kind, promote)
        \/ PatchModel(r, m, promote)
        \/ AdminCreateModel(r, m, promote) \/ AdminUpdateModel(r, m, promote)
    BY <1>1, <1>2, <1>4, <1>9, <1>10, OpsAre
<1>11. CASE \E m \in Models :
        DeleteModel(r, m) \/ AdminSetDefaultModel(r, m) \/ AdminDeleteModel(r, m)
    BY <1>4, <1>9, <1>11, OpsAre
<1>12. CASE \E a \in Agents :
        (\E m \in Models : BindAgent(r, a, m)) \/ InheritDefault(r, a) \/ TouchAgent(r, a)
    BY <1>6, <1>7, <1>8, <1>9, <1>12
<1> QED
    BY <1>10, <1>11, <1>12 DEF RequestBegins

\* The other steps of a request.
LEMMA StepType ==
    ASSUME TypeOK, NEW r \in Requests, RequestStep(r)
    PROVE  req' \in [Requests -> Request]
<1> DEFINE c == req[r]
<1>0. /\ c \in Request
      /\ c.op \in Ops /\ c.model \in Models \cup {None} /\ c.kind \in Kinds
      /\ c.todo \subseteq Agents /\ c.targets \subseteq Models
      /\ DefaultChat \subseteq Models
    BY DEF TypeOK, Request, Ops, DefaultChat
<1>1. ASSUME NEW pc \in PCs, Goto(r, pc)
      PROVE  req' \in [Requests -> Request]
    BY <1>1, GotoStep
<1>2. Return(r) => req' \in [Requests -> Request]
    BY ReturnStep
<1>3. AfterBackfill(r) => req' \in [Requests -> Request]
  <2> "invalidate" \in PCs
    BY DEF PCs
  <2> QED BY <1>1, <1>2 DEF AfterBackfill
<1>4. ASSUME NEW d \in Request, req' = [req EXCEPT ![r] = d]
      PROVE  req' \in [Requests -> Request]
    BY <1>4, ReplaceType
<1> HIDE DEF c
<1>5. CASE Insert(r)
  <2> "snapshot" \in PCs /\ "list" \in PCs
    BY DEF PCs
  <2> QED BY <1>1, <1>2, <1>5 DEF Insert
<1>6. CASE Read(r)
  <2> DEFINE m == c.model
             was == rows[m].isDefault
             kind == IF c.op = "update" THEN c.kind ELSE rows[m].kind
             d == [c EXCEPT !.pc = "write", !.wasDefault = was, !.kind = kind]
  <2>1. Return(r) \/ (m \in Existing /\ req' = [req EXCEPT ![r] = d])
    BY <1>6 DEF Read, c
  <2>2. ASSUME m \in Existing
        PROVE  d \in Request
    <3>1. was \in BOOLEAN /\ kind \in Kinds /\ "write" \in PCs
      BY <1>0, <2>2 DEF TypeOK, Row, PCs
    <3> HIDE DEF was, kind
    <3> QED BY <1>0, <3>1, ReadType
  <2> QED BY <1>2, <1>4, <2>1, <2>2
<1>7. CASE Write(r)
  <2> "snapshot" \in PCs /\ "invalidate" \in PCs
    BY DEF PCs
  <2> QED BY <1>1, <1>2, <1>7 DEF Write
<1>8. CASE SetDefaultSnapshot(r)
  <2> DEFINE targets == DefaultChat \ {c.model}
             d == [c EXCEPT !.pc = "clear", !.targets = targets]
  <2>1. req' = [req EXCEPT ![r] = d]
    BY <1>8 DEF SetDefaultSnapshot, c
  <2>2. targets \in SUBSET Models /\ "clear" \in PCs
    BY <1>0 DEF PCs
  <2> HIDE DEF targets
  <2>3. d \in Request
    BY <1>0, <2>2, TargetsType
  <2> QED BY <1>4, <2>1, <2>3
<1>9. CASE SetDefaultClear(r)
  <2> DEFINE locks == c.targets \cap DefaultChat
             d == [c EXCEPT !.pc = "promote", !.targets = {}, !.locks = locks]
  <2>1. req' = [req EXCEPT ![r] = d]
    BY <1>9 DEF SetDefaultClear, c
  <2>2. locks \in SUBSET Models /\ "promote" \in PCs /\ {} \in SUBSET Models
    BY <1>0 DEF PCs
  <2> HIDE DEF locks
  <2>3. d \in Request
    BY <1>0, <2>2, ClearType
  <2> QED BY <1>4, <2>1, <2>3
<1>10. CASE SetDefaultPromote(r)
  <2> DEFINE d == [c EXCEPT !.pc = "list", !.locks = {}]
  <2>1. Return(r) \/ req' = [req EXCEPT ![r] = d]
    BY <1>10 DEF SetDefaultPromote, Return, c
  <2>2. "list" \in PCs /\ {} \in SUBSET Models
    BY DEF PCs
  <2>3. d \in Request
    BY <1>0, <2>2, LocksType
  <2> QED BY <1>2, <1>4, <2>1, <2>3
<1>11. CASE BackfillList(r)
  <2> DEFINE todo == {a \in Agents : agentModel[a] = None}
             d == [c EXCEPT !.pc = "backfill", !.todo = todo]
  <2>1. AfterBackfill(r) \/ req' = [req EXCEPT ![r] = d]
    BY <1>11 DEF BackfillList, c
  <2>2. "backfill" \in PCs /\ todo \in SUBSET Agents
    BY DEF PCs
  <2> HIDE DEF todo
  <2>3. d \in Request
    BY <1>0, <2>2, GotoType
  <2> QED BY <1>3, <1>4, <2>1, <2>3
<1>12. ASSUME NEW a \in Agents, BackfillAgent(r, a)
       PROVE  req' \in [Requests -> Request]
  <2> DEFINE todo == c.todo \ {a}
             d == [c EXCEPT !.todo = todo]
  <2>1. AfterBackfill(r) \/ req' = [req EXCEPT ![r] = d]
    BY <1>12 DEF BackfillAgent, c
  <2>2. todo \in SUBSET Agents
    BY <1>0
  <2> HIDE DEF todo
  <2>3. d \in Request
    BY <1>0, <2>2, TodoType
  <2> QED BY <1>3, <1>4, <2>1, <2>3
<1>13. CASE DeleteCheck(r)
  <2> "delete" \in PCs
    BY DEF PCs
  <2> QED BY <1>1, <1>2, <1>13 DEF DeleteCheck
<1>14. CASE DeleteRow(r)
  <2> "invalidate" \in PCs
    BY DEF PCs
  <2> QED BY <1>1, <1>2, <1>14 DEF DeleteRow
<1>15. CASE Invalidate(r) \/ Rebind(r)
    BY <1>2, <1>15 DEF Invalidate, Rebind
<1> QED
    BY <1>5, <1>6, <1>7, <1>8, <1>9, <1>10, <1>11, <1>12, <1>13, <1>14, <1>15
       DEF RequestStep

\* What Goto and Return leave of a request.
LEMMA GotoKeeps ==
    ASSUME TypeOK, NEW r \in Requests, NEW pc \in PCs, Goto(r, pc)
    PROVE  /\ req'[r].pc = pc /\ req'[r].op = req[r].op /\ req'[r].model = req[r].model
           /\ req'[r].locks = req[r].locks
<1> DEFINE c == req[r]
           d == [c EXCEPT !.pc = pc, !.todo = {}]
<1>1. c \in Request /\ req'[r] = d
    BY DEF TypeOK, Goto
<1> HIDE DEF c
<1>2. d.pc = pc /\ d.op = c.op /\ d.model = c.model /\ d.locks = c.locks
    BY <1>1 DEF Request
<1> QED
    BY <1>1, <1>2 DEF c

LEMMA ReturnResets ==
    ASSUME TypeOK, NEW r \in Requests, Return(r)
    PROVE  req'[r].pc = "idle" /\ req'[r].locks = {}
BY DEF TypeOK, Return, NoReq

\* A step of a request leaves the other requests alone.
LEMMA OthersKept ==
    ASSUME TypeOK, NEW r \in Requests, RequestBegins(r) \/ RequestStep(r)
    PROVE  \A q \in Requests \ {r} : req'[q] = req[q]
<1> USE DEF TypeOK
<1>1. ASSUME RequestBegins(r)
      PROVE  \A q \in Requests \ {r} : req'[q] = req[q]
  <2>1. \E c : req' = [req EXCEPT ![r] = c]
    BY <1>1 DEF RequestBegins, CreateModel, UpdateModel, PatchModel, DeleteModel,
        AdminCreateModel, AdminUpdateModel, AdminSetDefaultModel, AdminDeleteModel,
        BindAgent, InheritDefault, TouchAgent, Begin
  <2> QED BY <2>1
<1>2. ASSUME RequestStep(r)
      PROVE  \A q \in Requests \ {r} : req'[q] = req[q]
  <2>1. CASE Insert(r) \/ Read(r) \/ Write(r) \/ DeleteCheck(r) \/ DeleteRow(r)
    BY <2>1 DEF Insert, Read, Write, DeleteCheck, DeleteRow, Goto, Return
  <2>2. CASE SetDefaultSnapshot(r) \/ SetDefaultClear(r) \/ SetDefaultPromote(r)
    BY <2>2 DEF SetDefaultSnapshot, SetDefaultClear, SetDefaultPromote, Return
  <2>3. CASE BackfillList(r) \/ Invalidate(r) \/ Rebind(r)
    BY <2>3 DEF BackfillList, Invalidate, Rebind, AfterBackfill, Goto, Return
  <2>4. ASSUME NEW a \in Agents, BackfillAgent(r, a)
        PROVE  \A q \in Requests \ {r} : req'[q] = req[q]
    BY <2>4 DEF BackfillAgent, AfterBackfill, Goto, Return
  <2> QED BY <1>2, <2>1, <2>2, <2>3, <2>4 DEF RequestStep
<1> QED
    BY <1>1, <1>2

LEMMA BeginUnlocked ==
    ASSUME TypeOK, NEW r \in Requests, NEW op, NEW m, NEW kind, NEW promote, NEW todo,
           NEW pc, Begin(r, op, m, kind, promote, todo, pc)
    PROVE  req'[r].locks = {} /\ UNCHANGED rows
BY DEF Begin, TypeOK, NoReq

\* A request begins without locks.
LEMMA BeginsUnlocked ==
    ASSUME TypeOK, NEW r \in Requests, RequestBegins(r)
    PROVE  req'[r].locks = {} /\ UNCHANGED rows
<1> DEFINE Unlocked == req'[r].locks = {} /\ UNCHANGED rows
<1>1. ASSUME NEW m, NEW kind, NEW promote, CreateModel(r, m, kind, promote)
      PROVE  Unlocked
  <2> DEFINE p == promote /\ kind = "chat"
             w == kind = "chat" /\ ~promote /\ DefaultChat = {}
             c == [NoReq EXCEPT !.pc = "insert", !.op = "create", !.model = m,
                                !.kind = kind, !.promote = p, !.wasDefault = w]
  <2>1. req'[r] = c /\ UNCHANGED rows
    BY <1>1 DEF CreateModel, TypeOK
  <2> HIDE DEF p, w
  <2>2. c.locks = {}
    BY DEF NoReq
  <2> QED BY <2>1, <2>2
<1>0. ASSUME NEW m, NEW promote, AdminCreateModel(r, m, promote)
      PROVE  Unlocked
    BY <1>0 DEF AdminCreateModel, TypeOK, NoReq
<1>2. ASSUME NEW m, NEW kind, NEW promote,
             \/ UpdateModel(r, m, kind, promote) \/ PatchModel(r, m, promote)
             \/ AdminUpdateModel(r, m, promote) \/ DeleteModel(r, m)
             \/ AdminSetDefaultModel(r, m) \/ AdminDeleteModel(r, m)
      PROVE  Unlocked
    BY <1>2, BeginUnlocked DEF UpdateModel, PatchModel, AdminUpdateModel, DeleteModel,
        AdminSetDefaultModel, AdminDeleteModel
<1>3. ASSUME NEW a, NEW m, BindAgent(r, a, m) \/ InheritDefault(r, a) \/ TouchAgent(r, a)
      PROVE  Unlocked
    BY <1>3, BeginUnlocked DEF BindAgent, InheritDefault, TouchAgent
<1> HIDE DEF Unlocked
<1>4. Unlocked
    BY <1>0, <1>1, <1>2, <1>3 DEF RequestBegins
<1> QED
    BY <1>4 DEF Unlocked

\* A row is locked only while it is in the table.
LEMMA LocksStep ==
    ASSUME TypeOK, PhaseInv, NEW r \in Requests, RequestBegins(r) \/ RequestStep(r)
    PROVE  \A q \in Requests : req'[q].locks \subseteq Existing'
<1> DEFINE Kept == req'[r].locks \subseteq req[r].locks
<1>0. req[r] \in Request /\ (req[r].pc # "promote" => req[r].locks = {})
    BY DEF TypeOK, PhaseInv, Phase
<1>1. ASSUME NEW pc \in PCs, Goto(r, pc)
      PROVE  Kept
    BY <1>1, GotoKeeps
<1>2. Return(r) => Kept
    BY ReturnResets
<1>3. AfterBackfill(r) => Kept
  <2> "invalidate" \in PCs
    BY DEF PCs
  <2> QED BY <1>1, <1>2 DEF AfterBackfill
<1> HIDE DEF Kept
<1>4. ASSUME Existing \subseteq Existing', Kept
      PROVE  \A q \in Requests : req'[q].locks \subseteq Existing'
    BY <1>4, OthersKept DEF TypeOK, Kept
<1> USE DEF Existing
<1>5. CASE RequestBegins(r)
  <2>1. req'[r].locks = {} /\ UNCHANGED rows
    BY <1>5, BeginsUnlocked
  <2> QED BY <1>4, <2>1 DEF Kept
<1>6. CASE Insert(r)
  <2> "snapshot" \in PCs /\ "list" \in PCs
    BY DEF PCs
  <2>1. Kept
    BY <1>1, <1>2, <1>6 DEF Insert
  <2>2. Existing \subseteq Existing'
    BY <1>6 DEF Insert
  <2> QED BY <1>4, <2>1, <2>2
<1>7. CASE Read(r)
    BY <1>0, <1>2, <1>4, <1>7 DEF Read, TypeOK, Request, Kept
<1>8. CASE Write(r)
  <2> "snapshot" \in PCs /\ "invalidate" \in PCs
    BY DEF PCs
  <2>1. Kept
    BY <1>1, <1>2, <1>8 DEF Write
  <2>2. Existing \subseteq Existing'
    BY <1>8 DEF Write
  <2> QED BY <1>4, <2>1, <2>2
<1>9. CASE SetDefaultSnapshot(r)
    BY <1>0, <1>4, <1>9 DEF SetDefaultSnapshot, TypeOK, Request, Kept
<1>10. CASE SetDefaultClear(r)
  <2> DEFINE c == req[r]
             locks == c.targets \cap DefaultChat
             d == [c EXCEPT !.pc = "promote", !.targets = {}, !.locks = locks]
  <2>1. req'[r] = d /\ UNCHANGED rows
    BY <1>10 DEF SetDefaultClear, TypeOK
  <2>2. locks \subseteq Existing
    BY DEF DefaultChat
  <2> HIDE DEF c, locks
  <2>3. d.locks = locks
    BY <1>0 DEF Request, c
  <2> QED BY <2>1, <2>2, <2>3, OthersKept DEF TypeOK
<1>11. CASE SetDefaultPromote(r)
  <2>1. Kept
    <3>1. Return(r) \/ req' = [req EXCEPT ![r].pc = "list", ![r].locks = {}]
      BY <1>11 DEF SetDefaultPromote, Return
    <3> QED BY <1>0, <1>2, <3>1 DEF Kept, TypeOK, Request
  <2>2. Existing \subseteq Existing'
    BY <1>11 DEF SetDefaultPromote
  <2> QED BY <1>4, <2>1, <2>2
<1>12. CASE BackfillList(r)
    BY <1>0, <1>3, <1>4, <1>12 DEF BackfillList, TypeOK, Request, Kept
<1>13. ASSUME NEW a \in Agents, BackfillAgent(r, a)
       PROVE  \A q \in Requests : req'[q].locks \subseteq Existing'
    BY <1>0, <1>3, <1>4, <1>13 DEF BackfillAgent, TypeOK, Request, Kept
<1>14. CASE DeleteCheck(r)
  <2> "delete" \in PCs
    BY DEF PCs
  <2> QED BY <1>1, <1>2, <1>4, <1>14 DEF DeleteCheck
<1>15. CASE DeleteRow(r)
  <2> "invalidate" \in PCs
    BY DEF PCs
  <2>1. Kept /\ req[r].locks = {}
    BY <1>0, <1>1, <1>2, <1>15 DEF DeleteRow
  <2>2. Existing \ {req[r].model} \subseteq Existing'
    BY <1>15 DEF DeleteRow
  <2>3. \A q \in Requests \ {r} : req[r].model \notin req[q].locks
    BY <1>15 DEF DeleteRow, LockedByOther
  <2> QED BY <2>1, <2>2, <2>3, OthersKept DEF TypeOK, Kept
<1>16. CASE Invalidate(r) \/ Rebind(r)
    BY <1>2, <1>4, <1>16 DEF Invalidate, Rebind
<1> QED
    BY <1>5, <1>6, <1>7, <1>8, <1>9, <1>10, <1>11, <1>12, <1>13, <1>14, <1>15, <1>16
       DEF RequestStep

\* What TypeOK says of everything but the requests.
DataOK ==
    /\ Existing \subseteq Models /\ \A m \in Existing : rows[m] \in Row
    /\ deleted \subseteq Models \ Existing
    /\ agentModel \in [Agents -> Existing \cup {None}]
    /\ DOMAIN clients \subseteq Models
    /\ \A m \in DOMAIN clients : clients[m] \in Nat
    /\ get \in [Turns -> Get]
    /\ ops \in 0..MaxOps
    /\ unexplained \subseteq Models

LEMMA RowDefaultType ==
    ASSUME NEW row \in Row, NEW d \in BOOLEAN
    PROVE  /\ [row EXCEPT !.isDefault = d] \in Row
           /\ [row EXCEPT !.isDefault = d].isDefault = d
           /\ [row EXCEPT !.isDefault = d].kind = row.kind
           /\ [row EXCEPT !.isDefault = d].rev = row.rev
BY DEF Row

LEMMA BeginsData ==
    ASSUME TypeOK, NEW r \in Requests, RequestBegins(r)
    PROVE  /\ UNCHANGED <<rows, deleted, agentModel, clients, get, unexplained>>
           /\ ops' \in 0..MaxOps
<1> DEFINE Same == UNCHANGED <<rows, deleted, agentModel, clients, get, unexplained>>
<1>1. Same /\ ops < MaxOps /\ ops' = ops + 1
  <2> DEFINE Counted == Same /\ ops < MaxOps /\ ops' = ops + 1
  <2>1. ASSUME NEW op, NEW m, NEW kind, NEW promote, NEW todo, NEW pc,
               Begin(r, op, m, kind, promote, todo, pc)
        PROVE  Counted
    BY <2>1 DEF Begin
  <2>2. ASSUME NEW m, NEW kind, NEW promote,
               CreateModel(r, m, kind, promote) \/ AdminCreateModel(r, m, promote)
        PROVE  Counted
    BY <2>2 DEF CreateModel, AdminCreateModel
  <2> HIDE DEF Counted
  <2>3. ASSUME NEW m, NEW kind, NEW promote,
               \/ UpdateModel(r, m, kind, promote) \/ PatchModel(r, m, promote)
               \/ AdminUpdateModel(r, m, promote) \/ DeleteModel(r, m)
               \/ AdminSetDefaultModel(r, m) \/ AdminDeleteModel(r, m)
        PROVE  Counted
    BY <2>1, <2>3 DEF UpdateModel, PatchModel, AdminUpdateModel, DeleteModel,
        AdminSetDefaultModel, AdminDeleteModel
  <2>4. ASSUME NEW a, NEW m, BindAgent(r, a, m) \/ InheritDefault(r, a) \/ TouchAgent(r, a)
        PROVE  Counted
    BY <2>1, <2>4 DEF BindAgent, InheritDefault, TouchAgent
  <2>5. Counted
    BY <2>2, <2>3, <2>4 DEF RequestBegins
  <2> QED BY <2>5 DEF Counted
<1> QED
    BY <1>1, MaxOpsAssumption DEF TypeOK

\* The promotion sets one flag, clears those the transaction holds and
\* leaves the rest of the rows as it is.
LEMMA PromoteRows ==
    ASSUME TypeOK, NEW r \in Requests, SetDefaultPromote(r), rows' # rows
    PROVE  LET m == req[r].model IN
           /\ m \in Existing /\ Existing' = Existing
           /\ ~UniqueViolation(r, m, [rows[m] EXCEPT !.isDefault = TRUE])
           /\ rows'[m].isDefault /\ UNCHANGED unexplained
           /\ \A n \in Existing :
                /\ rows'[n] \in Row
                /\ rows'[n].kind = rows[n].kind /\ rows'[n].rev = rows[n].rev
                /\ n # m => (rows'[n].isDefault <=> rows[n].isDefault /\ n \notin req[r].locks)
<1> DEFINE m == req[r].model
           row == [rows[m] EXCEPT !.isDefault = TRUE]
           Cleared(n) == [rows[n] EXCEPT !.isDefault = FALSE]
<1>1. /\ m \in Existing /\ ~UniqueViolation(r, m, row) /\ UNCHANGED unexplained
      /\ rows' = [n \in Existing |-> IF n = m THEN row
                                     ELSE IF n \in req[r].locks THEN Cleared(n)
                                     ELSE rows[n]]
    BY DEF SetDefaultPromote
<1>2. \A n \in Existing : rows[n] \in Row
    BY DEF TypeOK
<1>3. row \in Row /\ row.isDefault /\ row.kind = rows[m].kind /\ row.rev = rows[m].rev
    BY <1>1, <1>2, RowDefaultType
<1>4. ASSUME NEW n \in Existing
      PROVE  /\ Cleared(n) \in Row /\ ~Cleared(n).isDefault
             /\ Cleared(n).kind = rows[n].kind /\ Cleared(n).rev = rows[n].rev
    BY <1>2, RowDefaultType
<1>5. /\ Existing' = Existing /\ rows'[m] = row
      /\ \A n \in Existing : n # m => rows'[n] = IF n \in req[r].locks THEN Cleared(n)
                                                ELSE rows[n]
    BY <1>1 DEF Existing
<1> HIDE DEF row, Cleared
<1>6. ASSUME NEW n \in Existing
      PROVE  /\ rows'[n] \in Row
             /\ rows'[n].kind = rows[n].kind /\ rows'[n].rev = rows[n].rev
             /\ n # m => (rows'[n].isDefault <=> rows[n].isDefault /\ n \notin req[r].locks)
  <2>1. CASE n = m
    BY <1>3, <1>5, <2>1
  <2>2. CASE n # m /\ n \in req[r].locks
    BY <1>4, <1>5, <2>2
  <2>3. CASE n # m /\ n \notin req[r].locks
    <3>1. rows'[n] = rows[n]
      BY <1>5, <2>3
    <3> QED BY <1>2, <2>3, <3>1
  <2> QED BY <2>1, <2>2, <2>3
<1> QED
    BY <1>1, <1>3, <1>5, <1>6 DEF row

LEMMA GetStepType ==
    ASSUME TypeOK, NEW t \in Turns,
           (\E m \in Models : GetRead(t, m)) \/ GetInstall(t)
    PROVE  get' \in [Turns -> Get]
<1>1. GetDone \in Get
    BY DEF GetDone, NoGet, Get
<1>2. ASSUME NEW m \in Models, GetRead(t, m), m \in Existing
      PROVE  [pc |-> "install", model |-> m, rev |-> rows[m].rev] \in Get
    BY <1>2 DEF TypeOK, Row, Get
<1>3. ASSUME NEW g \in Get, get' = [get EXCEPT ![t] = g]
      PROVE  get' \in [Turns -> Get]
    BY <1>3 DEF TypeOK
<1>4. ASSUME NEW m \in Models, GetRead(t, m)
      PROVE  get' \in [Turns -> Get]
    BY <1>1, <1>2, <1>3, <1>4 DEF GetRead
<1> QED
    BY <1>1, <1>3, <1>4 DEF GetInstall

LEMMA DataStep ==
    ASSUME TypeOK, PhaseInv, Next
    PROVE  DataOK'
<1> USE ModelsAssumption DEF Existing
<1>1. ASSUME NEW r \in Requests, RequestBegins(r)
      PROVE  DataOK'
    BY <1>1, BeginsData DEF TypeOK, DataOK
<1>2. ASSUME NEW r \in Requests, Insert(r)
      PROVE  DataOK'
    BY <1>2 DEF TypeOK, DataOK, PhaseInv, Phase, Insert, Row, Request, Kinds
<1>3. ASSUME NEW r \in Requests,
             \/ Read(r) \/ SetDefaultSnapshot(r) \/ SetDefaultClear(r)
             \/ BackfillList(r) \/ DeleteCheck(r)
      PROVE  DataOK'
    BY <1>3 DEF TypeOK, DataOK, Read, SetDefaultSnapshot, SetDefaultClear,
        BackfillList, DeleteCheck
<1>4. ASSUME NEW r \in Requests, Write(r)
      PROVE  DataOK'
    BY <1>4 DEF TypeOK, DataOK, PhaseInv, Phase, Write, WithoutZeroFields, WrittenKind,
        NeverInvalidated, Row, Request, Kinds
<1>5. ASSUME NEW r \in Requests, SetDefaultPromote(r)
      PROVE  DataOK'
  <2>1. UNCHANGED <<deleted, agentModel, clients, get, ops>> /\ unexplained' \subseteq Models
    BY <1>5 DEF TypeOK, PhaseInv, Phase, SetDefaultPromote, NeverInvalidated
  <2>2. Existing' = Existing /\ \A n \in Existing : rows'[n] \in Row
    BY <1>5, PromoteRows DEF TypeOK
  <2> QED BY <2>1, <2>2 DEF TypeOK, DataOK
<1>6. ASSUME NEW r \in Requests, NEW a \in Agents, BackfillAgent(r, a)
      PROVE  DataOK'
    BY <1>6 DEF TypeOK, DataOK, BackfillAgent
<1>7. ASSUME NEW r \in Requests, DeleteRow(r)
      PROVE  DataOK'
    BY <1>7 DEF TypeOK, DataOK, PhaseInv, Phase, DeleteRow, NeverInvalidated
<1>8. ASSUME NEW r \in Requests, Invalidate(r) \/ Rebind(r)
      PROVE  DataOK'
    BY <1>8 DEF TypeOK, DataOK, PhaseInv, Phase, Invalidate, Rebind
<1>9. ASSUME NEW t \in Turns, (\E m \in Models : GetRead(t, m)) \/ GetInstall(t)
      PROVE  DataOK'
  <2>1. get' \in [Turns -> Get]
    BY <1>9, GetStepType
  <2>2. get[t] \in Get /\ (get[t].pc = "install" => get[t].model \in Models)
    BY DEF TypeOK, PhaseInv, Phase
  <2> QED BY <1>9, <2>1, <2>2 DEF TypeOK, DataOK, GetRead, GetInstall, Get
<1> QED
    BY <1>1, <1>2, <1>3, <1>4, <1>5, <1>6, <1>7, <1>8, <1>9 DEF Next, RequestStep

LEMMA TypeStep ==
    ASSUME TypeOK, PhaseInv, Next
    PROVE  TypeOK'
<1>1. DataOK'
    BY DataStep
<1>2. ASSUME NEW r \in Requests, RequestBegins(r) \/ RequestStep(r)
      PROVE  TypeOK'
  <2>1. req' \in [Requests -> Request]
    BY <1>2, BeginsType, StepType
  <2>2. \A q \in Requests : req'[q].locks \subseteq Existing'
    BY <1>2, LocksStep
  <2> QED BY <1>1, <2>1, <2>2 DEF DataOK, TypeOK
<1>3. ASSUME NEW t \in Turns, (\E m \in Models : GetRead(t, m)) \/ GetInstall(t)
      PROVE  TypeOK'
  <2>1. UNCHANGED <<req, rows>>
    BY <1>3 DEF GetRead, GetInstall
  <2> QED BY <1>1, <2>1 DEF DataOK, TypeOK, Existing
<1> QED
    BY <1>2, <1>3 DEF Next

-----------------------------------------------------------------------------
(* What a request can be doing.                                             *)

LEMMA PhaseStep ==
    ASSUME TypeOK, PhaseInv, Next
    PROVE  PhaseInv'
<1> USE DEF TypeOK, PhaseInv
<1>1. ASSUME NEW r \in Requests, RequestBegins(r) \/ RequestStep(r), Phase(r)', UNCHANGED get,
             deleted \subseteq deleted'
      PROVE  PhaseInv'
  <2>1. ASSUME NEW q \in Requests \ {r}
        PROVE  Phase(q)'
    BY <1>1, OthersKept DEF Phase
  <2> QED BY <1>1, <2>1
<1>2. ASSUME NEW r \in Requests, RequestBegins(r)
      PROVE  PhaseInv'
  <2> DEFINE P == Phase(r)'
  <2>1. ASSUME NEW m \in Models, NEW kind \in Kinds, NEW promote \in BOOLEAN,
               CreateModel(r, m, kind, promote)
        PROVE  P
    BY <2>1 DEF CreateModel, NoReq, Phase
  <2>2. ASSUME NEW m \in Models, NEW promote \in BOOLEAN,
               \/ AdminCreateModel(r, m, promote) \/ PatchModel(r, m, promote)
               \/ AdminUpdateModel(r, m, promote)
        PROVE  P
    <3>1. CASE AdminCreateModel(r, m, promote)
      BY <3>1 DEF AdminCreateModel, NoReq, Phase
    <3>2. CASE PatchModel(r, m, promote)
      <4>1. CASE Begin(r, "patch", m, "chat", promote, {}, "read")
        BY <4>1 DEF Begin, NoReq, Phase
      <4>2. ASSUME NEW kind \in Kinds, UpdateModel(r, m, kind, promote)
            PROVE  P
        BY <4>2 DEF UpdateModel, Begin, NoReq, Phase
      <4> HIDE DEF P
      <4> QED BY <3>2, <4>1, <4>2 DEF PatchModel
    <3>3. CASE AdminUpdateModel(r, m, promote)
      BY <3>3 DEF AdminUpdateModel, Begin, NoReq, Phase
    <3> QED BY <2>2, <3>1, <3>2, <3>3
  <2>3. ASSUME NEW m \in Models, NEW kind \in Kinds, NEW promote \in BOOLEAN,
               UpdateModel(r, m, kind, promote)
        PROVE  P
    BY <2>3 DEF UpdateModel, Begin, NoReq, Phase
  <2>4. ASSUME NEW m \in Models,
               DeleteModel(r, m) \/ AdminSetDefaultModel(r, m) \/ AdminDeleteModel(r, m)
        PROVE  P
    <3>1. CASE DeleteModel(r, m)
      BY <3>1 DEF DeleteModel, Begin, NoReq, Phase
    <3>2. CASE AdminSetDefaultModel(r, m)
      BY <3>2 DEF AdminSetDefaultModel, Begin, NoReq, Phase
    <3>3. CASE AdminDeleteModel(r, m)
      BY <3>3 DEF AdminDeleteModel, Begin, NoReq, Phase
    <3> QED BY <2>4, <3>1, <3>2, <3>3
  <2>5. ASSUME NEW a \in Agents, NEW m \in Models, BindAgent(r, a, m)
        PROVE  P
    <3>1. ASSUME NEW n, Begin(r, "bind", n, "chat", FALSE, {a}, "rebind")
          PROVE  P
      BY <3>1 DEF Begin, NoReq, Phase
    <3> HIDE DEF P
    <3> QED BY <2>5, <3>1 DEF BindAgent
  <2>6. ASSUME NEW a \in Agents, InheritDefault(r, a) \/ TouchAgent(r, a)
        PROVE  P
    <3>1. ASSUME NEW m, Begin(r, "inherit", m, "chat", FALSE, {a}, "rebind")
          PROVE  P
      BY <3>1 DEF Begin, NoReq, Phase
    <3>2. CASE TouchAgent(r, a)
      BY <3>2 DEF TouchAgent, Begin, NoReq, Phase
    <3> HIDE DEF P
    <3> QED BY <2>6, <3>1, <3>2 DEF InheritDefault
  <2> HIDE DEF P
  <2>7. P
    BY <1>2, <2>1, <2>2, <2>3, <2>4, <2>5, <2>6 DEF RequestBegins
  <2> QED BY <1>1, <1>2, <2>7, BeginsData DEF P
<1>3. ASSUME NEW r \in Requests, RequestStep(r)
      PROVE  PhaseInv'
  <2> DEFINE P == Phase(r)'
  <2>0. req[r] \in Request /\ Phase(r)
    OBVIOUS
  <2>1. Return(r) => P
    BY ReturnResets DEF Phase
  <2>2. ASSUME Goto(r, "snapshot"), req[r].locks = {}, req[r].model \in Models,
               req[r].op \in {"create", "update", "patch", "toolUpdate", "toolDefault"}
        PROVE  P
    BY <2>2, GotoKeeps DEF Phase, PCs
  <2>3. ASSUME Goto(r, "list"), req[r].locks = {}, req[r].model \in Models,
               req[r].op \in {"create", "update", "patch"}
        PROVE  P
    BY <2>3, GotoKeeps DEF Phase, PCs
  <2>4. ASSUME Goto(r, "invalidate"), req[r].locks = {}, req[r].model \in Models,
               req[r].op = "delete" => req[r].model \in deleted'
        PROVE  P
    BY <2>4, GotoKeeps DEF Phase, PCs
  <2>5. ASSUME Goto(r, "delete"), req[r].locks = {}, req[r].model \in Models,
               req[r].op \in {"delete", "toolDelete"}
        PROVE  P
    BY <2>5, GotoKeeps DEF Phase, PCs
  <2>6. ASSUME AfterBackfill(r), req[r].locks = {}, req[r].model \in Models,
               req[r].op \in {"create", "update", "patch"}
        PROVE  P
    BY <2>1, <2>4, <2>6 DEF AfterBackfill
  <2> HIDE DEF P
  <2>7. CASE Insert(r)
    BY <2>0, <2>1, <2>2, <2>3, <2>7, <1>1, <1>3 DEF Insert, Phase, P
  <2>8. CASE Read(r)
    BY <2>0, <2>1, <2>8, <1>1, <1>3 DEF Read, Phase, P, Request
  <2>9. CASE Write(r)
    BY <2>0, <2>1, <2>2, <2>4, <2>9, <1>1, <1>3 DEF Write, Phase, P
  <2>10. CASE SetDefaultSnapshot(r)
    BY <2>0, <2>10, <1>1, <1>3 DEF SetDefaultSnapshot, Phase, Request
  <2>11. CASE SetDefaultClear(r)
    BY <2>0, <2>11, <1>1, <1>3 DEF SetDefaultClear, Phase, Request
  <2>12. CASE SetDefaultPromote(r)
    BY <2>0, <2>1, <2>12, <1>1, <1>3 DEF SetDefaultPromote, Return, Phase, P, Request, ToolWrites
  <2>13. CASE BackfillList(r)
    BY <2>0, <2>6, <2>13, <1>1, <1>3 DEF BackfillList, Phase, P, Request
  <2>14. ASSUME NEW a \in Agents, BackfillAgent(r, a)
         PROVE  PhaseInv'
    BY <2>0, <2>6, <2>14, <1>1, <1>3 DEF BackfillAgent, Phase, P, Request
  <2>15. CASE DeleteCheck(r)
    BY <2>0, <2>1, <2>5, <2>15, <1>1, <1>3 DEF DeleteCheck, Phase, P
  <2>16. CASE DeleteRow(r)
    BY <2>0, <2>1, <2>4, <2>16, <1>1, <1>3 DEF DeleteRow, Phase, P
  <2>17. CASE Invalidate(r) \/ Rebind(r)
    BY <2>1, <2>17, <1>1, <1>3 DEF Invalidate, Rebind, P
  <2> QED BY <1>3, <2>7, <2>8, <2>9, <2>10, <2>11, <2>12, <2>13, <2>14, <2>15,
             <2>16, <2>17 DEF RequestStep
<1>4. ASSUME NEW t \in Turns, (\E m \in Models : GetRead(t, m)) \/ GetInstall(t)
      PROVE  PhaseInv'
    BY <1>4 DEF GetRead, GetInstall, GetDone, NoGet, Phase
<1> QED
    BY <1>2, <1>3, <1>4 DEF Next

-----------------------------------------------------------------------------
(* One default at most.                                                     *)

\* A row that passes the check of the index leaves no other default behind.
LEMMA NoOtherDefault ==
    ASSUME NEW r \in Requests, NEW m, NEW row,
           row.isDefault, row.kind = "chat", ~UniqueViolation(r, m, row)
    PROVE  DefaultChat \subseteq req[r].locks \cup {m}
BY DEF UniqueViolation

\* A step that writes one row, which the index accepted, keeps the default unique.
LEMMA OneRowWritten ==
    ASSUME UniqueInv, NEW r \in Requests, NEW m, NEW row, req[r].locks = {},
           ~UniqueViolation(r, m, row), Existing' \subseteq Existing \cup {m},
           rows'[m] = row, \A n \in Existing \ {m} : rows'[n] = rows[n]
    PROVE  UniqueInv'
<1>1. \A n \in DefaultChat' : n = m \/ n \in DefaultChat
    BY DEF DefaultChat, Existing
<1>2. m \in DefaultChat' => DefaultChat \subseteq {m}
    BY NoOtherDefault DEF DefaultChat, Existing
<1> QED
    BY <1>1, <1>2 DEF UniqueInv

LEMMA UniqueStep ==
    ASSUME TypeOK, PhaseInv, UniqueInv, Next
    PROVE  UniqueInv'
<1>1. (UNCHANGED rows) => UniqueInv'
    BY DEF UniqueInv, DefaultChat, Existing
<1>2. ASSUME NEW r \in Requests, Insert(r)
      PROVE  UniqueInv'
  <2> DEFINE m == req[r].model
             row == [kind |-> req[r].kind, isDefault |-> req[r].wasDefault, rev |-> 0]
  <2>1. req[r].locks = {}
    BY <1>2 DEF Insert, PhaseInv, Phase
  <2>2. \/ UNCHANGED rows
        \/ /\ ~UniqueViolation(r, m, row)
           /\ rows' = [n \in Existing \cup {m} |-> IF n = m THEN row ELSE rows[n]]
    BY <1>2 DEF Insert
  <2> HIDE DEF m, row
  <2> QED BY <1>1, <2>1, <2>2, OneRowWritten DEF Existing
<1>3. ASSUME NEW r \in Requests, Write(r)
      PROVE  UniqueInv'
  <2> DEFINE m == req[r].model
             row == WithoutZeroFields(rows[m], WrittenKind(r), req[r].wasDefault)
  <2>1. req[r].locks = {}
    BY <1>3 DEF Write, PhaseInv, Phase
  <2>2. \/ UNCHANGED rows
        \/ m \in Existing /\ ~UniqueViolation(r, m, row) /\ rows' = [rows EXCEPT ![m] = row]
    BY <1>3 DEF Write
  <2> HIDE DEF m, row
  <2> QED BY <1>1, <2>1, <2>2, OneRowWritten DEF Existing
<1>4. ASSUME NEW r \in Requests, SetDefaultPromote(r)
      PROVE  UniqueInv'
  <2> SUFFICES ASSUME rows' # rows
               PROVE  UniqueInv'
    BY <1>1
  <2> DEFINE m == req[r].model
             row == [rows[m] EXCEPT !.isDefault = TRUE]
  <2>1. /\ m \in Existing /\ Existing' = Existing /\ ~UniqueViolation(r, m, row)
        /\ \A n \in Existing :
             /\ rows'[n].kind = rows[n].kind
             /\ n # m => (rows'[n].isDefault <=> rows[n].isDefault /\ n \notin req[r].locks)
    BY <1>4, PromoteRows
  <2>2. row.isDefault /\ row.kind = rows[m].kind
    BY <2>1, RowDefaultType DEF TypeOK
  <2> HIDE DEF m, row
  <2>3. \A n \in DefaultChat' : n = m \/ (n \in DefaultChat /\ n \notin req[r].locks)
    BY <2>1 DEF DefaultChat, Existing
  <2>4. CASE rows[m].kind = "chat"
    BY <2>2, <2>3, <2>1, <2>4, NoOtherDefault DEF UniqueInv
  <2>5. CASE rows[m].kind # "chat"
    BY <2>1, <2>3, <2>5 DEF UniqueInv, DefaultChat
  <2> QED BY <2>4, <2>5
<1>5. ASSUME NEW r \in Requests, DeleteRow(r)
      PROVE  UniqueInv'
    BY <1>1, <1>5 DEF DeleteRow, UniqueInv, DefaultChat, Existing
<1>6. ASSUME NEW r \in Requests, RequestBegins(r)
      PROVE  UniqueInv'
    BY <1>1, <1>6, BeginsData
<1>7. ASSUME NEW r \in Requests,
             \/ Read(r) \/ SetDefaultSnapshot(r) \/ SetDefaultClear(r) \/ BackfillList(r)
             \/ (\E a \in Agents : BackfillAgent(r, a))
             \/ DeleteCheck(r) \/ Invalidate(r) \/ Rebind(r)
      PROVE  UniqueInv'
    BY <1>1, <1>7 DEF Read, SetDefaultSnapshot, SetDefaultClear, BackfillList, BackfillAgent,
        DeleteCheck, Invalidate, Rebind
<1>8. ASSUME NEW t \in Turns, (\E m \in Models : GetRead(t, m)) \/ GetInstall(t)
      PROVE  UniqueInv'
    BY <1>1, <1>8 DEF GetRead, GetInstall
<1> QED
    BY <1>2, <1>3, <1>4, <1>5, <1>6, <1>7, <1>8 DEF Next, RequestStep

-----------------------------------------------------------------------------
(* Cached clients that are out of date.                                     *)

\* What explains a client goes on doing so when a step of r keeps the row
\* and what r itself was about to do.
LEMMA ExplainedKept ==
    ASSUME NEW r \in Requests, NEW m, NEW v, Explained(m, v),
           \A q \in Requests \ {r} : req'[q] = req[q],
           m \in unexplained => m \in unexplained',
           m \in Existing <=> m \in Existing',
           m \in Existing => rows'[m].rev = rows[m].rev,
           m \in Existing /\ WillInvalidate(r, m) => WillInvalidate(r, m)' \/ m \in unexplained',
           Deleted(r, m) => Deleted(r, m)'
    PROVE  Explained(m, v)'
<1>1. \A q \in Requests \ {r} :
         /\ WillInvalidate(q, m) => WillInvalidate(q, m)'
         /\ Deleted(q, m) => Deleted(q, m)'
    BY DEF WillInvalidate, Deleted
<1>2. CASE m \in unexplained
    BY <1>2 DEF Explained
<1>3. CASE m \in Existing /\ v = rows[m].rev
    BY <1>3 DEF Explained
<1>4. CASE m \in Existing /\ \E q \in Requests : WillInvalidate(q, m)
    BY <1>1, <1>4 DEF Explained
<1>5. CASE m \notin Existing /\ \E q \in Requests : Deleted(q, m)
    BY <1>1, <1>5 DEF Explained
<1> QED
    BY <1>2, <1>3, <1>4, <1>5 DEF Explained

\* Steps that touch neither the cache nor a Get.
LEMMA StaleKept ==
    ASSUME StaleInv, UNCHANGED <<clients, get>>,
           \A m, v : Explained(m, v) => Explained(m, v)'
    PROVE  StaleInv'
<1>1. ASSUME NEW n \in DOMAIN clients
      PROVE  Explained(n, clients[n])'
  <2>1. PICK v : v = clients[n]
    OBVIOUS
  <2>2. Explained(n, v)'
    BY <2>1 DEF StaleInv
  <2> QED BY <2>1, <2>2 DEF Explained, WillInvalidate, Deleted
<1>2. ASSUME NEW t \in Turns, get[t].pc = "install"
      PROVE  Explained(get[t].model, get[t].rev)'
  <2>1. PICK n, v : n = get[t].model /\ v = get[t].rev
    OBVIOUS
  <2>2. Explained(n, v)'
    BY <1>2, <2>1 DEF StaleInv
  <2> QED BY <2>1, <2>2 DEF Explained, WillInvalidate, Deleted
<1> QED
    BY <1>1, <1>2 DEF StaleInv

LEMMA StaleStep ==
    ASSUME TypeOK, PhaseInv, StaleInv, Next
    PROVE  StaleInv'
<1> DEFINE Will(r) == \A m \in Existing :
                        WillInvalidate(r, m) => WillInvalidate(r, m)' \/ m \in unexplained'
           Del(r) == \A m : Deleted(r, m) => Deleted(r, m)'
           SameRows == Existing' = Existing /\ \A m \in Existing : rows'[m].rev = rows[m].rev
<1>1. ASSUME NEW r \in Requests, RequestBegins(r) \/ RequestStep(r),
             UNCHANGED <<clients, get>>, unexplained \subseteq unexplained', SameRows,
             Will(r), Del(r)
      PROVE  StaleInv'
  <2>1. ASSUME NEW m, NEW v, Explained(m, v)
        PROVE  Explained(m, v)'
    BY <1>1, <2>1, OthersKept, ExplainedKept
  <2> QED BY <1>1, <2>1, StaleKept
<1>2. (UNCHANGED rows) => SameRows
    BY DEF Existing
<1>3. ASSUME NEW r \in Requests, req[r].pc \notin {"snapshot", "clear", "promote", "list",
                                                   "backfill", "invalidate"}
      PROVE  Will(r) /\ Del(r)
    BY <1>3 DEF WillInvalidate, Deleted
<1>4. ASSUME NEW r \in Requests, RequestBegins(r)
      PROVE  StaleInv'
  <2>1. req[r].pc = "idle"
    BY <1>4 DEF RequestBegins, CreateModel, UpdateModel, PatchModel, DeleteModel,
        AdminCreateModel, AdminUpdateModel, AdminSetDefaultModel, AdminDeleteModel,
        BindAgent, InheritDefault, TouchAgent, Begin
  <2> HIDE DEF Will, Del, SameRows
  <2> QED BY <1>1, <1>2, <1>3, <1>4, <2>1, BeginsData
<1>5. ASSUME NEW r \in Requests, NEW pc \in PCs, Goto(r, pc),
             pc \in {"snapshot", "clear", "promote", "list", "backfill", "invalidate"},
             req[r].pc # "invalidate"
      PROVE  Will(r) /\ Del(r)
    BY <1>5, GotoKeeps DEF WillInvalidate, Deleted
<1>6. ASSUME NEW r \in Requests, AfterBackfill(r), req[r].pc \in {"list", "backfill"}
      PROVE  Will(r) /\ Del(r)
  <2>1. CASE req[r].op = "create"
    BY <1>6, <2>1 DEF WillInvalidate, Deleted
  <2>2. CASE req[r].op # "create"
    BY <1>5, <1>6, <2>2 DEF AfterBackfill, PCs
  <2> QED BY <2>1, <2>2
<1>7. ASSUME NEW r \in Requests, Insert(r)
      PROVE  StaleInv'
  <2> DEFINE m == req[r].model
  <2>1. /\ UNCHANGED <<clients, get, unexplained>> /\ req[r].pc = "insert"
        /\ \/ UNCHANGED rows
           \/ m \notin Existing \cup deleted /\ Existing' = Existing \cup {m}
              /\ \A n \in Existing : rows'[n] = rows[n]
    BY <1>7 DEF Insert, Existing
  <2>2. CASE UNCHANGED rows
    <3> HIDE DEF Will, Del, SameRows
    <3> QED BY <1>1, <1>2, <1>3, <1>7, <2>1, <2>2 DEF RequestStep
  <2>3. CASE /\ m \notin Existing \cup deleted /\ Existing' = Existing \cup {m}
             /\ \A n \in Existing : rows'[n] = rows[n]
    <3>1. ASSUME NEW n, NEW v, Explained(n, v)
          PROVE  Explained(n, v)'
      <4>1. CASE n = m
        <5>1. \A q \in Requests : ~Deleted(q, n)
          BY <2>3, <4>1 DEF PhaseInv, Phase, Deleted
        <5>2. n \in unexplained
          BY <2>3, <3>1, <4>1, <5>1 DEF Explained
        <5> QED BY <2>1, <5>2 DEF Explained
      <4>2. CASE n # m
        BY <1>3, <1>7, <2>1, <2>3, <3>1, <4>2, OthersKept, ExplainedKept DEF RequestStep
      <4> QED BY <4>1, <4>2
    <3> QED BY <2>1, <3>1, StaleKept
  <2> QED BY <2>1, <2>2, <2>3
<1>8. ASSUME NEW r \in Requests, Read(r) \/ DeleteCheck(r) \/ Rebind(r)
      PROVE  StaleInv'
  <2>1. /\ UNCHANGED <<rows, clients, get, unexplained>>
        /\ req[r].pc \in {"read", "check", "rebind"}
    BY <1>8 DEF Read, DeleteCheck, Rebind
  <2> HIDE DEF Will, Del, SameRows
  <2> QED BY <1>1, <1>2, <1>3, <1>8, <2>1 DEF RequestStep
<1>9. ASSUME NEW r \in Requests, Write(r)
      PROVE  StaleInv'
  <2> DEFINE m == req[r].model
  <2>1. /\ UNCHANGED <<clients, get>> /\ req[r].pc = "write"
        /\ unexplained \subseteq unexplained'
        /\ \/ UNCHANGED rows
           \/ /\ m \in Existing /\ Existing' = Existing
              /\ \A n \in Existing \ {m} : rows'[n] = rows[n]
              /\ \/ m \in unexplained'
                 \/ req[r].op # "toolUpdate" /\ (Goto(r, "snapshot") \/ Goto(r, "invalidate"))
    BY <1>9 DEF Write, NeverInvalidated, Existing
  <2>2. CASE UNCHANGED rows
    <3> HIDE DEF Will, Del, SameRows
    <3> QED BY <1>1, <1>2, <1>3, <1>9, <2>1, <2>2 DEF RequestStep
  <2>3. CASE /\ m \in Existing /\ Existing' = Existing
             /\ \A n \in Existing \ {m} : rows'[n] = rows[n]
             /\ \/ m \in unexplained'
                \/ req[r].op # "toolUpdate" /\ (Goto(r, "snapshot") \/ Goto(r, "invalidate"))
    <3>1. ASSUME NEW n, NEW v, Explained(n, v)
          PROVE  Explained(n, v)'
      <4>1. CASE n = m
        <5>1. n \in unexplained' \/ WillInvalidate(r, n)'
          <6>1. req[r].op \in {"update", "patch", "toolUpdate"}
            BY <2>1 DEF PhaseInv, Phase
          <6> QED BY <2>3, <4>1, <6>1, GotoKeeps DEF WillInvalidate, PCs
        <5> QED BY <2>3, <4>1, <5>1 DEF Explained
      <4>2. CASE n # m
        BY <1>3, <1>9, <2>1, <2>3, <3>1, <4>2, OthersKept, ExplainedKept DEF RequestStep
      <4> QED BY <4>1, <4>2
    <3> QED BY <2>1, <3>1, StaleKept
  <2> QED BY <2>1, <2>2, <2>3
<1>10. ASSUME NEW r \in Requests, SetDefaultSnapshot(r) \/ SetDefaultClear(r)
       PROVE  StaleInv'
  <2>1. UNCHANGED <<rows, clients, get, unexplained>>
    BY <1>10 DEF SetDefaultSnapshot, SetDefaultClear
  <2>2. Will(r) /\ Del(r)
    <3>1. req[r].pc # "invalidate" /\ req[r] \in Request
      BY <1>10 DEF SetDefaultSnapshot, SetDefaultClear, TypeOK
    <3>2. req'[r].model = req[r].model /\ req'[r].op = req[r].op
          /\ req'[r].pc \in {"clear", "promote"}
      BY <1>10, <3>1 DEF SetDefaultSnapshot, SetDefaultClear, TypeOK, Request
    <3> QED BY <3>1, <3>2 DEF WillInvalidate, Deleted
  <2> HIDE DEF Will, Del, SameRows
  <2> QED BY <1>1, <1>2, <1>10, <2>1, <2>2 DEF RequestStep
<1>11. ASSUME NEW r \in Requests, SetDefaultPromote(r)
       PROVE  StaleInv'
  <2>1. UNCHANGED <<clients, get>> /\ unexplained \subseteq unexplained' /\ req[r].pc = "promote"
    BY <1>11 DEF SetDefaultPromote, NeverInvalidated
  <2>2. SameRows
    BY <1>2, <1>11, PromoteRows
  <2>3. Will(r) /\ Del(r)
    <3> DEFINE m == req[r].model
               d == [req[r] EXCEPT !.pc = "list", !.locks = {}]
    <3>1. \/ m \notin Existing \/ m \in unexplained'
          \/ req[r].op \in ToolWrites \/ req'[r] = d
      BY <1>11 DEF SetDefaultPromote, NeverInvalidated, TypeOK
    <3>2. d.pc = "list" /\ d.op = req[r].op /\ d.model = req[r].model
      BY DEF TypeOK, Request
    <3> HIDE DEF d
    <3> QED BY <2>1, <3>1, <3>2 DEF WillInvalidate, Deleted, ToolWrites
  <2> HIDE DEF Will, Del, SameRows
  <2> QED BY <1>1, <1>11, <2>1, <2>2, <2>3 DEF RequestStep
<1>12. ASSUME NEW r \in Requests,
              BackfillList(r) \/ \E a \in Agents : BackfillAgent(r, a)
       PROVE  StaleInv'
  <2>1. UNCHANGED <<rows, clients, get, unexplained>> /\ req[r].pc \in {"list", "backfill"}
    BY <1>12 DEF BackfillList, BackfillAgent
  <2>2. Will(r) /\ Del(r)
    <3>1. \/ AfterBackfill(r)
          \/ /\ req'[r].model = req[r].model /\ req'[r].op = req[r].op
             /\ req'[r].pc = "backfill"
      BY <1>12 DEF BackfillList, BackfillAgent, TypeOK, Request
    <3> QED BY <1>6, <2>1, <3>1 DEF WillInvalidate, Deleted
  <2> HIDE DEF Will, Del, SameRows
  <2> QED BY <1>1, <1>2, <1>12, <2>1, <2>2 DEF RequestStep
<1>13. ASSUME NEW r \in Requests, DeleteRow(r)
       PROVE  StaleInv'
  <2> DEFINE m == req[r].model
  <2>1. /\ UNCHANGED <<clients, get>> /\ req[r].pc = "delete"
        /\ unexplained \subseteq unexplained'
        /\ \/ UNCHANGED rows
           \/ /\ m \in Existing /\ Existing' = Existing \ {m}
              /\ \A n \in Existing \ {m} : rows'[n] = rows[n]
              /\ \/ m \in unexplained'
                 \/ req[r].op # "toolDelete" /\ Goto(r, "invalidate")
    BY <1>13 DEF DeleteRow, NeverInvalidated, Existing
  <2>2. CASE UNCHANGED rows
    <3> HIDE DEF Will, Del, SameRows
    <3> QED BY <1>1, <1>2, <1>3, <1>13, <2>1, <2>2 DEF RequestStep
  <2>3. CASE /\ m \in Existing /\ Existing' = Existing \ {m}
             /\ \A n \in Existing \ {m} : rows'[n] = rows[n]
             /\ \/ m \in unexplained'
                \/ req[r].op # "toolDelete" /\ Goto(r, "invalidate")
    <3>1. ASSUME NEW n, NEW v, Explained(n, v)
          PROVE  Explained(n, v)'
      <4>1. CASE n = m
        <5>1. n \in unexplained' \/ Deleted(r, n)'
          <6>1. req[r].op \in {"delete", "toolDelete"}
            BY <2>1 DEF PhaseInv, Phase
          <6> QED BY <2>3, <4>1, <6>1, GotoKeeps DEF Deleted, PCs
        <5> QED BY <2>3, <4>1, <5>1 DEF Explained
      <4>2. CASE n # m
        BY <1>3, <1>13, <2>1, <2>3, <3>1, <4>2, OthersKept, ExplainedKept DEF RequestStep
      <4> QED BY <4>1, <4>2
    <3> QED BY <2>1, <3>1, StaleKept
  <2> QED BY <2>1, <2>2, <2>3
<1>14. ASSUME NEW r \in Requests, Invalidate(r)
       PROVE  StaleInv'
  <2> DEFINE m == req[r].model
  <2>1. /\ UNCHANGED <<rows, get>>
        /\ clients' = [n \in DOMAIN clients \ {m} |-> clients[n]]
        /\ \A n : n # m /\ n \in unexplained => n \in unexplained'
        /\ m \in unexplained' \/ \A t \in Turns : get[t].pc = "install" => get[t].model # m
    BY <1>14 DEF Invalidate, Reading
  <2>2. ASSUME NEW n, NEW v, n # m, Explained(n, v)
        PROVE  Explained(n, v)'
    <3>1. ~WillInvalidate(r, n) /\ ~Deleted(r, n)
      BY <2>2 DEF WillInvalidate, Deleted
    <3>2. Existing' = Existing
      BY <2>1 DEF Existing
    <3> QED BY <1>14, <2>1, <2>2, <3>1, <3>2, OthersKept, ExplainedKept DEF RequestStep
  <2>3. \A n \in DOMAIN clients' : n # m /\ n \in DOMAIN clients /\ clients'[n] = clients[n]
    BY <2>1
  <2>4. ASSUME NEW n \in DOMAIN clients'
        PROVE  Explained(n, clients[n])'
    <3>1. PICK v : v = clients[n]
      OBVIOUS
    <3>2. Explained(n, v)'
      BY <2>2, <2>3, <3>1 DEF StaleInv
    <3> QED BY <2>3, <3>1, <3>2 DEF Explained, WillInvalidate, Deleted
  <2>5. ASSUME NEW t \in Turns, get[t].pc = "install"
        PROVE  Explained(get[t].model, get[t].rev)'
    <3>1. CASE get[t].model = m
      BY <2>1, <2>5, <3>1 DEF Explained
    <3>2. CASE get[t].model # m
      <4>1. PICK n, v : n = get[t].model /\ v = get[t].rev
        OBVIOUS
      <4>2. Explained(n, v)
        BY <2>5, <4>1 DEF StaleInv
      <4>3. Explained(n, v)'
        BY <2>2, <3>2, <4>1, <4>2
      <4> QED BY <2>1, <4>1, <4>3 DEF Explained, WillInvalidate, Deleted
    <3> QED BY <3>1, <3>2
  <2> QED BY <2>1, <2>4, <2>5 DEF StaleInv
<1>15. ASSUME NEW t \in Turns, NEW m \in Models, GetRead(t, m)
       PROVE  StaleInv'
  <2>1. UNCHANGED <<rows, clients, req, unexplained>>
    BY <1>15 DEF GetRead
  <2>2. ASSUME NEW u \in Turns, get'[u].pc = "install"
        PROVE  \/ get'[u] = get[u]
               \/ get'[u].model \in Existing /\ get'[u].rev = rows[get'[u].model].rev
    BY <1>15, <2>2 DEF GetRead, TypeOK, GetDone, NoGet
  <2> QED BY <2>1, <2>2 DEF StaleInv, Explained, WillInvalidate, Deleted, Existing
<1>16. ASSUME NEW t \in Turns, GetInstall(t)
       PROVE  StaleInv'
  <2>1. /\ UNCHANGED <<rows, req, unexplained>> /\ get[t].pc = "install"
        /\ \A u \in Turns : get'[u].pc = "install" => get'[u] = get[u]
        /\ \A n \in DOMAIN clients' :
             \/ n = get[t].model /\ clients'[n] = get[t].rev
             \/ n \in DOMAIN clients /\ clients'[n] = clients[n]
    BY <1>16 DEF GetInstall, TypeOK, GetDone, NoGet
  <2> QED BY <2>1 DEF StaleInv, Explained, WillInvalidate, Deleted, Existing
<1> QED
    BY <1>4, <1>7, <1>8, <1>9, <1>10, <1>11, <1>12, <1>13, <1>14, <1>15, <1>16
       DEF Next, RequestStep

-----------------------------------------------------------------------------
(* The theorems.                                                            *)

LEMMA InitIInv ==
    ASSUME Init
    PROVE  IInv
<1> USE ModelsAssumption, MaxOpsAssumption DEF Init
<1>1. rows = [m \in Existing |-> rows[m]] /\ \A m \in Existing : m \in Models /\ rows[m] \in Row
    BY DEF Existing, Row
<1>2. agentModel \in [Agents -> Existing \cup {None}]
    BY DEF Existing
<1>3. req \in [Requests -> Request] /\ \A r \in Requests : req[r] = NoReq
    BY NoReqType
<1>4. get \in [Turns -> Get] /\ \A t \in Turns : get[t].pc = "idle"
    BY DEF Get, NoGet
<1>5. TypeOK
  <2>1. Existing \subseteq Models /\ \A m \in Existing : rows[m] \in Row
    BY <1>1
  <2>2. \A r \in Requests : req[r].locks \subseteq Existing
    BY <1>3 DEF NoReq
  <2>3. DOMAIN clients = {}
    OBVIOUS
  <2>4. deleted = {} /\ ops \in 0..MaxOps /\ unexplained = {}
    OBVIOUS
  <2> QED BY ONLY <1>2, <1>3, <1>4, <2>1, <2>2, <2>3, <2>4 DEF TypeOK
<1>6. PhaseInv
    BY <1>3, <1>4 DEF PhaseInv, Phase, NoReq
<1>7. UniqueInv
    BY DEF UniqueInv, DefaultChat, Existing
<1>8. StaleInv
    BY <1>4 DEF StaleInv
<1> QED
    BY <1>5, <1>6, <1>7, <1>8 DEF IInv

LEMMA NextIInv ==
    ASSUME IInv, [Next]_vars
    PROVE  IInv'
<1>1. CASE Next
    BY <1>1, TypeStep, PhaseStep, UniqueStep, StaleStep DEF IInv
<1>2. CASE UNCHANGED vars
  <2> USE <1>2 DEF IInv, vars
  <2>1. TypeOK'
    BY DEF TypeOK, Existing
  <2>2. PhaseInv'
    BY DEF PhaseInv, Phase
  <2>3. UniqueInv'
    BY DEF UniqueInv, DefaultChat, Existing
  <2>4. StaleInv'
    BY DEF StaleInv, Explained, WillInvalidate, Deleted, Existing
  <2> QED BY <2>1, <2>2, <2>3, <2>4
<1> QED
    BY <1>1, <1>2

\* The invariant holds in every state of the model.
THEOREM SpecIInv == Spec => []IInv
BY InitIInv, NextIInv, PTL DEF Spec

\* The tables, the cache, the requests and the Gets have their types: no
\* agent is bound to a model that is not in the table, no request locks a row
\* that is not there, and a deleted name is not used again.
THEOREM SpecTypeOK == Spec => []TypeOK
<1>1. IInv => TypeOK
    BY DEF IInv
<1> QED
    BY <1>1, SpecIInv, PTL

\* At most one chat model is the default of the tenant, whatever requests
\* and SetDefault transactions overlap.
THEOREM SpecAtMostOneDefault == Spec => []AtMostOneDefault
<1>1. IInv => AtMostOneDefault
  <2> SUFFICES ASSUME UniqueInv PROVE AtMostOneDefault
    BY DEF IInv
  <2>1. CASE DefaultChat = {}
    BY <2>1, FS_EmptySet DEF AtMostOneDefault
  <2>2. CASE DefaultChat # {}
    <3>1. PICK m : DefaultChat = {m}
      BY <2>2 DEF UniqueInv
    <3>2. Cardinality({m}) = 1
      BY FS_Singleton
    <3> QED BY <3>1, <3>2 DEF AtMostOneDefault
  <2> QED BY <2>1, <2>2
<1> QED
    BY <1>1, SpecIInv, PTL

\* A row that stays loses its default flag only in the commit of SetDefault,
\* which gives the flag to another.
THEOREM SpecDefaultHandedOver == Spec => DefaultHandedOver
<1> DEFINE HandedOver ==
        \A m \in Existing \cap DOMAIN rows' :
          rows[m].isDefault /\ ~rows'[m].isDefault =>
              \E n \in DOMAIN rows' \ {m} : rows'[n].isDefault
<1>1. ASSUME IInv, Next
      PROVE  HandedOver
  <2> SUFFICES ASSUME NEW m \in Existing \cap DOMAIN rows',
                      rows[m].isDefault, ~rows'[m].isDefault
               PROVE  \E n \in DOMAIN rows' \ {m} : rows'[n].isDefault
    OBVIOUS
  <2>1. rows' # rows /\ TypeOK
    BY <1>1 DEF IInv
  <2>2. ASSUME NEW r \in Requests, SetDefaultPromote(r)
        PROVE  \E n \in DOMAIN rows' \ {m} : rows'[n].isDefault
    BY <2>1, <2>2, PromoteRows DEF Existing
  <2>3. ASSUME NEW r \in Requests, RequestBegins(r)
        PROVE  FALSE
    BY <2>1, <2>3, BeginsData
  <2>4. ASSUME NEW r \in Requests, Insert(r)
        PROVE  FALSE
    BY <2>1, <2>4 DEF Insert, Existing
  <2>5. ASSUME NEW r \in Requests, Write(r)
        PROVE  FALSE
    BY <2>1, <2>5 DEF Write, WithoutZeroFields, Existing, TypeOK, Row, Request
  <2>6. ASSUME NEW r \in Requests, DeleteRow(r)
        PROVE  FALSE
    BY <2>1, <2>6 DEF DeleteRow, Existing
  <2>7. ASSUME NEW r \in Requests,
               \/ Read(r) \/ SetDefaultSnapshot(r) \/ SetDefaultClear(r) \/ BackfillList(r)
               \/ (\E a \in Agents : BackfillAgent(r, a))
               \/ DeleteCheck(r) \/ Invalidate(r) \/ Rebind(r)
        PROVE  FALSE
    BY <2>1, <2>7 DEF Read, SetDefaultSnapshot, SetDefaultClear, BackfillList, BackfillAgent,
        DeleteCheck, Invalidate, Rebind
  <2>8. ASSUME NEW t \in Turns, (\E n \in Models : GetRead(t, n)) \/ GetInstall(t)
        PROVE  FALSE
    BY <2>1, <2>8 DEF GetRead, GetInstall
  <2> QED
    BY <1>1, <2>2, <2>3, <2>4, <2>5, <2>6, <2>7, <2>8 DEF Next, RequestStep
<1>2. IInv /\ [Next]_vars => [HandedOver]_vars
    BY <1>1
<1> QED
    BY <1>2, SpecIInv, PTL DEF Spec, DefaultHandedOver

\* A cached client that is out of date, and that no HTTP request is about to
\* invalidate, has one of the known causes.
THEOREM SpecStaleClientsExplained == Spec => []StaleClientsExplained
<1>1. IInv => StaleClientsExplained
    BY DEF IInv, StaleInv, Explained, WillInvalidate, Deleted, StaleClientsExplained,
       HttpWrites
<1> QED
    BY <1>1, SpecIInv, PTL
=============================================================================
