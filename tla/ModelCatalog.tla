---------------------------- MODULE ModelCatalog ----------------------------
(***************************************************************************)
(* The LLM models of one tenant: the rows of the models table, the tenant  *)
(* default, the agents bound to a model and the ModelCache of LLM clients. *)
(* They are written by the HTTP model service, by the admin tools of the   *)
(* assistant and, for the bindings, by the HTTP agent manager; they are    *)
(* read by the turns that ask the cache for a client.                      *)
(*                                                                         *)
(* A request is a sequence of database statements.  Each statement is one  *)
(* step; the two statements of SetDefault run in one transaction, under    *)
(* PostgreSQL's READ COMMITTED: a statement works on the rows its snapshot *)
(* selected, waits for those another transaction has locked and checks     *)
(* them again once they are free.  A model stands for its id and its name: *)
(* names are neither changed nor used again after a delete.  The other     *)
(* columns of a row are one revision number.                               *)
(***************************************************************************)
EXTENDS Integers, FiniteSets

CONSTANTS
    Models,     \* names of models
    Agents,     \* the agents of the tenant
    Requests,   \* admin requests that may run at the same time
    Turns,      \* turns; each resolves its model once
    None,       \* no model
    MaxOps      \* bound: admin requests that are ever made

ASSUME ModelsAssumption == None \notin Models
ASSUME MaxOpsAssumption == MaxOps \in Nat

Kinds == {"chat", "embedding"}

VARIABLES
    rows,       \* the models table: existing model -> its row
    deleted,    \* models that have been in the table
    agentModel, \* agents.model_id
    clients,    \* ModelCache.clients: model -> revision of the cached client
    req,        \* req[r]: the request r is running
    get,        \* get[t]: the ModelCache.Get turn t is in
    ops,        \* requests made so far
    unexplained \* history: models whose cached client may be out of date

vars == <<rows, deleted, agentModel, clients, req, get, ops, unexplained>>

Row == [kind : Kinds, isDefault : BOOLEAN, rev : Nat]

\* A request: where it is, what it was asked, what it has read.
NoReq == [pc |-> "idle", op |-> "none", model |-> None, kind |-> "chat",
          promote |-> FALSE, wasDefault |-> FALSE, targets |-> {}, locks |-> {},
          todo |-> {}]
NoGet == [pc |-> "idle", model |-> None, rev |-> 0]
GetDone == [NoGet EXCEPT !.pc = "done"]

HttpWrites == {"create", "update", "patch", "delete"}
ToolWrites == {"toolCreate", "toolUpdate", "toolDefault", "toolDelete"}
AgentWrites == {"bind", "inherit", "touch"}

Existing == DOMAIN rows
DefaultChat == {m \in Existing : rows[m].isDefault /\ rows[m].kind = "chat"}

Request ==
    [pc : {"idle", "read", "insert", "write", "check", "delete", "snapshot",
           "clear", "promote", "list", "backfill", "invalidate", "rebind"},
     op : HttpWrites \cup ToolWrites \cup AgentWrites \cup {"none"},
     model : Models \cup {None}, kind : Kinds, promote : BOOLEAN,
     wasDefault : BOOLEAN, targets : SUBSET Models, locks : SUBSET Models,
     todo : SUBSET Agents]
Get == [pc : {"idle", "install", "done"}, model : Models \cup {None}, rev : Nat]

TypeOK ==
    /\ Existing \subseteq Models /\ \A m \in Existing : rows[m] \in Row
    /\ deleted \subseteq Models \ Existing
    /\ agentModel \in [Agents -> Existing \cup {None}]
    /\ DOMAIN clients \subseteq Models
    /\ \A m \in DOMAIN clients : clients[m] \in Nat
    /\ req \in [Requests -> Request]
    /\ \A r \in Requests : req[r].locks \subseteq Existing
    /\ get \in [Turns -> Get]
    /\ ops \in 0..MaxOps
    /\ unexplained \subseteq Models

\* The tables as an earlier run of the engine may have left them.
Init ==
    /\ \E E \in SUBSET Models :
         /\ rows \in [E -> [kind : Kinds, isDefault : BOOLEAN, rev : {0}]]
         /\ \A m, n \in E : rows[m].isDefault =>
               rows[m].kind = "chat" /\ (rows[n].isDefault => m = n)
         /\ agentModel \in [Agents -> {m \in E : rows[m].kind = "chat"} \cup {None}]
    /\ clients = <<>> /\ deleted = {}
    /\ req = [r \in Requests |-> NoReq]
    /\ get = [t \in Turns |-> NoGet]
    /\ ops = 0
    /\ unexplained = {}

-----------------------------------------------------------------------------
(* The database.                                                            *)

LockedByOther(r, m) == \E q \in Requests \ {r} : m \in req[q].locks

\* Mutant of UniqueViolation: there is no index.
NoIndex(r, m, row) == FALSE

\* idx_models_tenant_default_chat refuses a second default chat model.  What
\* this transaction itself has cleared does not count.
UniqueViolation(r, m, row) ==
    /\ row.isDefault /\ row.kind = "chat"
    /\ DefaultChat \ (req[r].locks \cup {m}) # {}

\* The index check waits for a transaction that is about to clear the row it
\* conflicts with.
IndexWaits(r, m, row) ==
    /\ row.isDefault /\ row.kind = "chat"
    /\ \E n \in DefaultChat \ {m} : LockedByOther(r, n)

\* Mutant of WithoutZeroFields: Save instead of Updates.
AllFields(old, kind, wasDefault) ==
    [kind |-> kind, isDefault |-> wasDefault, rev |-> old.rev + 1]

\* Update with the columns of a struct: GORM's Updates leaves out zero
\* values, so a default flag is set by it and never cleared.
WithoutZeroFields(old, kind, wasDefault) ==
    [kind |-> kind, isDefault |-> old.isDefault \/ wasDefault, rev |-> old.rev + 1]

-----------------------------------------------------------------------------
(* Steps of a request.                                                      *)

Goto(r, pc) == req' = [req EXCEPT ![r].pc = pc, ![r].todo = {}]
Return(r) == req' = [req EXCEPT ![r] = NoReq]

\* A write of a row that nothing will invalidate in the cache.
NeverInvalidated(m) == unexplained' = unexplained \cup {m}

Begin(r, op, m, kind, promote, todo, pc) ==
    /\ req[r].pc = "idle" /\ ops < MaxOps
    /\ ops' = ops + 1
    /\ req' = [req EXCEPT ![r] = [NoReq EXCEPT !.pc = pc, !.op = op, !.model = m,
                 !.kind = kind, !.promote = promote, !.todo = todo]]
    /\ UNCHANGED <<rows, deleted, agentModel, clients, get, unexplained>>

\* POST /models.  The first chat model is promoted without being asked: the
\* default is looked up here and used by the insert.  wasDefault stands for
\* autoPromoted.
CreateModel(r, m, kind, promote) ==
    /\ req[r].pc = "idle" /\ ops < MaxOps
    /\ ops' = ops + 1
    /\ req' = [req EXCEPT ![r] = [NoReq EXCEPT !.pc = "insert", !.op = "create",
                 !.model = m, !.kind = kind,
                 !.promote = promote /\ kind = "chat",
                 !.wasDefault = kind = "chat" /\ ~promote /\ DefaultChat = {}]]
    /\ UNCHANGED <<rows, deleted, agentModel, clients, get, unexplained>>

\* PUT and PATCH /models/{name}; DELETE /models/{name}.  A PATCH that names the
\* kind goes on as a PUT does, any other keeps the kind it reads.
UpdateModel(r, m, kind, promote) == Begin(r, "update", m, kind, promote, {}, "read")
PatchModel(r, m, promote) ==
    \/ Begin(r, "patch", m, "chat", promote, {}, "read")
    \/ \E kind \in Kinds : UpdateModel(r, m, kind, promote)
DeleteModel(r, m) == Begin(r, "delete", m, "chat", FALSE, {}, "check")

\* The admin tools.  admin_create_model inserts the flag it is given.
AdminCreateModel(r, m, promote) ==
    /\ req[r].pc = "idle" /\ ops < MaxOps
    /\ ops' = ops + 1
    /\ req' = [req EXCEPT ![r] = [NoReq EXCEPT !.pc = "insert", !.op = "toolCreate",
                                    !.model = m, !.wasDefault = promote]]
    /\ UNCHANGED <<rows, deleted, agentModel, clients, get, unexplained>>
AdminUpdateModel(r, m, promote) == Begin(r, "toolUpdate", m, "chat", promote, {}, "read")
AdminSetDefaultModel(r, m) == Begin(r, "toolDefault", m, "chat", TRUE, {}, "snapshot")
AdminDeleteModel(r, m) == Begin(r, "toolDelete", m, "chat", FALSE, {}, "delete")

\* The row is inserted, or the name or the index refuses it.
Insert(r) ==
    LET m == req[r].model
        row == [kind |-> req[r].kind, isDefault |-> req[r].wasDefault, rev |-> 0] IN
    /\ req[r].pc = "insert"
    /\ ~IndexWaits(r, m, row)
    /\ \/ /\ m \in Existing \cup deleted \/ UniqueViolation(r, m, row)
          /\ Return(r)
          /\ UNCHANGED rows
       \/ /\ m \notin Existing \cup deleted /\ ~UniqueViolation(r, m, row)
          /\ rows' = [n \in Existing \cup {m} |-> IF n = m THEN row ELSE rows[n]]
          /\ IF req[r].op = "toolCreate" THEN Return(r)
             ELSE IF req[r].promote THEN Goto(r, "snapshot")
             ELSE IF req[r].wasDefault THEN Goto(r, "list")
             ELSE Return(r)
    /\ UNCHANGED <<deleted, agentModel, clients, get, ops, unexplained>>

\* The existing row is read.  PATCH and the tool keep its kind, all keep the
\* default flag they saw.
Read(r) ==
    LET m == req[r].model IN
    /\ req[r].pc = "read"
    /\ \/ m \notin Existing /\ Return(r)
       \/ /\ m \in Existing
          /\ req' = [req EXCEPT ![r].pc = "write",
                       ![r].wasDefault = rows[m].isDefault,
                       ![r].kind = IF req[r].op = "update" THEN @ ELSE rows[m].kind]
    /\ UNCHANGED <<rows, deleted, agentModel, clients, get, ops, unexplained>>

\* The kind an update writes: the tool's record has none, so the column is
\* left out.
WrittenKind(r) ==
    IF req[r].op = "toolUpdate" THEN rows[req[r].model].kind ELSE req[r].kind

\* The row is updated; it may be gone, or the flag that was read may have
\* become another model's.
Write(r) ==
    LET m == req[r].model IN
    /\ req[r].pc = "write"
    /\ ~LockedByOther(r, m)
    /\ \/ /\ m \notin Existing
          /\ Return(r)
          /\ UNCHANGED <<rows, unexplained>>
       \/ /\ m \in Existing
          /\ LET row == WithoutZeroFields(rows[m], WrittenKind(r), req[r].wasDefault) IN
             /\ ~IndexWaits(r, m, row)
             /\ \/ /\ UniqueViolation(r, m, row)
                   /\ Return(r)
                   /\ UNCHANGED <<rows, unexplained>>
                \/ /\ ~UniqueViolation(r, m, row)
                   /\ rows' = [rows EXCEPT ![m] = row]
                   /\ \/ /\ req[r].promote /\ ~req[r].wasDefault
                         /\ Goto(r, "snapshot")
                      \/ /\ ~(req[r].promote /\ ~req[r].wasDefault)
                         /\ IF req[r].op = "toolUpdate" THEN Return(r)
                            ELSE Goto(r, "invalidate")
                   /\ IF req[r].op = "toolUpdate" THEN NeverInvalidated(m)
                      ELSE UNCHANGED unexplained
    /\ UNCHANGED <<deleted, agentModel, clients, get, ops>>

\* SetDefault, first statement: its snapshot selects the current default ...
SetDefaultSnapshot(r) ==
    /\ req[r].pc = "snapshot"
    /\ req' = [req EXCEPT ![r].pc = "clear",
                          ![r].targets = DefaultChat \ {req[r].model}]
    /\ UNCHANGED <<rows, deleted, agentModel, clients, get, ops, unexplained>>

\* ... and clears, once it can lock it, what is still a default.
SetDefaultClear(r) ==
    /\ req[r].pc = "clear"
    /\ \A m \in req[r].targets : ~LockedByOther(r, m)
    /\ req' = [req EXCEPT ![r].pc = "promote", ![r].targets = {},
                          ![r].locks = req[r].targets \cap DefaultChat]
    /\ UNCHANGED <<rows, deleted, agentModel, clients, get, ops, unexplained>>

\* SetDefault, second statement and commit.  The failures roll back and make
\* the request return at once: an update has then changed its row without
\* invalidating the cached client.
SetDefaultPromote(r) ==
    LET m == req[r].model IN
    /\ req[r].pc = "promote"
    /\ ~LockedByOther(r, m)
    /\ \/ /\ m \notin Existing
          /\ Return(r)
          /\ UNCHANGED <<rows, unexplained>>
       \/ /\ m \in Existing
          /\ LET row == [rows[m] EXCEPT !.isDefault = TRUE] IN
             /\ ~IndexWaits(r, m, row)
             /\ \/ /\ UniqueViolation(r, m, row)
                   /\ Return(r)
                   /\ NeverInvalidated(m)
                   /\ UNCHANGED rows
                \/ /\ ~UniqueViolation(r, m, row)
                   /\ rows' = [n \in Existing |->
                        IF n = m THEN row
                        ELSE IF n \in req[r].locks THEN [rows[n] EXCEPT !.isDefault = FALSE]
                        ELSE rows[n]]
                   /\ req' = IF req[r].op \in ToolWrites THEN [req EXCEPT ![r] = NoReq]
                             ELSE [req EXCEPT ![r].pc = "list", ![r].locks = {}]
                   /\ UNCHANGED unexplained
    /\ UNCHANGED <<deleted, agentModel, clients, get, ops>>

\* Mutant of AfterBackfill: the promotion path forgets the cache.
AfterBackfillReturns(r) == Return(r)

\* What follows the promotion: an update invalidates its cached client.
AfterBackfill(r) ==
    IF req[r].op = "create" THEN Return(r) ELSE Goto(r, "invalidate")

\* backfillTenantAgentsToDefault: the agents without a model are listed ...
BackfillList(r) ==
    LET unbound == {a \in Agents : agentModel[a] = None} IN
    /\ req[r].pc = "list"
    /\ IF req[r].model \notin Existing \/ unbound = {} THEN AfterBackfill(r)
       ELSE req' = [req EXCEPT ![r].pc = "backfill", ![r].todo = unbound]
    /\ UNCHANGED <<rows, deleted, agentModel, clients, get, ops, unexplained>>

\* ... and rewritten one by one.  A failed update is ignored.
BackfillAgent(r, a) ==
    /\ req[r].pc = "backfill" /\ a \in req[r].todo
    /\ agentModel' = IF req[r].model \in Existing
                       THEN [agentModel EXCEPT ![a] = req[r].model] ELSE agentModel
    /\ IF req[r].todo = {a} THEN AfterBackfill(r)
       ELSE req' = [req EXCEPT ![r].todo = @ \ {a}]
    /\ UNCHANGED <<rows, deleted, clients, get, ops, unexplained>>

\* DeleteModel refuses while an agent uses the model.
DeleteCheck(r) ==
    /\ req[r].pc = "check"
    /\ \/ /\ \/ req[r].model \notin Existing
             \/ \E a \in Agents : agentModel[a] = req[r].model
          /\ Return(r)
       \/ /\ req[r].model \in Existing
          /\ \A a \in Agents : agentModel[a] # req[r].model
          /\ Goto(r, "delete")
    /\ UNCHANGED <<rows, deleted, agentModel, clients, get, ops, unexplained>>

\* The delete; the foreign key of the agents is ON DELETE SET NULL.
DeleteRow(r) ==
    LET m == req[r].model IN
    /\ req[r].pc = "delete"
    /\ ~LockedByOther(r, m)
    /\ \/ /\ m \notin Existing
          /\ Return(r)
          /\ UNCHANGED <<rows, deleted, agentModel, unexplained>>
       \/ /\ m \in Existing
          /\ rows' = [n \in Existing \ {m} |-> rows[n]]
          /\ deleted' = deleted \cup {m}
          /\ agentModel' = [a \in Agents |-> IF agentModel[a] = m THEN None
                                             ELSE agentModel[a]]
          /\ IF req[r].op = "toolDelete" THEN Return(r) /\ NeverInvalidated(m)
             ELSE Goto(r, "invalidate") /\ UNCHANGED unexplained
    /\ UNCHANGED <<clients, get, ops>>

Reading(m) == {t \in Turns : get[t].pc = "install" /\ get[t].model = m}

\* Invalidate.  A Get that has read the row and not yet installed its client
\* is not stopped by it.
Invalidate(r) ==
    LET m == req[r].model IN
    /\ req[r].pc = "invalidate"
    /\ clients' = [n \in DOMAIN clients \ {m} |-> clients[n]]
    /\ unexplained' = IF Reading(m) = {} THEN unexplained \ {m}
                      ELSE unexplained \cup {m}
    /\ Return(r)
    /\ UNCHANGED <<rows, deleted, agentModel, get, ops>>

-----------------------------------------------------------------------------
(* The HTTP agent manager, as far as the model of an agent goes.  The model  *)
(* is checked or read first, the whole record is written after.              *)

\* A request that names the model: it must not be an embedding model.  PATCH
\* asks that it exists; PUT (resolveAgentModel, toAgentRecord) does not, and
\* for want of its name the record then has no model.
BindAgent(r, a, m) ==
    \/ /\ m \in Existing /\ rows[m].kind = "chat"
       /\ Begin(r, "bind", m, "chat", FALSE, {a}, "rebind")
    \/ /\ m \notin Existing
       /\ Begin(r, "bind", None, "chat", FALSE, {a}, "rebind")

\* PUT without a model: the tenant default.
InheritDefault(r, a) ==
    \E m \in DefaultChat : Begin(r, "inherit", m, "chat", FALSE, {a}, "rebind")

\* PATCH of something else: the model that was read is written back.
TouchAgent(r, a) == Begin(r, "touch", agentModel[a], "chat", FALSE, {a}, "rebind")

\* Mutant of Rebind: the model that was checked is written as it is.
RebindUnresolved(r) ==
    /\ req[r].pc = "rebind"
    /\ agentModel' = [a \in Agents |-> IF a \in req[r].todo THEN req[r].model
                                        ELSE agentModel[a]]
    /\ Return(r)
    /\ UNCHANGED <<rows, deleted, clients, get, ops, unexplained>>

\* Update resolves the name of the model again and fails without it.
Rebind(r) ==
    /\ req[r].pc = "rebind"
    /\ agentModel' = IF req[r].model \in Existing \cup {None}
                       THEN [a \in Agents |-> IF a \in req[r].todo THEN req[r].model
                                              ELSE agentModel[a]]
                       ELSE agentModel
    /\ Return(r)
    /\ UNCHANGED <<rows, deleted, clients, get, ops, unexplained>>

-----------------------------------------------------------------------------
(* A turn resolves its model: ModelCache.Get.                                *)

\* The cache misses and the row is read.  (A client cached in between would
\* be overwritten by the install all the same.)
GetRead(t, m) ==
    /\ get[t].pc = "idle"
    /\ get' = [get EXCEPT ![t] =
                 IF m \in DOMAIN clients \/ m \notin Existing THEN GetDone
                 ELSE [pc |-> "install", model |-> m, rev |-> rows[m].rev]]
    /\ UNCHANGED <<rows, deleted, agentModel, clients, req, ops, unexplained>>

GetInstall(t) ==
    LET m == get[t].model IN
    /\ get[t].pc = "install"
    /\ clients' = [n \in DOMAIN clients \cup {m} |->
                     IF n = m THEN get[t].rev ELSE clients[n]]
    /\ get' = [get EXCEPT ![t] = GetDone]
    /\ UNCHANGED <<rows, deleted, agentModel, req, ops, unexplained>>

-----------------------------------------------------------------------------

RequestStep(r) ==
    \/ Insert(r) \/ Read(r) \/ Write(r)
    \/ SetDefaultSnapshot(r) \/ SetDefaultClear(r) \/ SetDefaultPromote(r)
    \/ BackfillList(r) \/ (\E a \in Agents : BackfillAgent(r, a))
    \/ DeleteCheck(r) \/ DeleteRow(r) \/ Invalidate(r) \/ Rebind(r)

RequestBegins(r) ==
    \/ \E m \in Models, promote \in BOOLEAN :
        \/ \E kind \in Kinds : CreateModel(r, m, kind, promote)
                               \/ UpdateModel(r, m, kind, promote)
        \/ PatchModel(r, m, promote)
        \/ AdminCreateModel(r, m, promote) \/ AdminUpdateModel(r, m, promote)
    \/ \E m \in Models :
        DeleteModel(r, m) \/ AdminSetDefaultModel(r, m) \/ AdminDeleteModel(r, m)
    \/ \E a \in Agents :
        (\E m \in Models : BindAgent(r, a, m)) \/ InheritDefault(r, a) \/ TouchAgent(r, a)

Next ==
    \/ \E r \in Requests : RequestBegins(r) \/ RequestStep(r)
    \/ \E t \in Turns : (\E m \in Models : GetRead(t, m)) \/ GetInstall(t)

Spec == Init /\ [][Next]_vars

-----------------------------------------------------------------------------
(* Properties.                                                              *)

\* At most one chat model is the tenant default, whatever requests race: an
\* insert that promotes itself because it saw no default, two SetDefaults,
\* an update that writes back a flag it read earlier.
AtMostOneDefault == Cardinality(DefaultChat) <= 1

\* "promotion goes through SetDefault to keep the atomic-swap invariant
\* intact": a model that stays in the table loses its default flag only in
\* a step that leaves the flag with another model.
DefaultHandedOver ==
    [][\A m \in Existing \cap DOMAIN rows' :
          rows[m].isDefault /\ ~rows'[m].isDefault =>
              \E n \in DOMAIN rows' \ {m} : rows'[n].isDefault]_vars

\* A cached client that is out of date, with no HTTP request about to
\* invalidate it, has one of the known causes: an admin tool or an update
\* whose promotion failed wrote the row, or a Get overlapped the Invalidate.
StaleClientsExplained ==
    \A m \in DOMAIN clients :
        \/ m \in Existing /\ clients[m] = rows[m].rev
        \/ m \in unexplained
        \/ \E r \in Requests : req[r].model = m /\ req[r].op \in HttpWrites
=============================================================================
