---------------------------- MODULE AgentConfig ----------------------------
(***************************************************************************)
(* The definition of an agent and the registry the runtime reads it from.  *)
(* The definition is a row of agents with its tools and MCP servers and a  *)
(* row of capabilities.  It is written by the HTTP agent and capability    *)
(* services, by the admin tools of the assistant, by a configuration       *)
(* import and by the restoration of the assistant.  Every writer turns to  *)
(* the registry when its statements are done.  In multi-tenant mode it is  *)
(* dropped, and the next lookup loads it under the manager's lock.  In     *)
(* single-tenant mode it is one object, which is loaded again; but a       *)
(* request that carries a tenant id, as any with an API token or the       *)
(* tenant header does, asks to drop that tenant's registry, which is       *)
(* nothing: the HTTP agent service reloads once more in any case, the      *)
(* capability service does not.                                            *)
(*                                                                         *)
(* A request is a sequence of database statements, each one step, and so   *)
(* is a transaction that takes no decision the others can change.  Columns *)
(* are grouped, and a group is 0 (the zero value) or 1.  Committed changes *)
(* are numbered; what a registry was loaded from is the number of the last *)
(* change it includes.  Requests that are refused before they write leave  *)
(* no trace and are not steps.                                             *)
(***************************************************************************)
EXTENDS Integers

CONSTANTS
    Clients,    \* callers that may run requests at the same time
    None,       \* nobody
    MaxOps      \* bound: requests that are ever made

ASSUME NoneAssumption == None \notin Clients
ASSUME MaxOpsAssumption == MaxOps \in Nat

VARIABLES
    perTenant,  \* the mode the server was started in
    agent,      \* the agent's row with its tools and MCP servers
    cap,        \* the row of its capability
    rev,        \* number of the last committed change
    cached,     \* what the registry in use was loaded from, 0 if there is none
    lock,       \* holder of Manager.mu while it loads
    overtaken,  \* history: another reload ended during the one that was installed last
    refreshed,  \* history: the last change whose request has dropped or reloaded it and returned
    op,         \* op[c]: the request client c is running
    ops         \* requests made so far

rows == <<agent, cap, rev>>
registry == <<cached, lock, overtaken, refreshed>>
vars == <<perTenant, rows, registry, op, ops>>

(* prompt: prompt, model, lifecycle, tool_execution and max_steps; policy:  *)
(* confirm_before, the other limits and the sampling parameters.            *)
AgentFields == {"prompt", "tools", "mcp", "policy"}
CapFields == {"config", "enabled"}
Fields == AgentFields \cup CapFields
Bit == 0..1
Values(F) == [F -> Bit]
Uniform(F, v) == [f \in F |-> v]

\* What a request that changes a field writes to it.
Other(row) == [f \in DOMAIN row |-> 1 - row[f]]

(* A request: where it is; the table it writes, the row's id, the fields it *)
(* means to change, the row it will write; whether another request has      *)
(* written the row since it was read; whether it links knowledge bases; the *)
(* reloads it still makes; the number of its last change; what the load it  *)
(* is making has read, and whether another reload was installed meanwhile.  *)
Idle == [pc |-> "idle", table |-> "agent", id |-> 0, named |-> {},
         val |-> Uniform(AgentFields, 0), raced |-> FALSE, kb |-> FALSE,
         reloads |-> 0, at |-> 0, seen |-> 0, late |-> FALSE]

PCs == {"idle", "write", "assoc", "kb", "dropCaps", "delete", "refresh",
        "install", "wait", "load", "fill"}

AgentRow == [live : BOOLEAN, system : BOOLEAN, val : Values(AgentFields)]
CapRow == [live : BOOLEAN, id : Nat, val : Values(CapFields)]
OpShape == [pc : PCs, table : {"agent", "cap"}, id : Nat, named : SUBSET Fields,
            val : Values(AgentFields) \cup Values(CapFields),
            raced : BOOLEAN, kb : BOOLEAN, reloads : 0..2,
            at : Nat, seen : Nat, late : BOOLEAN]
OpRecord == {o \in OpShape :
               /\ o.val \in Values(IF o.table = "agent" THEN AgentFields ELSE CapFields)
               /\ o.pc = "assoc" => o.table = "agent"}

TypeOK ==
    /\ perTenant \in BOOLEAN
    /\ agent \in AgentRow /\ cap \in CapRow
    /\ rev \in Nat \ {0}
    /\ cached \in 0..rev /\ refreshed \in 0..rev
    /\ lock \in Clients \cup {None}
    /\ overtaken \in BOOLEAN
    /\ op \in [Clients -> OpRecord]
    /\ ops \in 0..MaxOps

\* The server has started: the registry of a single tenant is loaded, those
\* of several are not.  The agent may be the built-in assistant.
Init ==
    /\ perTenant \in BOOLEAN
    /\ agent \in {[live |-> TRUE, system |-> TRUE, val |-> Uniform(AgentFields, 1)],
                  [live |-> TRUE, system |-> FALSE, val |-> Uniform(AgentFields, 1)],
                  [live |-> FALSE, system |-> FALSE, val |-> Uniform(AgentFields, 0)]}
    /\ cap = [live |-> FALSE, id |-> 0, val |-> Uniform(CapFields, 0)]
    /\ rev = 1
    /\ cached = IF perTenant THEN 0 ELSE 1
    /\ lock = None /\ overtaken = FALSE /\ refreshed = 0
    /\ op = [c \in Clients |-> Idle]
    /\ ops = 0

-----------------------------------------------------------------------------
(* What the requests share.                                                 *)

CanStart(c) == op[c].pc = "idle" /\ ops < MaxOps

\* Client c begins a request whose first statement only reads.
Begin(c, request) ==
    /\ CanStart(c)
    /\ op' = [op EXCEPT ![c] = request]
    /\ ops' = ops + 1
    /\ UNCHANGED <<perTenant, rows, registry>>

\* op after client c has changed the rows of the given tables and gone on to
\* next: those who hold an older copy of such a row are overtaken.
Committed(c, tables, next) ==
    [d \in Clients |->
       IF d = c THEN [next EXCEPT !.at = rev + 1]
       ELSE [op[d] EXCEPT !.raced = @ \/ (op[d].pc = "write" /\ op[d].table \in tables)]]

\* What is left to do once the rows are written: n reloads of a registry
\* there is one of, or, with n = 1, the dropping of a tenant's.
Refresh(n) == [Idle EXCEPT !.pc = "refresh", !.reloads = n]

\* The HTTP agent service invalidates the manager and reloads the registry.
\* For a single tenant both load it, unless the request carries a tenant id.
HTTPAgentReloads == IF perTenant THEN {1} ELSE {1, 2}

\* The capability service only invalidates the manager.
CapabilityReloads == IF perTenant THEN {1} ELSE {0, 1}

\* What follows the writing of the agent's row.
AfterWrite(o) ==
    IF o.kb THEN [Idle EXCEPT !.pc = "kb", !.reloads = o.reloads] ELSE Refresh(o.reloads)

Return(c) == op' = [op EXCEPT ![c] = Idle]

\* Mutant of Merged: what the request does not name is written as zero.
MergedZero(row, named, new) == [f \in DOMAIN row |-> IF f \in named THEN new[f] ELSE 0]

\* Mutant of Merged: what the request does not name is left out of the row.
MergedOnlyNamed(row, named, new) == [f \in named |-> new[f]]

Merged(row, named, new) == [f \in DOMAIN row |-> IF f \in named THEN new[f] ELSE row[f]]

\* A request that rewrites the agent's row with val.
Rewrite(named, val, kb, reloads) ==
    [Idle EXCEPT !.pc = "write", !.named = named, !.val = val,
                 !.kb = kb, !.reloads = reloads]

-----------------------------------------------------------------------------
(* The HTTP agent service.                                                  *)

\* The row and its tools are one insert, the links to MCP servers another.
CreateAgent(c) ==
    /\ CanStart(c)
    /\ ~agent.live
    /\ \E mcp \in Bit, kb \in BOOLEAN, n \in HTTPAgentReloads :
         LET val == [Uniform(AgentFields, 1) EXCEPT !["mcp"] = mcp]
             next == [Rewrite(AgentFields, val, kb, n) EXCEPT !.pc = "assoc"]
         IN  /\ agent' = [live |-> TRUE, system |-> FALSE, val |-> [val EXCEPT !["mcp"] = 0]]
             /\ op' = Committed(c, {"agent"}, IF mcp = 0 THEN AfterWrite(next) ELSE next)
    /\ rev' = rev + 1
    /\ ops' = ops + 1
    /\ UNCHANGED <<perTenant, cap, registry>>

\* createMCPAssociations; it fails when the agent or a server is gone, and
\* the request returns without a refresh.
CreateAssociations(c) ==
    /\ op[c].pc = "assoc"
    /\ \/ /\ agent.live
          /\ agent' = [agent EXCEPT !.val = [@ EXCEPT !["mcp"] = op[c].val["mcp"]]]
          /\ rev' = rev + 1
          /\ op' = Committed(c, {"agent"}, AfterWrite(op[c]))
       \/ Return(c) /\ UNCHANGED <<agent, rev>>
    /\ UNCHANGED <<perTenant, cap, registry, ops>>

\* A PUT names every field; of a system agent an empty tool list keeps the
\* tools that were read.
UpdateAgent(c) ==
    \E tools \in Bit, kb \in BOOLEAN, n \in HTTPAgentReloads :
      LET keep == agent.live /\ agent.system /\ tools = 0
          new == [Uniform(AgentFields, 1) EXCEPT !["tools"] = tools]
          named == IF keep THEN AgentFields \ {"tools"} ELSE AgentFields
      IN  Begin(c, Rewrite(named, Merged(agent.val, named, new), kb, n))

PatchAgent(c) ==
    /\ agent.live
    /\ \E f \in AgentFields, kb \in BOOLEAN, n \in HTTPAgentReloads :
         Begin(c, Rewrite({f}, Merged(agent.val, {f}, Other(agent.val)), kb, n))

\* Update of either repository: the whole row, found by the agent's name or
\* the capability's id.
WriteRow(c) ==
    LET o == op[c]
        found == IF o.table = "agent" THEN agent.live ELSE cap.live /\ cap.id = o.id
    IN  /\ o.pc = "write"
        /\ IF found
           THEN /\ IF o.table = "agent"
                   THEN agent' = [agent EXCEPT !.val = o.val] /\ UNCHANGED cap
                   ELSE cap' = [cap EXCEPT !.val = o.val] /\ UNCHANGED agent
                /\ rev' = rev + 1
                /\ op' = Committed(c, {o.table}, AfterWrite(o))
           ELSE Return(c) /\ UNCHANGED rows
        /\ UNCHANGED <<perTenant, registry, ops>>

\* ReplaceAgentKBs: an unknown knowledge base or a missing agent ends the
\* request, with the row written and no refresh.
ReplaceAgentKBs(c) ==
    /\ op[c].pc = "kb"
    /\ \/ agent.live /\ op' = [op EXCEPT ![c].pc = "refresh"]
       \/ Return(c)
    /\ UNCHANGED <<perTenant, rows, registry, ops>>

DeleteAgent(c) ==
    /\ ~agent.system
    /\ \E n \in HTTPAgentReloads : Begin(c, [Refresh(n) EXCEPT !.pc = "dropCaps"])

\* The capabilities first; the schemas and relations of the agent are the
\* business of SchemaGraph.
DropCapabilities(c) ==
    /\ op[c].pc = "dropCaps"
    /\ LET next == [op[c] EXCEPT !.pc = "delete"]
       IN  IF cap.live
           THEN /\ cap' = [cap EXCEPT !.live = FALSE, !.val = Uniform(CapFields, 0)]
                /\ rev' = rev + 1
                /\ op' = Committed(c, {"cap"}, next)
           ELSE op' = [op EXCEPT ![c] = next] /\ UNCHANGED <<cap, rev>>
    /\ UNCHANGED <<perTenant, agent, registry, ops>>

\* The row goes, and by its foreign key the capability; unless a schema that
\* was given this entry meanwhile, or a session, still refers to it.
DeleteRow(c) ==
    /\ op[c].pc = "delete"
    /\ \/ /\ agent.live
          /\ agent' = [agent EXCEPT !.live = FALSE, !.val = Uniform(AgentFields, 0)]
          /\ cap' = [cap EXCEPT !.live = FALSE, !.val = Uniform(CapFields, 0)]
          /\ rev' = rev + 1
          /\ op' = Committed(c, {"agent", "cap"}, Refresh(op[c].reloads))
       \/ Return(c) /\ UNCHANGED rows
    /\ UNCHANGED <<perTenant, registry, ops>>

-----------------------------------------------------------------------------
(* The admin tools.  Their records do not carry the policy columns, which   *)
(* are therefore written as zero; an update does not carry the servers.     *)

AdminRewrite(named, val) == Rewrite(named \cup {"policy"}, [val EXCEPT !["policy"] = 0], FALSE, 1)

AdminCreateAgent(c) ==
    /\ CanStart(c)
    /\ ~agent.live
    /\ \E tools \in Bit :
         agent' = [live |-> TRUE, system |-> FALSE,
                   val |-> [Uniform(AgentFields, 0) EXCEPT !["prompt"] = 1, !["tools"] = tools]]
    /\ rev' = rev + 1
    /\ op' = Committed(c, {"agent"}, Refresh(1))
    /\ ops' = ops + 1
    /\ UNCHANGED <<perTenant, cap, registry>>

AdminUpdateAgent(c) ==
    /\ agent.live
    /\ \E named \in {{"prompt"}, {"tools"}} :
         Begin(c, AdminRewrite(named \cup {"mcp"},
                    [Merged(agent.val, named, Uniform(AgentFields, 1)) EXCEPT !["mcp"] = 0]))

\* Attach and detach, add and remove: nothing is written when the server or
\* the tool is there, or is not there, already.
Attachment(c, f, v) ==
    /\ agent.live
    /\ agent.val[f] # v
    /\ Begin(c, AdminRewrite({f}, [agent.val EXCEPT ![f] = v]))

AdminAttachMCPServer(c) == Attachment(c, "mcp", 1)
AdminDetachMCPServer(c) == Attachment(c, "mcp", 0)
AdminAddBuiltinTool(c) == Attachment(c, "tools", 1)
AdminRemoveBuiltinTool(c) == Attachment(c, "tools", 0)

AdminDeleteAgent(c) ==
    /\ agent.live
    /\ ~agent.system
    /\ Begin(c, [Refresh(1) EXCEPT !.pc = "delete"])

-----------------------------------------------------------------------------
(* Capabilities.  An agent has one of a type; the model follows one type.   *)

InsertCapability(c, val, n) ==
    /\ CanStart(c)
    /\ agent.live
    /\ ~cap.live
    /\ cap' = [live |-> TRUE, id |-> cap.id + 1, val |-> val]
    /\ rev' = rev + 1
    /\ op' = Committed(c, {"cap"}, Refresh(n))
    /\ ops' = ops + 1
    /\ UNCHANGED <<perTenant, agent, registry>>

AddCapability(c) ==
    \E e \in Bit, n \in CapabilityReloads : InsertCapability(c, [config |-> 1, enabled |-> e], n)

AdminAddCapability(c) == InsertCapability(c, [config |-> 1, enabled |-> 1], 1)

UpdateCapability(c) ==
    /\ cap.live
    /\ \E f \in CapFields, n \in CapabilityReloads :
         Begin(c, [Rewrite({f}, Merged(cap.val, {f}, Other(cap.val)), FALSE, n)
                     EXCEPT !.table = "cap", !.id = cap.id])

\* The admin tool deletes by id as well.
RemoveCapability(c) ==
    /\ CanStart(c)
    /\ cap.live
    /\ cap' = [cap EXCEPT !.live = FALSE, !.val = Uniform(CapFields, 0)]
    /\ rev' = rev + 1
    /\ \E n \in CapabilityReloads : op' = Committed(c, {"cap"}, Refresh(n))
    /\ ops' = ops + 1
    /\ UNCHANGED <<perTenant, agent, registry>>

-----------------------------------------------------------------------------
(* Single-tenant only: import, reload on request, the assistant's defaults. *)

\* The import is one transaction that names every column.
ImportYAML(c) ==
    /\ ~perTenant
    /\ CanStart(c)
    /\ agent' = [agent EXCEPT !.live = TRUE, !.val = Uniform(AgentFields, 1)]
    /\ rev' = rev + 1
    /\ op' = Committed(c, {"agent"}, Refresh(1))
    /\ ops' = ops + 1
    /\ UNCHANGED <<perTenant, cap, registry>>

ReloadConfig(c) == ~perTenant /\ Begin(c, Refresh(1))

RestoreBuilderAssistant(c) ==
    /\ ~perTenant
    /\ agent.system
    /\ Begin(c, Rewrite(AgentFields, [Uniform(AgentFields, 1) EXCEPT !["policy"] = 0], FALSE, 1))

-----------------------------------------------------------------------------
(* The registry.                                                            *)

LaterOf(m, n) == IF m > n THEN m ELSE n

\* Mutant of MutexFree: the map is changed without taking the lock.
MutexIgnored == TRUE

MutexFree == lock = None

\* InvalidateTenant and, in multi-tenant mode, InvalidateAll.
InvalidateTenant(c) ==
    /\ perTenant
    /\ op[c].pc = "refresh"
    /\ MutexFree
    /\ cached' = 0
    /\ refreshed' = LaterOf(refreshed, op[c].at)
    /\ Return(c)
    /\ UNCHANGED <<perTenant, rows, lock, overtaken, ops>>

\* InvalidateTenant for a single tenant: the request returns with its change
\* committed and the registry as it was.
InvalidateNothing(c) ==
    /\ ~perTenant
    /\ op[c].pc = "refresh"
    /\ op[c].reloads = 0
    /\ Return(c)
    /\ UNCHANGED <<perTenant, rows, registry, ops>>

\* AgentRegistry.Load without the manager: the agents are listed first, and
\* the map is replaced once the capabilities have been listed too.
ReloadList(c) ==
    /\ ~perTenant
    /\ op[c].pc = "refresh"
    /\ op[c].reloads > 0
    /\ op' = [op EXCEPT ![c].pc = "install", ![c].seen = rev, ![c].late = FALSE]
    /\ UNCHANGED <<perTenant, rows, registry, ops>>

NextReload(o) ==
    IF o.reloads > 1
    THEN [Idle EXCEPT !.pc = "refresh", !.reloads = o.reloads - 1, !.at = o.at]
    ELSE Idle

\* Mutant of Installed: the map is built and never put in place.
InstalledNever(c) == cached

Installed(c) == op[c].seen

ReloadInstall(c) ==
    /\ op[c].pc = "install"
    /\ cached' = Installed(c)
    /\ overtaken' = op[c].late
    /\ refreshed' = IF op[c].reloads > 1 THEN refreshed ELSE LaterOf(refreshed, op[c].at)
    /\ op' = [d \in Clients |->
                IF d = c THEN NextReload(op[c])
                ELSE [op[d] EXCEPT !.late = @ \/ op[d].pc = "install"]]
    /\ UNCHANGED <<perTenant, rows, lock, ops>>

\* A query fails: the error is logged and the old map stays.
ReloadFails(c) ==
    /\ op[c].pc = "install"
    /\ op' = [op EXCEPT ![c] = NextReload(op[c])]
    /\ UNCHANGED <<perTenant, rows, registry, ops>>

\* GetForContext of a chat: a miss under the read lock.  A hit is no step.
GetForContext(c) ==
    /\ perTenant
    /\ cached = 0
    /\ Begin(c, [Idle EXCEPT !.pc = "wait"])

\* The write lock, and the second look at the map.
LockForLoad(c) ==
    /\ op[c].pc = "wait"
    /\ MutexFree
    /\ IF cached # 0
       THEN Return(c) /\ UNCHANGED lock
       ELSE op' = [op EXCEPT ![c].pc = "load"] /\ lock' = c
    /\ UNCHANGED <<perTenant, rows, cached, overtaken, refreshed, ops>>

LoadList(c) ==
    /\ op[c].pc = "load"
    /\ op' = [op EXCEPT ![c].pc = "fill", ![c].seen = rev]
    /\ UNCHANGED <<perTenant, rows, registry, ops>>

Fill(c) ==
    /\ op[c].pc = "fill"
    /\ cached' = op[c].seen
    /\ lock' = None
    /\ Return(c)
    /\ UNCHANGED <<perTenant, rows, overtaken, refreshed, ops>>

LoadFails(c) ==
    /\ op[c].pc \in {"load", "fill"}
    /\ lock' = None
    /\ Return(c)
    /\ UNCHANGED <<perTenant, rows, cached, overtaken, refreshed, ops>>

-----------------------------------------------------------------------------
Request(c) ==
    \/ CreateAgent(c) \/ UpdateAgent(c) \/ PatchAgent(c) \/ DeleteAgent(c)
    \/ AdminCreateAgent(c) \/ AdminUpdateAgent(c) \/ AdminDeleteAgent(c)
    \/ AdminAttachMCPServer(c) \/ AdminDetachMCPServer(c)
    \/ AdminAddBuiltinTool(c) \/ AdminRemoveBuiltinTool(c)
    \/ AddCapability(c) \/ AdminAddCapability(c) \/ UpdateCapability(c) \/ RemoveCapability(c)
    \/ ImportYAML(c) \/ ReloadConfig(c) \/ RestoreBuilderAssistant(c)
    \/ GetForContext(c)

Continue(c) ==
    \/ CreateAssociations(c) \/ WriteRow(c) \/ ReplaceAgentKBs(c)
    \/ DropCapabilities(c) \/ DeleteRow(c)
    \/ InvalidateTenant(c) \/ InvalidateNothing(c) \/ ReloadList(c) \/ ReloadInstall(c) \/ ReloadFails(c)
    \/ LockForLoad(c) \/ LoadList(c) \/ Fill(c) \/ LoadFails(c)

Next == \E c \in Clients : Request(c) \/ Continue(c)

Spec == Init /\ [][Next]_vars

-----------------------------------------------------------------------------
(* Properties.                                                              *)

Promise == INSTANCE RegistryPromise
    WITH written <- rev, acked <- IF perTenant THEN refreshed ELSE 0, cached <- cached

\* With a registry per tenant (invalidateRegistryForContext, InvalidateTenant
\* and GetForContext) the registry in use never lacks a change whose request
\* has refreshed and returned, whatever loads were under way when it did:
\* the detailed protocol implements the promise of RegistryPromise.
RegistryKeepsPromise == Promise!Spec

\* The single registry (AgentRegistry.Load, which reads outside its lock)
\* lacks a change whose request has reloaded it and returned only if the load
\* that was installed last had been overtaken by another one.  So a change
\* that was reported done is missing in three cases: overlapping reloads, a
\* load that failed, and a capability request with a tenant id, after which
\* nothing is loaded (InvalidateNothing).  The first is the ~overtaken of
\* the formula, the other two do not move `refreshed`.
StaleOnlyIfOvertaken ==
    ~perTenant /\ ~overtaken => cached >= refreshed

\* PATCH of an agent and PUT of a capability keep the fields that the request
\* does not name ("applies only the non-nil fields in req; unspecified fields
\* are preserved"), and so do the admin tools with the fields their records
\* carry, unless another request wrote the row in between.
UnnamedFieldsKept ==
    [][\A c \in Clients :
         WriteRow(c) /\ rev' # rev /\ ~op[c].raced =>
           LET row == IF op[c].table = "agent" THEN agent ELSE cap
               new == IF op[c].table = "agent" THEN agent' ELSE cap'
           IN  \A f \in DOMAIN row.val \ op[c].named : new.val[f] = row.val[f]]_vars
=============================================================================
