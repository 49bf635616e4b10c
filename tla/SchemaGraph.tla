---------------------------- MODULE SchemaGraph ----------------------------
(***************************************************************************)
(* The schemas of one tenant and their delegation graphs: the schemas and  *)
(* agent_relations tables and the agents both refer to.  They are written  *)
(* by the HTTP schema, relation and agent services, by the admin tools of  *)
(* the assistant and by a template fork; chats only leave session rows,    *)
(* which hold a schema.                                                    *)
(*                                                                         *)
(* A request is a sequence of database statements, each of them one step;  *)
(* a transaction that takes no decision between its statements is one step *)
(* as well.  Ids are never issued twice.  A request refers to an agent by  *)
(* its id, which nothing looks up before the foreign key does, or by its   *)
(* name, which is looked up first.  A schema's name and description are    *)
(* written back together with the flag that lets end users chat, which     *)
(* stands for the three; so names are taken to differ.                     *)
(***************************************************************************)
EXTENDS AgentIds, Integers, FiniteSets

CONSTANTS
    Schemas,    \* ids of schemas
    First,      \* the schema that is there at the start
    Clients,    \* callers that may run requests at the same time
    MaxRelations, \* bound: relations that are ever created
    MaxOps      \* bound: requests that are ever made

ASSUME NoSchemaAssumption == None \notin Schemas
ASSUME FirstAssumption == First \in Schemas
ASSUME MaxRelationsAssumption == MaxRelations \in Nat
ASSUME FiniteAssumption == IsFiniteSet(Agents)
ASSUME MaxOpsAssumption == MaxOps \in Nat

VARIABLES
    life,       \* life[a]: agent a is "fresh", "live" or "gone"
    schema,     \* schema[s]: the row of s, with the same three lives
    rels,       \* the agent_relations table
    issued,     \* relations created so far
    sessions,   \* schemas with a row in sessions
    op,         \* op[c]: the request client c is running
    ops         \* requests made so far

graphVars == <<life, schema, rels, issued, sessions, op, ops>>

Lives == {"fresh", "live", "gone"}
Relations == 1..MaxRelations
Fields == {"entry", "chat"}
Values == [entry : Agents \cup {None}, chat : BOOLEAN]
NoValues == [entry |-> None, chat |-> FALSE]

\* checked is a history field: the edge was written after a cycle check that
\* no other write of the schema's edges has overtaken.
Relation == [id : Relations, schema : Schemas, source : Agents, target : Agents,
             checked : BOOLEAN]

Live == {a \in Agents : life[a] = "live"}
LiveSchemas == {s \in Schemas : schema[s].life = "live"}
ValuesOf(s) == [entry |-> schema[s].entry, chat |-> schema[s].chat]

(* A request: where it is, its schema or relation, the endpoints or the     *)
(* agent it was given, the fields it names with their new values, the row   *)
(* it has read, and two history flags: another request has written the row  *)
(* since it was read, or edges of the schema since they were listed.        *)
Idle == [pc |-> "idle", s |-> None, id |-> 0, src |-> None, dst |-> None,
         named |-> {}, new |-> NoValues, snap |-> NoValues,
         rowRaced |-> FALSE, edgeRaced |-> FALSE]

HoldsRow == {"check", "insert", "autoEntry", "member", "write"}
HoldsEdges == {"insert", "rewire"}
RequestPCs == HoldsRow \cup HoldsEdges \cup
       {"idle", "clearEntries", "dropRelations", "deleteAgent"}

GraphTypeOK ==
    /\ life \in [Agents -> Lives]
    /\ schema \in [Schemas -> [life : Lives, entry : Agents \cup {None}, chat : BOOLEAN]]
    /\ rels \subseteq Relation
    /\ issued \in 0..MaxRelations
    /\ sessions \subseteq Schemas
    /\ op \in [Clients -> [pc : RequestPCs, s : Schemas \cup {None}, id : 0..MaxRelations,
                           src : Agents \cup {None}, dst : Agents \cup {None},
                           named : SUBSET Fields, new : Values, snap : Values,
                           rowRaced : BOOLEAN, edgeRaced : BOOLEAN]]
    /\ ops \in 0..MaxOps

Row(l, v) == [life |-> l, entry |-> v.entry, chat |-> v.chat]

\* A tenant with some agents, one schema that was just created, and nothing
\* else.
GraphInit ==
    /\ life \in [Agents -> {"fresh", "live"}]
    /\ schema = [s \in Schemas |-> Row(IF s = First THEN "live" ELSE "fresh", NoValues)]
    /\ rels = {} /\ issued = 0 /\ sessions = {}
    /\ op = [c \in Clients |-> Idle]
    /\ ops = 0

-----------------------------------------------------------------------------
(* The cycle check.                                                         *)

Edges(R) == {<<r.source, r.target>> : r \in R}
EdgesOf(s) == {r \in rels : r.schema = s}

\* reachable: breadth-first search from src, a level of the queue at a time.
\* Level n holds what n edges reach and fewer do not; there are no more
\* levels than agents.
reachable(E, src, dst) ==
    LET Bfs[n \in 0..Cardinality(Agents)] ==
          IF n = 0 THEN [visited |-> {src}, queue |-> {src}]
          ELSE LET q == Bfs[n - 1]
                   next == {e[2] : e \in {d \in E : d[1] \in q.queue}} \ q.visited
               IN  [visited |-> q.visited \cup next, queue |-> next]
    IN  dst \in Bfs[Cardinality(Agents)].visited

\* The reference: dst is in every set that src is in and no edge leaves.
ClosedUnder(E, V) == \A a \in V, b \in Agents : <<a, b>> \in E => b \in V
PathExists(E, src, dst) ==
    \A V \in SUBSET Agents : src \in V /\ ClosedUnder(E, V) => dst \in V

\* The search finds dst exactly when there is a path, in every graph of the
\* instance; Delegation_proofs shows it for any set of agents (SearchFindsPaths).
ASSUME ReachableIsPath ==
    \A E \in SUBSET (Agents \X Agents), a, b \in Agents :
        reachable(E, a, b) <=> PathExists(E, a, b)

\* Mutant of ClosesCycle: the probe runs in the direction of the new edge.
ProbesForward(s, id, src, dst) ==
    reachable(Edges({r \in EdgesOf(s) : r.id # id}), src, dst)

\* checkNoCycleExcluding: the new edge closes a cycle.
ClosesCycle(s, id, src, dst) ==
    reachable(Edges({r \in EdgesOf(s) : r.id # id}), dst, src)

-----------------------------------------------------------------------------
(* What the statements of the requests share.                               *)

CanStart(c) == op[c].pc = "idle" /\ ops < MaxOps

\* op after client c has gone on to next and written the rows of the schemas
\* in R and edges of the schemas in E.
AfterStep(c, next, R, E) ==
    [d \in Clients |->
       IF d = c THEN next
       ELSE [op[d] EXCEPT
               !.rowRaced = @ \/ (op[d].pc \in HoldsRow /\ op[d].s \in R),
               !.edgeRaced = @ \/ (op[d].pc \in HoldsEdges /\ op[d].s \in E)]]

Goes(c, next) == op' = AfterStep(c, next, {}, {})
Starts(c, next) == CanStart(c) /\ Goes(c, next) /\ ops' = ops + 1
StartsAndEnds(c, R, E) == CanStart(c) /\ op' = AfterStep(c, Idle, R, E) /\ ops' = ops + 1

\* What a request may refer to: an id is taken as it is, and may be that of
\* an agent that is gone; a name is looked up.
ById == {a \in Agents : life[a] # "fresh"}
Referable == ById \cup Live

\* The foreign keys and the unique index of agent_relations.
RelationAllowed(s, id, src, dst) ==
    /\ s \in LiveSchemas /\ {src, dst} \subseteq Live
    /\ ~ \E r \in EdgesOf(s) : r.id # id /\ r.source = src /\ r.target = dst

\* GORMAgentRelationRepository.Create.
InsertsRelation(s, a, b, checked) ==
    /\ issued < MaxRelations /\ issued' = issued + 1
    /\ rels' = rels \cup {[id |-> issued + 1, schema |-> s, source |-> a, target |-> b,
                           checked |-> checked]}

\* The foreign key of entry_agent_id.
RowAllowed(v) == v.entry \in Live \cup {None}

\* GORMSchemaRepository.Update writes all the columns, on a row that is there.
WritesRow(c, s, v) ==
    \/ /\ s \in LiveSchemas /\ RowAllowed(v)
       /\ schema' = [schema EXCEPT ![s] = Row("live", v)]
       /\ op' = AfterStep(c, Idle, {s}, {})
    \/ /\ ~(s \in LiveSchemas /\ RowAllowed(v))
       /\ Goes(c, Idle) /\ UNCHANGED schema

-----------------------------------------------------------------------------
(* Relations.                                                               *)

\* CreateAgentRelation reads the schema, resolves both ends and refuses a
\* self-loop.
ReadSchema(c) ==
    \E s \in LiveSchemas, a, b \in Referable :
        /\ a # b
        /\ Starts(c, [Idle EXCEPT !.pc = "check", !.s = s, !.src = a, !.dst = b,
                                  !.snap = ValuesOf(s)])
        /\ UNCHANGED <<life, schema, rels, issued, sessions>>

\* It lists the schema's relations and refuses an edge that closes a cycle.
CheckNoCycle(c) ==
    /\ op[c].pc = "check"
    /\ IF ClosesCycle(op[c].s, 0, op[c].src, op[c].dst) THEN Goes(c, Idle)
       ELSE Goes(c, [op[c] EXCEPT !.pc = "insert"])
    /\ UNCHANGED <<life, schema, rels, issued, sessions, ops>>

\* It inserts the relation and returns, unless the schema it has read has no
\* entry agent.
CreateAgentRelation(c) ==
    /\ op[c].pc = "insert"
    /\ LET s == op[c].s
           a == op[c].src
           b == op[c].dst
           next == IF op[c].snap.entry = None
                   THEN [op[c] EXCEPT !.pc = "autoEntry"] ELSE Idle
       IN  \/ /\ RelationAllowed(s, 0, a, b)
              /\ InsertsRelation(s, a, b, ~op[c].edgeRaced)
              /\ op' = AfterStep(c, next, {}, {s})
           \/ /\ ~RelationAllowed(s, 0, a, b)
              /\ Goes(c, Idle) /\ UNCHANGED <<rels, issued>>
    /\ UNCHANGED <<life, schema, sessions, ops>>

\* Mutant of AutoEntryValues: the flag of the record is left at its zero.
AutoEntryFresh(o) == [o.snap EXCEPT !.entry = o.src, !.chat = FALSE]

\* The row that makes the source the entry agent: what was read, with it.
AutoEntryValues(o) == [o.snap EXCEPT !.entry = o.src]

\* It writes that row; an error is ignored.
AutoEntry(c) ==
    /\ op[c].pc = "autoEntry"
    /\ WritesRow(c, op[c].s, AutoEntryValues(op[c]))
    /\ UNCHANGED <<life, rels, issued, sessions, ops>>

\* UpdateAgentRelation resolves the ends, reads the relation and checks the
\* other edges of its schema.
CheckUpdate(c) ==
    \E r \in rels, a, b \in Referable :
        /\ a # b
        /\ ~ClosesCycle(r.schema, r.id, a, b)
        /\ Starts(c, [Idle EXCEPT !.pc = "rewire", !.s = r.schema, !.id = r.id,
                                  !.src = a, !.dst = b])
        /\ UNCHANGED <<life, schema, rels, issued, sessions>>

\* It writes the ends of the relation, if that is still there.
UpdateAgentRelation(c) ==
    /\ op[c].pc = "rewire"
    /\ LET s == op[c].s
           a == op[c].src
           b == op[c].dst
           rows == {r \in rels : r.id = op[c].id}
       IN  \/ /\ rows # {} /\ RelationAllowed(s, op[c].id, a, b)
              /\ rels' = (rels \ rows) \cup {[id |-> op[c].id, schema |-> s, source |-> a,
                                              target |-> b, checked |-> ~op[c].edgeRaced]}
              /\ op' = AfterStep(c, Idle, {}, {s})
           \/ /\ ~(rows # {} /\ RelationAllowed(s, op[c].id, a, b))
              /\ Goes(c, Idle) /\ UNCHANGED rels
    /\ UNCHANGED <<life, schema, issued, sessions, ops>>

DeleteAgentRelation(c) ==
    /\ \E r \in rels : rels' = rels \ {r}
    /\ StartsAndEnds(c, {}, {})
    /\ UNCHANGED <<life, schema, issued, sessions>>

\* admin_create_agent_relation resolves the ends and inserts: neither a
\* self-loop nor a cycle is refused, and no entry agent is set.
AdminCreateAgentRelation(c) ==
    \E s \in LiveSchemas, a, b \in Referable :
        /\ RelationAllowed(s, 0, a, b)
        /\ InsertsRelation(s, a, b, FALSE)
        /\ StartsAndEnds(c, {}, {s})
        /\ UNCHANGED <<life, schema, sessions>>

AdminDeleteAgentRelation(c) ==
    /\ \E r \in rels : rels' = rels \ {r}
    /\ StartsAndEnds(c, {}, {})
    /\ UNCHANGED <<life, schema, issued, sessions>>

-----------------------------------------------------------------------------
(* Schemas.                                                                 *)

\* A request names some of the fields; what it does not name has no value.
SchemaRequests ==
    {q \in [named : SUBSET Fields, new : Values] :
        \A f \in Fields \ q.named : q.new[f] = NoValues[f]}

\* UpdateSchema and PatchSchema read the row; a new entry agent is resolved.
LoadSchema(c) ==
    \E s \in LiveSchemas, q \in SchemaRequests :
        /\ q.new.entry \in Referable \cup {None}
        /\ Starts(c, [Idle EXCEPT !.pc = "member", !.s = s, !.named = q.named,
                                  !.new = q.new, !.snap = ValuesOf(s)])
        /\ UNCHANGED <<life, schema, rels, issued, sessions>>

\* requireAgentInSchema: an entry agent must be an end of a relation of the
\* schema, if that has any.
AgentInSchema(s, a) ==
    EdgesOf(s) # {} => \E r \in EdgesOf(s) : a \in {r.source, r.target}

\* A new entry agent must take part in the schema.
RequireAgentInSchema(c) ==
    /\ op[c].pc = "member"
    /\ LET a == op[c].new.entry
       IN  IF a # None => AgentInSchema(op[c].s, a)
           THEN Goes(c, [op[c] EXCEPT !.pc = "write"]) ELSE Goes(c, Idle)
    /\ UNCHANGED <<life, schema, rels, issued, sessions, ops>>

\* Mutant of Merged: a flag the request does not name is written as NULL.
MergedNil(o) == [entry |-> IF "entry" \in o.named THEN o.new.entry ELSE o.snap.entry,
                 chat |-> IF "chat" \in o.named THEN o.new.chat ELSE None]

\* The row that was read with the fields the request names.
Merged(o) == [entry |-> IF "entry" \in o.named THEN o.new.entry ELSE o.snap.entry,
              chat |-> IF "chat" \in o.named THEN o.new.chat ELSE o.snap.chat]

UpdateSchema(c) ==
    /\ op[c].pc = "write"
    /\ WritesRow(c, op[c].s, Merged(op[c]))
    /\ UNCHANGED <<life, rels, issued, sessions, ops>>

\* admin_update_schema: the adapter reads the row and does not ask whether
\* the entry agent takes part in the schema.
AdminUpdateSchema(c) ==
    \E s \in LiveSchemas, q \in SchemaRequests :
        /\ q.new.entry \in Referable \cup {None}
        /\ Starts(c, [Idle EXCEPT !.pc = "write", !.s = s, !.named = q.named,
                                  !.new = q.new, !.snap = ValuesOf(s)])
        /\ UNCHANGED <<life, schema, rels, issued, sessions>>

\* The insert takes the entry agent as it was given.
CreateSchema(c) ==
    \E s \in Schemas, v \in Values :
        /\ schema[s].life = "fresh" /\ RowAllowed(v)
        /\ schema' = [schema EXCEPT ![s] = Row("live", v)]
        /\ StartsAndEnds(c, {s}, {})
        /\ UNCHANGED <<life, rels, issued, sessions>>

\* admin_create_schema writes neither an entry agent nor the chat flag.
AdminCreateSchema(c) ==
    \E s \in Schemas :
        /\ schema[s].life = "fresh"
        /\ schema' = [schema EXCEPT ![s] = Row("live", NoValues)]
        /\ StartsAndEnds(c, {s}, {})
        /\ UNCHANGED <<life, rels, issued, sessions>>

\* One transaction deletes the relations and the schema; the session rows
\* hold the schema, and then both stay.
DeletesSchema(s) ==
    /\ s \in LiveSchemas \ sessions
    /\ rels' = rels \ EdgesOf(s)
    /\ schema' = [schema EXCEPT ![s] = Row("gone", NoValues)]
    /\ UNCHANGED <<life, issued, sessions>>

DeleteSchema(c) == \E s \in Schemas : DeletesSchema(s) /\ StartsAndEnds(c, {s}, {})
AdminDeleteSchema(c) == \E s \in Schemas : DeletesSchema(s) /\ StartsAndEnds(c, {s}, {})

\* ForkService.Fork: the rows of a template with an entry agent that may
\* delegate to a second one, in one transaction.  Fork inserts every relation
\* its template lists; the templates are those of schema-templates.yaml, none
\* of which has more than two agents and the relation between them.
Fork(c) ==
    \E s \in Schemas, a, b \in Agents :
        /\ schema[s].life = "fresh" /\ life[a] = "fresh" /\ life[b] = "fresh"
        /\ \/ a # b /\ InsertsRelation(s, a, b, TRUE)
           \/ a = b /\ UNCHANGED <<rels, issued>>
        /\ life' = [x \in Agents |-> IF x \in {a, b} THEN "live" ELSE life[x]]
        /\ schema' = [schema EXCEPT ![s] = Row("live", [entry |-> a, chat |-> TRUE])]
        /\ StartsAndEnds(c, {s}, {s})
        /\ UNCHANGED sessions

-----------------------------------------------------------------------------
(* Agents and chats.                                                        *)

CreateAgent(c) ==
    /\ \E a \in Agents : life[a] = "fresh" /\ life' = [life EXCEPT ![a] = "live"]
    /\ StartsAndEnds(c, {}, {})
    /\ UNCHANGED <<schema, rels, issued, sessions>>

\* GORMAgentRepository.Delete: an agent that a schema has for its entry
\* stays; its relations go with it.
AgentDeletable(a) == a \in Live /\ \A s \in LiveSchemas : schema[s].entry # a
DeletesAgent(a) ==
    /\ AgentDeletable(a)
    /\ life' = [life EXCEPT ![a] = "gone"]
    /\ rels' = {r \in rels : a \notin {r.source, r.target}}
    /\ UNCHANGED <<schema, issued, sessions>>

\* DeleteAgent: the capabilities, which no other step here reads, are
\* deleted first.
BeginDeleteAgent(c) ==
    \E a \in Live :
        /\ Starts(c, [Idle EXCEPT !.pc = "clearEntries", !.src = a])
        /\ UNCHANGED <<life, schema, rels, issued, sessions>>

\* The agent is taken from every schema it is the entry of; an error is
\* logged and the request goes on.
ClearEntries(c) ==
    /\ op[c].pc = "clearEntries"
    /\ LET a == op[c].src
           mine == {s \in LiveSchemas : schema[s].entry = a}
           next == [op[c] EXCEPT !.pc = "dropRelations"]
       IN  \/ /\ schema' = [s \in Schemas |-> IF s \in mine
                              THEN [schema[s] EXCEPT !.entry = None] ELSE schema[s]]
              /\ op' = AfterStep(c, next, mine, {})
           \/ Goes(c, next) /\ UNCHANGED schema
    /\ UNCHANGED <<life, rels, issued, sessions, ops>>

\* So it is for its relations.
DropRelations(c) ==
    /\ op[c].pc = "dropRelations"
    /\ rels' \in {rels, {r \in rels : op[c].src \notin {r.source, r.target}}}
    /\ Goes(c, [op[c] EXCEPT !.pc = "deleteAgent"])
    /\ UNCHANGED <<life, schema, issued, sessions, ops>>

DeleteAgent(c) ==
    /\ op[c].pc = "deleteAgent"
    /\ \/ DeletesAgent(op[c].src)
       \/ ~AgentDeletable(op[c].src) /\ UNCHANGED <<life, schema, rels, issued, sessions>>
    /\ Goes(c, Idle)
    /\ UNCHANGED ops

AdminDeleteAgent(c) ==
    \E a \in Agents : DeletesAgent(a) /\ StartsAndEnds(c, {}, {})

\* A chat of a schema that allows it writes a session row.
Chat(s) ==
    /\ s \in LiveSchemas /\ schema[s].chat /\ schema[s].entry # None
    /\ s \notin sessions /\ sessions' = sessions \cup {s}
    /\ UNCHANGED <<life, schema, rels, issued, op, ops>>

DeleteSession(s) ==
    /\ s \in sessions /\ sessions' = sessions \ {s}
    /\ UNCHANGED <<life, schema, rels, issued, op, ops>>

GraphNext ==
    \/ \E c \in Clients :
         \/ ReadSchema(c) \/ CheckNoCycle(c) \/ CreateAgentRelation(c) \/ AutoEntry(c)
         \/ CheckUpdate(c) \/ UpdateAgentRelation(c) \/ DeleteAgentRelation(c)
         \/ AdminCreateAgentRelation(c) \/ AdminDeleteAgentRelation(c)
         \/ LoadSchema(c) \/ RequireAgentInSchema(c) \/ UpdateSchema(c)
         \/ AdminUpdateSchema(c) \/ CreateSchema(c) \/ AdminCreateSchema(c)
         \/ DeleteSchema(c) \/ AdminDeleteSchema(c) \/ Fork(c)
         \/ CreateAgent(c) \/ BeginDeleteAgent(c) \/ ClearEntries(c)
         \/ DropRelations(c) \/ DeleteAgent(c) \/ AdminDeleteAgent(c)
    \/ \E s \in Schemas : Chat(s) \/ DeleteSession(s)

GraphSpec == GraphInit /\ [][GraphNext]_graphVars

-----------------------------------------------------------------------------
(* Properties.                                                              *)

Acyclic(E) ==
    \A S \in SUBSET Agents : S # {} =>
        \E a \in S : \A b \in S : <<a, b>> \notin E

\* Every cycle of a delegation graph runs through an edge of the admin tool,
\* which does not check, or one whose check another edge of the schema has
\* overtaken: the edges that were checked in time never close one by
\* themselves, whatever is rewired or deleted around them.
CheckedEdgesAcyclic ==
    \A s \in Schemas : Acyclic(Edges({r \in EdgesOf(s) : r.checked}))

\* The request that writes the row of s in this step may change f: it names
\* f, it gives a schema without an entry agent one, or another request has
\* written the row since this one has read it.
MayChange(c, s, f) ==
    \/ op[c].pc = "clearEntries" /\ f = "entry" /\ schema[s].entry = op[c].src
    \/ /\ op[c].pc \in {"autoEntry", "write"} /\ op[c].s = s
       /\ \/ f \in op[c].named
          \/ op[c].rowRaced
          \/ op[c].pc = "autoEntry" /\ f = "entry" /\ schema[s].entry = None

\* A field of a schema that is not created or deleted changes only in the
\* step of a request that may change it: the whole-row updates put back the
\* fields nobody asked to change, except over a write they have not seen.
UnnamedFieldsKept ==
    [][\A s \in Schemas, f \in Fields :
         /\ schema[s].life = "live" /\ schema'[s].life = "live"
         /\ schema'[s][f] # schema[s][f]
         => \E c \in Clients : op'[c] # op[c] /\ MayChange(c, s, f)]_graphVars
=============================================================================
