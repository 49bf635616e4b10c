------------------------ MODULE AgentConfig_proofs ------------------------
(***************************************************************************)
(* Proofs about AgentConfig for any number of clients and requests: the    *)
(* types, that the registry per tenant implements RegistryPromise, when    *)
(* the single registry is stale, and that a request keeps the fields it    *)
(* does not name.                                                          *)
(*                                                                         *)
(* Few steps touch the registry.  All others are Neutral: they may commit  *)
(* a change and move one client on, to where it neither loads nor          *)
(* installs.                                                               *)
(***************************************************************************)
EXTENDS AgentConfig, TLAPS

\* Nobody has seen, or made, a change that is still to come.
SeenInv == \A c \in Clients : op[c].at <= rev /\ op[c].seen <= rev

\* A client that loads for a tenant holds the lock, under which nobody
\* acknowledges: what it has listed includes all that was acknowledged.
LoadInv ==
    \A c \in Clients :
        /\ op[c].pc \in {"wait", "load", "fill"} => perTenant
        /\ op[c].pc \in {"load", "fill"} => lock = c
        /\ op[c].pc = "fill" => refreshed <= op[c].seen

\* A client that reloads has listed its own change, and everything that was
\* acknowledged unless another reload was installed since it listed.
ReloadInv ==
    \A c \in Clients :
        op[c].pc = "install" =>
            /\ ~perTenant
            /\ op[c].at <= op[c].seen
            /\ ~op[c].late => refreshed <= op[c].seen

IInv == TypeOK /\ SeenInv /\ LoadInv /\ ReloadInv /\ StaleOnlyIfOvertaken

\* What every step of client c but those of the registry does to the state.
Neutral(c) ==
    /\ UNCHANGED <<perTenant, registry>>
    /\ rev' \in {rev, rev + 1}
    /\ op[c].pc \notin {"load", "fill"}
    /\ op'[c].pc \notin {"load", "fill", "install"}
    /\ op'[c].pc = "wait" => perTenant
    /\ op'[c].at \in {0, op[c].at, rev'} /\ op'[c].seen \in {0, op[c].seen}
    /\ \A d \in Clients \ {c} :
         /\ op'[d].pc = op[d].pc /\ op'[d].at = op[d].at
         /\ op'[d].seen = op[d].seen /\ op'[d].late = op[d].late

-----------------------------------------------------------------------------
(* What the operators return.                                              *)

\* Records and values that the operators build have their types.
LEMMA UniformType ==
    ASSUME NEW F, NEW v \in Bit
    PROVE  Uniform(F, v) \in Values(F)
BY DEF Uniform, Values

LEMMA IdleType ==
    /\ Idle \in OpRecord /\ Idle.pc = "idle" /\ Idle.at = 0 /\ Idle.seen = 0
<1>1. Uniform(AgentFields, 0) \in Values(AgentFields)
    BY UniformType DEF Bit
<1> QED
    BY <1>1 DEF Idle, OpRecord, OpShape, PCs

LEMMA MergedType ==
    ASSUME NEW F, NEW row \in Values(F), NEW named, NEW new \in Values(F)
    PROVE  Merged(row, named, new) \in Values(F)
BY DEF Merged, Values

LEMMA OtherType ==
    ASSUME NEW F, NEW row \in Values(F)
    PROVE  Other(row) \in Values(F)
BY DEF Other, Values, Bit

LEMMA RefreshType ==
    ASSUME NEW n \in 0..2
    PROVE  /\ Refresh(n) \in OpRecord /\ Refresh(n).pc = "refresh"
           /\ Refresh(n).reloads = n
           /\ Refresh(n).at = 0 /\ Refresh(n).seen = 0
BY IdleType DEF Refresh, OpRecord, OpShape, PCs

LEMMA ReloadsType ==
    /\ HTTPAgentReloads \in SUBSET (0..2)
    /\ CapabilityReloads \in SUBSET (0..2)
BY DEF HTTPAgentReloads, CapabilityReloads

LEMMA RewriteType ==
    ASSUME NEW named \in SUBSET Fields, NEW val \in Values(AgentFields),
           NEW kb \in BOOLEAN, NEW n \in 0..2
    PROVE  LET w == Rewrite(named, val, kb, n) IN
           /\ w \in OpRecord /\ w.table = "agent" /\ w.pc = "write"
           /\ w.at = 0 /\ w.seen = 0
<1> DEFINE w == Rewrite(named, val, kb, n)
<1>1. Idle \in OpShape /\ Idle.table = "agent" /\ Idle.at = 0 /\ Idle.seen = 0
    BY IdleType DEF OpRecord, Idle
<1>2. /\ w \in OpShape /\ w.table = "agent" /\ w.val = val
      /\ w.pc = "write" /\ w.at = 0 /\ w.seen = 0
    BY <1>1 DEF Rewrite, OpShape, PCs
<1> QED
    BY <1>2 DEF OpRecord

\* With a single reload and no knowledge bases.
LEMMA RewriteOnceType ==
    ASSUME NEW named \in SUBSET Fields, NEW val \in Values(AgentFields)
    PROVE  /\ Rewrite(named, val, FALSE, 1) \in OpRecord
           /\ Rewrite(named, val, FALSE, 1).pc = "write"
           /\ Rewrite(named, val, FALSE, 1).at = 0
           /\ Rewrite(named, val, FALSE, 1).seen = 0
<1>1. 1 \in 0..2 /\ FALSE \in BOOLEAN
    OBVIOUS
<1> QED
    BY <1>1, RewriteType

\* The same with the values of a capability, before its table is named.
LEMMA RewriteCapType ==
    ASSUME NEW named \in SUBSET Fields, NEW val \in Values(CapFields),
           NEW kb \in BOOLEAN, NEW n \in 0..2
    PROVE  /\ Rewrite(named, val, kb, n) \in OpShape
           /\ Rewrite(named, val, kb, n).val \in Values(CapFields)
           /\ Rewrite(named, val, kb, n).pc = "write"
           /\ Rewrite(named, val, kb, n).at = 0
           /\ Rewrite(named, val, kb, n).seen = 0
<1>1. Idle \in OpShape /\ Idle.at = 0 /\ Idle.seen = 0
    BY IdleType DEF OpRecord
<1> QED
    BY <1>1 DEF Rewrite, OpShape, PCs

LEMMA AfterWriteType ==
    ASSUME NEW o \in OpRecord
    PROVE  /\ AfterWrite(o) \in OpRecord
           /\ AfterWrite(o).pc \in {"kb", "refresh"}
           /\ AfterWrite(o).at = 0 /\ AfterWrite(o).seen = 0
<1>1. o.reloads \in 0..2
    BY DEF OpRecord, OpShape
<1>2. CASE o.kb
    BY <1>1, <1>2, IdleType DEF AfterWrite, OpRecord, OpShape, PCs
<1>3. CASE ~o.kb
    BY <1>1, <1>3, RefreshType DEF AfterWrite
<1> QED
    BY <1>2, <1>3

\* Committed gives client c its next record and changes only raced in others.
LEMMA CommittedType ==
    ASSUME TypeOK, NEW c \in Clients, NEW tables, NEW next \in OpRecord
    PROVE  LET p == Committed(c, tables, next) IN
           /\ p \in [Clients -> OpRecord]
           /\ p[c].pc = next.pc /\ p[c].at = rev + 1 /\ p[c].seen = next.seen
           /\ \A d \in Clients \ {c} :
                /\ p[d].pc = op[d].pc /\ p[d].at = op[d].at
                /\ p[d].seen = op[d].seen /\ p[d].late = op[d].late
<1> DEFINE p == Committed(c, tables, next)
           mine == [next EXCEPT !.at = rev + 1]
           other(d) == [op[d] EXCEPT !.raced = @ \/ (op[d].pc = "write" /\ op[d].table \in tables)]
<1>1. p = [d \in Clients |-> IF d = c THEN mine ELSE other(d)]
    BY DEF Committed
<1>2. /\ mine \in OpRecord /\ mine.pc = next.pc /\ mine.at = rev + 1
      /\ mine.seen = next.seen
    BY DEF TypeOK, OpRecord, OpShape
<1>3. ASSUME NEW d \in Clients
      PROVE  /\ other(d) \in OpRecord
             /\ other(d).pc = op[d].pc /\ other(d).at = op[d].at
             /\ other(d).seen = op[d].seen /\ other(d).late = op[d].late
  <2>1. op[d] \in OpRecord
      BY DEF TypeOK
  <2>2. (op[d].raced \/ (op[d].pc = "write" /\ op[d].table \in tables)) \in BOOLEAN
      OBVIOUS
  <2> QED
      BY <2>1, <2>2 DEF OpRecord, OpShape
<1> QED
    BY <1>1, <1>2, <1>3

-----------------------------------------------------------------------------
(* Three ways to move a client on.                                         *)

\* A client moves on and no row is changed.
LEMMA MoveStep ==
    ASSUME TypeOK, NEW c \in Clients, NEW next \in OpRecord,
           op' = [op EXCEPT ![c] = next],
           op[c].pc \notin {"load", "fill"},
           next.pc \notin {"load", "fill", "install"}, next.pc = "wait" => perTenant,
           next.at \in {0, op[c].at}, next.seen \in {0, op[c].seen},
           ops' \in 0..MaxOps, UNCHANGED <<perTenant, rows, registry>>
    PROVE  TypeOK' /\ Neutral(c)
<1>1. UNCHANGED <<perTenant, agent, cap, rev, cached, lock, overtaken, refreshed>>
    BY DEF rows, registry
<1>2. op' \in [Clients -> OpRecord] /\ op'[c] = next
      /\ \A d \in Clients \ {c} : op'[d] = op[d]
    BY DEF TypeOK
<1>3. TypeOK'
    BY <1>1, <1>2 DEF TypeOK
<1>4. Neutral(c)
    BY <1>1, <1>2 DEF Neutral, registry
<1> QED
    BY <1>3, <1>4

\* A request begins.
LEMMA BeginStep ==
    ASSUME TypeOK, NEW c \in Clients, NEW request \in OpRecord, Begin(c, request),
           request.pc \notin {"load", "fill", "install"}, request.pc = "wait" => perTenant,
           request.at = 0, request.seen = 0
    PROVE  TypeOK' /\ Neutral(c)
<1>1. /\ op[c].pc = "idle" /\ op' = [op EXCEPT ![c] = request]
      /\ ops' \in 0..MaxOps /\ UNCHANGED <<perTenant, rows, registry>>
    BY MaxOpsAssumption DEF Begin, CanStart, TypeOK
<1> QED
    BY <1>1, MoveStep

\* A statement commits a change.
LEMMA CommitStep ==
    ASSUME TypeOK, NEW c \in Clients, NEW tables, NEW next \in OpRecord,
           op' = Committed(c, tables, next), rev' = rev + 1,
           op[c].pc \notin {"load", "fill"},
           next.pc \notin {"load", "fill", "install", "wait"},
           next.seen \in {0, op[c].seen},
           agent' \in AgentRow, cap' \in CapRow,
           ops' \in 0..MaxOps, UNCHANGED <<perTenant, registry>>
    PROVE  TypeOK' /\ Neutral(c)
<1>1. UNCHANGED <<perTenant, cached, lock, overtaken, refreshed>>
    BY DEF registry
<1>2. /\ op' \in [Clients -> OpRecord]
      /\ op'[c].pc = next.pc /\ op'[c].at = rev + 1 /\ op'[c].seen = next.seen
      /\ \A d \in Clients \ {c} :
           /\ op'[d].pc = op[d].pc /\ op'[d].at = op[d].at
           /\ op'[d].seen = op[d].seen /\ op'[d].late = op[d].late
    BY CommittedType
<1>3. TypeOK'
    BY <1>1, <1>2 DEF TypeOK
<1>4. Neutral(c)
    BY <1>1, <1>2 DEF Neutral, registry
<1> QED
    BY <1>3, <1>4

-----------------------------------------------------------------------------
(* The requests are neutral to the registry.                               *)

\* What a row keeps when one of its parts is replaced.
LEMMA RowTypes ==
    ASSUME TypeOK
    PROVE  /\ agent.val \in Values(AgentFields) /\ cap.val \in Values(CapFields)
           /\ agent.system \in BOOLEAN /\ cap.id \in Nat
           /\ AgentFields \in SUBSET Fields /\ CapFields \in SUBSET Fields
           /\ \A v \in Values(AgentFields), l \in BOOLEAN :
                /\ [agent EXCEPT !.val = v] \in AgentRow
                /\ [agent EXCEPT !.live = l, !.val = v] \in AgentRow
           /\ \A v \in Values(CapFields), l \in BOOLEAN :
                /\ [cap EXCEPT !.val = v] \in CapRow
                /\ [cap EXCEPT !.live = l, !.val = v] \in CapRow
BY DEF TypeOK, AgentRow, CapRow, Fields

\* A value of which one field is replaced by a bit stays a value.
LEMMA ExceptType ==
    ASSUME NEW F, NEW v \in Values(F), NEW f, NEW b \in Bit
    PROVE  [v EXCEPT ![f] = b] \in Values(F)
BY DEF Values

\* Zero and one are bits.
LEMMA Bits == 0 \in Bit /\ 1 \in Bit
BY DEF Bit

\* The requests of the HTTP agent service.
LEMMA HTTPRequests ==
    ASSUME TypeOK, NEW c \in Clients,
           \/ CreateAgent(c) \/ UpdateAgent(c) \/ PatchAgent(c) \/ DeleteAgent(c)
    PROVE  TypeOK' /\ Neutral(c)
<1>1. CASE CreateAgent(c)
  <2> DEFINE val(mcp) == [Uniform(AgentFields, 1) EXCEPT !["mcp"] = mcp]
             write(mcp, kb, n) == Rewrite(AgentFields, val(mcp), kb, n)
             assoc(mcp, kb, n) == [write(mcp, kb, n) EXCEPT !.pc = "assoc"]
             next(mcp, kb, n) ==
               IF mcp = 0 THEN AfterWrite(assoc(mcp, kb, n)) ELSE assoc(mcp, kb, n)
  <2>1. PICK mcp \in Bit, kb \in BOOLEAN, n \in HTTPAgentReloads :
          /\ agent' = [live |-> TRUE, system |-> FALSE, val |-> [val(mcp) EXCEPT !["mcp"] = 0]]
          /\ op' = Committed(c, {"agent"}, next(mcp, kb, n))
      BY <1>1, Zenon DEF CreateAgent
  <2>2. val(mcp) \in Values(AgentFields) /\ [val(mcp) EXCEPT !["mcp"] = 0] \in Values(AgentFields)
    <3>1. Uniform(AgentFields, 1) \in Values(AgentFields)
        BY UniformType, Bits
    <3>2. val(mcp) \in Values(AgentFields)
        BY <3>1, ExceptType
    <3> QED
        BY <3>2, ExceptType, Bits
  <2>3. /\ write(mcp, kb, n) \in OpRecord /\ write(mcp, kb, n).table = "agent"
        /\ write(mcp, kb, n).at = 0 /\ write(mcp, kb, n).seen = 0
    <3>1. AgentFields \in SUBSET Fields
        BY RowTypes
    <3> QED
        BY <2>2, <3>1, RewriteType, ReloadsType
  <2>4. /\ assoc(mcp, kb, n) \in OpRecord /\ assoc(mcp, kb, n).pc = "assoc"
        /\ assoc(mcp, kb, n).at = 0 /\ assoc(mcp, kb, n).seen = 0
    <3> HIDE DEF write
    <3> QED
        BY <2>3 DEF OpRecord, OpShape, PCs
  <2>5. /\ next(mcp, kb, n) \in OpRecord /\ next(mcp, kb, n).pc \in {"assoc", "kb", "refresh"}
        /\ next(mcp, kb, n).seen = 0
    <3> HIDE DEF assoc
    <3> QED
        BY <2>4, AfterWriteType
  <2>6. agent' \in AgentRow
    <3> HIDE DEF val
    <3> QED
        BY <2>1, <2>2 DEF AgentRow
  <2>7. /\ rev' = rev + 1 /\ ops' \in 0..MaxOps /\ op[c].pc = "idle"
        /\ UNCHANGED <<perTenant, cap, registry>>
      BY <1>1, MaxOpsAssumption DEF CreateAgent, CanStart, TypeOK
  <2>8. cap' \in CapRow
      BY <2>7 DEF TypeOK
  <2> HIDE DEF next
  <2> QED
      BY <2>1, <2>5, <2>6, <2>7, <2>8, CommitStep
<1>2. CASE UpdateAgent(c)
  <2>1. PICK tools \in Bit, kb \in BOOLEAN, n \in HTTPAgentReloads,
             named \in {AgentFields, AgentFields \ {"tools"}} :
          LET new == [Uniform(AgentFields, 1) EXCEPT !["tools"] = tools]
          IN  Begin(c, Rewrite(named, Merged(agent.val, named, new), kb, n))
      BY <1>2 DEF UpdateAgent
  <2> DEFINE new == [Uniform(AgentFields, 1) EXCEPT !["tools"] = tools]
             request == Rewrite(named, Merged(agent.val, named, new), kb, n)
  <2>2. new \in Values(AgentFields)
    <3>1. Uniform(AgentFields, 1) \in Values(AgentFields)
        BY UniformType, Bits
    <3> QED
        BY <3>1, ExceptType
  <2>3. Merged(agent.val, named, new) \in Values(AgentFields)
      BY <2>2, RowTypes, MergedType
  <2>4. named \in SUBSET Fields
      BY DEF Fields
  <2>5. /\ request \in OpRecord /\ request.pc = "write"
        /\ request.at = 0 /\ request.seen = 0
      BY <2>3, <2>4, RewriteType, ReloadsType
  <2>6. Begin(c, request)
      BY <2>1
  <2> HIDE DEF request
  <2> QED
      BY <2>5, <2>6, BeginStep
<1>3. CASE PatchAgent(c)
  <2>1. PICK f \in AgentFields, kb \in BOOLEAN, n \in HTTPAgentReloads :
          Begin(c, Rewrite({f}, Merged(agent.val, {f}, Other(agent.val)), kb, n))
      BY <1>3 DEF PatchAgent
  <2> DEFINE request == Rewrite({f}, Merged(agent.val, {f}, Other(agent.val)), kb, n)
  <2>2. Merged(agent.val, {f}, Other(agent.val)) \in Values(AgentFields)
      BY RowTypes, MergedType, OtherType
  <2>3. {f} \in SUBSET Fields
      BY DEF Fields
  <2>4. /\ request \in OpRecord /\ request.pc = "write"
        /\ request.at = 0 /\ request.seen = 0
      BY <2>2, <2>3, RewriteType, ReloadsType
  <2> HIDE DEF request
  <2> QED
      BY <2>1, <2>4, BeginStep DEF request
<1>4. CASE DeleteAgent(c)
  <2>0. PICK n \in HTTPAgentReloads : Begin(c, [Refresh(n) EXCEPT !.pc = "dropCaps"])
      BY <1>4 DEF DeleteAgent
  <2> DEFINE request == [Refresh(n) EXCEPT !.pc = "dropCaps"]
  <2>1. /\ request \in OpRecord /\ request.pc = "dropCaps"
        /\ request.at = 0 /\ request.seen = 0
      BY RefreshType, ReloadsType DEF OpRecord, OpShape, PCs
  <2>2. Begin(c, request)
      BY <2>0
  <2> HIDE DEF request
  <2> QED
      BY <2>1, <2>2, BeginStep
<1> QED
    BY <1>1, <1>2, <1>3, <1>4

\* A rewrite by an admin tool.
LEMMA AdminRewriteStep ==
    ASSUME TypeOK, NEW c \in Clients, NEW named \in SUBSET Fields,
           NEW val \in Values(AgentFields), Begin(c, AdminRewrite(named, val))
    PROVE  TypeOK' /\ Neutral(c)
<1> DEFINE request == AdminRewrite(named, val)
           zeroed == [val EXCEPT !["policy"] = 0]
<1>1. zeroed \in Values(AgentFields)
    BY ExceptType, Bits
<1>2. named \cup {"policy"} \in SUBSET Fields
    BY DEF Fields, AgentFields
<1>3. request = Rewrite(named \cup {"policy"}, zeroed, FALSE, 1)
    BY DEF AdminRewrite
<1> HIDE DEF zeroed
<1>4. /\ request \in OpRecord /\ request.pc = "write"
      /\ request.at = 0 /\ request.seen = 0
    BY <1>1, <1>2, <1>3, RewriteOnceType
<1> HIDE DEF request
<1> QED
    BY <1>4, BeginStep DEF request

\* The requests of the admin tools that write the agent.
LEMMA AdminRequests ==
    ASSUME TypeOK, NEW c \in Clients,
           \/ AdminCreateAgent(c) \/ AdminUpdateAgent(c) \/ AdminDeleteAgent(c)
           \/ AdminAttachMCPServer(c) \/ AdminDetachMCPServer(c)
           \/ AdminAddBuiltinTool(c) \/ AdminRemoveBuiltinTool(c)
    PROVE  TypeOK' /\ Neutral(c)
<1>1. CASE AdminCreateAgent(c)
  <2>1. PICK tools \in Bit :
          agent' = [live |-> TRUE, system |-> FALSE,
                    val |-> [Uniform(AgentFields, 0) EXCEPT !["prompt"] = 1, !["tools"] = tools]]
      BY <1>1 DEF AdminCreateAgent
  <2>2. Uniform(AgentFields, 0) \in Values(AgentFields)
      BY UniformType, Bits
  <2>3. [Uniform(AgentFields, 0) EXCEPT !["prompt"] = 1, !["tools"] = tools] \in Values(AgentFields)
      BY <2>2, Bits DEF Values
  <2>4. agent' \in AgentRow
      BY <2>1, <2>3 DEF AgentRow
  <2>5. /\ rev' = rev + 1 /\ ops' \in 0..MaxOps /\ op[c].pc = "idle"
        /\ op' = Committed(c, {"agent"}, Refresh(1))
        /\ UNCHANGED <<perTenant, cap, registry>>
      BY <1>1, MaxOpsAssumption DEF AdminCreateAgent, CanStart, TypeOK
  <2>6. cap' \in CapRow
      BY <2>5 DEF TypeOK
  <2> QED
      BY <2>4, <2>5, <2>6, RefreshType, CommitStep
<1>2. CASE AdminUpdateAgent(c)
  <2>1. PICK named \in {{"prompt"}, {"tools"}} :
          Begin(c, AdminRewrite(named \cup {"mcp"},
                     [Merged(agent.val, named, Uniform(AgentFields, 1)) EXCEPT !["mcp"] = 0]))
      BY <1>2 DEF AdminUpdateAgent
  <2>2. Merged(agent.val, named, Uniform(AgentFields, 1)) \in Values(AgentFields)
      BY RowTypes, MergedType, UniformType, Bits
  <2>3. [Merged(agent.val, named, Uniform(AgentFields, 1)) EXCEPT !["mcp"] = 0] \in Values(AgentFields)
      BY <2>2, ExceptType, Bits
  <2>4. named \cup {"mcp"} \in SUBSET Fields
      BY DEF Fields, AgentFields
  <2> QED
      BY <2>1, <2>3, <2>4, AdminRewriteStep
<1>3. CASE AdminDeleteAgent(c)
  <2> DEFINE request == [Refresh(1) EXCEPT !.pc = "delete"]
  <2>1. /\ request \in OpRecord /\ request.pc = "delete"
        /\ request.at = 0 /\ request.seen = 0
      BY RefreshType DEF OpRecord, OpShape, PCs
  <2>2. Begin(c, request)
      BY <1>3 DEF AdminDeleteAgent
  <2> HIDE DEF request
  <2> QED
      BY <2>1, <2>2, BeginStep
<1>4. ASSUME NEW f \in AgentFields, NEW v \in Bit, Attachment(c, f, v)
      PROVE  TypeOK' /\ Neutral(c)
  <2>1. [agent.val EXCEPT ![f] = v] \in Values(AgentFields)
      BY RowTypes, ExceptType
  <2>2. {f} \in SUBSET Fields
      BY DEF Fields
  <2> QED
      BY <1>4, <2>1, <2>2, AdminRewriteStep DEF Attachment
<1>5. CASE \/ AdminAttachMCPServer(c) \/ AdminDetachMCPServer(c)
           \/ AdminAddBuiltinTool(c) \/ AdminRemoveBuiltinTool(c)
    BY <1>4, <1>5, Bits DEF AgentFields, AdminAttachMCPServer, AdminDetachMCPServer,
        AdminAddBuiltinTool, AdminRemoveBuiltinTool
<1> QED
    BY <1>1, <1>2, <1>3, <1>5

\* A new capability.
LEMMA InsertStep ==
    ASSUME TypeOK, NEW c \in Clients, NEW e \in Bit, NEW n \in 0..2,
           InsertCapability(c, [config |-> 1, enabled |-> e], n)
    PROVE  TypeOK' /\ Neutral(c)
<1> DEFINE val == [config |-> 1, enabled |-> e]
<1>1. val \in Values(CapFields)
    BY Bits DEF Values, CapFields
<1>2. cap' \in CapRow
  <2>1. cap' = [live |-> TRUE, id |-> cap.id + 1, val |-> val]
      BY DEF InsertCapability
  <2>2. cap.id + 1 \in Nat
      BY DEF TypeOK, CapRow
  <2> HIDE DEF val
  <2> QED
      BY <1>1, <2>1, <2>2 DEF CapRow
<1>3. /\ rev' = rev + 1 /\ ops' \in 0..MaxOps /\ op[c].pc = "idle"
      /\ op' = Committed(c, {"cap"}, Refresh(n))
      /\ UNCHANGED <<perTenant, agent, registry>>
    BY MaxOpsAssumption DEF InsertCapability, CanStart, TypeOK
<1>4. agent' \in AgentRow
    BY <1>3 DEF TypeOK
<1> QED
    BY <1>2, <1>3, <1>4, RefreshType, CommitStep

\* The requests about the capability.
LEMMA CapabilityRequests ==
    ASSUME TypeOK, NEW c \in Clients,
           \/ AddCapability(c) \/ AdminAddCapability(c)
           \/ UpdateCapability(c) \/ RemoveCapability(c)
    PROVE  TypeOK' /\ Neutral(c)
<1>1. CASE AddCapability(c) \/ AdminAddCapability(c)
  <2>1. 1 \in 0..2
      OBVIOUS
  <2> QED
      BY <1>1, <2>1, InsertStep, Bits, ReloadsType DEF AddCapability, AdminAddCapability
<1>2. CASE UpdateCapability(c)
  <2>1. PICK f \in CapFields, n \in CapabilityReloads :
          Begin(c, [Rewrite({f}, Merged(cap.val, {f}, Other(cap.val)), FALSE, n)
                      EXCEPT !.table = "cap", !.id = cap.id])
      BY <1>2 DEF UpdateCapability
  <2> DEFINE val == Merged(cap.val, {f}, Other(cap.val))
             write == Rewrite({f}, val, FALSE, n)
             request == [write EXCEPT !.table = "cap", !.id = cap.id]
  <2>2. val \in Values(CapFields)
      BY RowTypes, MergedType, OtherType
  <2>3. {f} \in SUBSET Fields
      BY DEF Fields
  <2>5. cap.id \in Nat
      BY DEF TypeOK, CapRow
  <2>6. Begin(c, request)
      BY <2>1
  <2> HIDE DEF val
  <2>7. /\ write \in OpShape /\ write.val \in Values(CapFields)
        /\ write.pc = "write" /\ write.at = 0 /\ write.seen = 0
      BY <2>2, <2>3, RewriteCapType, ReloadsType
  <2> HIDE DEF write
  <2>8. /\ request \in OpShape /\ request.table = "cap" /\ request.val \in Values(CapFields)
        /\ request.pc = "write" /\ request.at = 0 /\ request.seen = 0
      BY <2>5, <2>7 DEF OpShape
  <2> HIDE DEF request
  <2>9. request \in OpRecord
      BY <2>2, <2>8 DEF OpRecord
  <2> QED
      BY <2>6, <2>8, <2>9, BeginStep
<1>3. CASE RemoveCapability(c)
  <2>1. Uniform(CapFields, 0) \in Values(CapFields)
      BY UniformType, Bits
  <2>2. cap' \in CapRow
      BY <1>3, <2>1, RowTypes DEF RemoveCapability
  <2>0. PICK n \in CapabilityReloads : op' = Committed(c, {"cap"}, Refresh(n))
      BY <1>3 DEF RemoveCapability
  <2>3. /\ rev' = rev + 1 /\ ops' \in 0..MaxOps /\ op[c].pc = "idle"
        /\ UNCHANGED <<perTenant, agent, registry>>
      BY <1>3, MaxOpsAssumption DEF RemoveCapability, CanStart, TypeOK
  <2>4. agent' \in AgentRow
      BY <2>3 DEF TypeOK
  <2> QED
      BY <2>0, <2>2, <2>3, <2>4, RefreshType, ReloadsType, CommitStep
<1> QED
    BY <1>1, <1>2, <1>3

\* The requests of a single tenant, and the lookup of a chat.
LEMMA OtherRequests ==
    ASSUME TypeOK, NEW c \in Clients,
           \/ ImportYAML(c) \/ ReloadConfig(c) \/ RestoreBuilderAssistant(c)
           \/ GetForContext(c)
    PROVE  TypeOK' /\ Neutral(c)
<1>1. CASE ImportYAML(c)
  <2>1. Uniform(AgentFields, 1) \in Values(AgentFields)
      BY UniformType, Bits
  <2>2. agent' \in AgentRow
      BY <1>1, <2>1, RowTypes DEF ImportYAML
  <2>3. /\ rev' = rev + 1 /\ ops' \in 0..MaxOps /\ op[c].pc = "idle"
        /\ op' = Committed(c, {"agent"}, Refresh(1))
        /\ UNCHANGED <<perTenant, cap, registry>>
      BY <1>1, MaxOpsAssumption DEF ImportYAML, CanStart, TypeOK
  <2>4. cap' \in CapRow
      BY <2>3 DEF TypeOK
  <2> QED
      BY <2>2, <2>3, <2>4, RefreshType, CommitStep
<1>2. CASE ReloadConfig(c)
    BY <1>2, RefreshType, BeginStep DEF ReloadConfig
<1>3. CASE RestoreBuilderAssistant(c)
  <2> DEFINE val == [Uniform(AgentFields, 1) EXCEPT !["policy"] = 0]
             request == Rewrite(AgentFields, val, FALSE, 1)
  <2>1. Uniform(AgentFields, 1) \in Values(AgentFields)
      BY UniformType, Bits
  <2>2. val \in Values(AgentFields)
      BY <2>1, ExceptType, Bits
  <2>3. /\ request \in OpRecord /\ request.pc = "write"
        /\ request.at = 0 /\ request.seen = 0
      BY <2>2, RowTypes, RewriteOnceType
  <2>4. Begin(c, request)
      BY <1>3 DEF RestoreBuilderAssistant
  <2> HIDE DEF request
  <2> QED
      BY <2>3, <2>4, BeginStep
<1>4. CASE GetForContext(c)
  <2> DEFINE request == [Idle EXCEPT !.pc = "wait"]
  <2>1. /\ request \in OpRecord /\ request.pc = "wait"
        /\ request.at = 0 /\ request.seen = 0
      BY IdleType DEF OpRecord, OpShape, PCs
  <2>2. Begin(c, request) /\ perTenant
      BY <1>4 DEF GetForContext
  <2> HIDE DEF request
  <2> QED
      BY <2>1, <2>2, BeginStep
<1> QED
    BY <1>1, <1>2, <1>3, <1>4

-----------------------------------------------------------------------------
(* So are the later statements of a request.                               *)

\* The statements of a request after its first.
LEMMA Statements ==
    ASSUME TypeOK, NEW c \in Clients,
           \/ CreateAssociations(c) \/ WriteRow(c) \/ ReplaceAgentKBs(c)
           \/ DropCapabilities(c) \/ DeleteRow(c) \/ InvalidateNothing(c)
    PROVE  TypeOK' /\ Neutral(c)
<1>1. /\ op[c] \in OpRecord /\ ops \in 0..MaxOps
      /\ agent \in AgentRow /\ cap \in CapRow
    BY DEF TypeOK
<1>2. ASSUME Return(c), UNCHANGED <<perTenant, rows, registry, ops>>,
             op[c].pc \notin {"load", "fill"}
      PROVE  TypeOK' /\ Neutral(c)
    BY <1>1, <1>2, IdleType, MoveStep DEF Return
<1>3. /\ AfterWrite(op[c]) \in OpRecord /\ AfterWrite(op[c]).pc \in {"kb", "refresh"}
      /\ AfterWrite(op[c]).seen = 0
    BY <1>1, AfterWriteType
<1>4. CASE CreateAssociations(c)
  <2>1. CASE Return(c) /\ UNCHANGED <<agent, rev>>
      BY <1>2, <1>4, <2>1 DEF CreateAssociations, rows
  <2>2. CASE /\ agent.live
             /\ agent' = [agent EXCEPT !.val = [@ EXCEPT !["mcp"] = op[c].val["mcp"]]]
             /\ rev' = rev + 1
             /\ op' = Committed(c, {"agent"}, AfterWrite(op[c]))
    <3>1. op[c].pc = "assoc" /\ UNCHANGED <<perTenant, cap, registry, ops>>
        BY <1>4 DEF CreateAssociations
    <3>2. op[c].val["mcp"] \in Bit
        BY <1>1, <3>1 DEF OpRecord, Values, AgentFields
    <3>3. [agent.val EXCEPT !["mcp"] = op[c].val["mcp"]] \in Values(AgentFields)
        BY <3>2, RowTypes, ExceptType
    <3>4. agent' \in AgentRow
        BY <2>2, <3>3, RowTypes
    <3> QED
        BY <1>1, <1>3, <2>2, <3>1, <3>4, CommitStep
  <2> QED
      BY <1>4, <2>1, <2>2 DEF CreateAssociations
<1>5. CASE WriteRow(c)
  <2>1. op[c].pc = "write" /\ UNCHANGED <<perTenant, registry, ops>>
      BY <1>5 DEF WriteRow
  <2>2. CASE Return(c) /\ UNCHANGED rows
      BY <1>2, <2>1, <2>2
  <2>3. CASE /\ rev' = rev + 1 /\ op' = Committed(c, {op[c].table}, AfterWrite(op[c]))
             /\ \/ /\ op[c].table = "agent"
                   /\ agent' = [agent EXCEPT !.val = op[c].val] /\ UNCHANGED cap
                \/ /\ op[c].table # "agent"
                   /\ cap' = [cap EXCEPT !.val = op[c].val] /\ UNCHANGED agent
    <3>1. /\ op[c].table = "agent" => op[c].val \in Values(AgentFields)
          /\ op[c].table # "agent" => op[c].val \in Values(CapFields)
        BY <1>1 DEF OpRecord, OpShape
    <3>2. agent' \in AgentRow /\ cap' \in CapRow
        BY <1>1, <2>3, <3>1, RowTypes
    <3> QED
        BY <1>1, <1>3, <2>1, <2>3, <3>2, CommitStep
  <2> QED
      BY <1>5, <2>2, <2>3 DEF WriteRow
<1>6. CASE ReplaceAgentKBs(c)
  <2>1. CASE Return(c)
      BY <1>2, <1>6, <2>1 DEF ReplaceAgentKBs
  <2>2. CASE op' = [op EXCEPT ![c].pc = "refresh"]
    <3> DEFINE next == [op[c] EXCEPT !.pc = "refresh"]
    <3>1. /\ next \in OpRecord /\ next.pc = "refresh"
          /\ next.at = op[c].at /\ next.seen = op[c].seen
        BY <1>1 DEF OpRecord, OpShape, PCs
    <3>2. op' = [op EXCEPT ![c] = next]
        BY <2>2
    <3>3. op[c].pc = "kb" /\ UNCHANGED <<perTenant, rows, registry, ops>>
        BY <1>6 DEF ReplaceAgentKBs
    <3> HIDE DEF next
    <3> QED
        BY <1>1, <3>1, <3>2, <3>3, MoveStep
  <2> QED
      BY <1>6, <2>1, <2>2 DEF ReplaceAgentKBs
<1>7. CASE DropCapabilities(c)
  <2> DEFINE next == [op[c] EXCEPT !.pc = "delete"]
  <2>1. /\ next \in OpRecord /\ next.pc = "delete"
        /\ next.at = op[c].at /\ next.seen = op[c].seen
      BY <1>1 DEF OpRecord, OpShape, PCs
  <2>2. op[c].pc = "dropCaps" /\ UNCHANGED <<perTenant, agent, registry, ops>>
      BY <1>7 DEF DropCapabilities
  <2>3. CASE cap.live
    <3>1. /\ cap' = [cap EXCEPT !.live = FALSE, !.val = Uniform(CapFields, 0)]
          /\ rev' = rev + 1 /\ op' = Committed(c, {"cap"}, next)
        BY <1>7, <2>3 DEF DropCapabilities
    <3>2. cap' \in CapRow
        BY <3>1, RowTypes, UniformType, Bits
    <3> HIDE DEF next
    <3> QED
        BY <1>1, <2>1, <2>2, <3>1, <3>2, CommitStep
  <2>4. CASE ~cap.live
    <3>1. op' = [op EXCEPT ![c] = next] /\ UNCHANGED rows
        BY <1>7, <2>4 DEF DropCapabilities, rows
    <3> HIDE DEF next
    <3> QED
        BY <1>1, <2>1, <2>2, <3>1, MoveStep
  <2> QED
      BY <2>3, <2>4
<1>8. CASE DeleteRow(c)
  <2>1. CASE Return(c) /\ UNCHANGED rows
      BY <1>2, <1>8, <2>1 DEF DeleteRow
  <2>2. CASE /\ agent.live
             /\ agent' = [agent EXCEPT !.live = FALSE, !.val = Uniform(AgentFields, 0)]
             /\ cap' = [cap EXCEPT !.live = FALSE, !.val = Uniform(CapFields, 0)]
             /\ rev' = rev + 1
             /\ op' = Committed(c, {"agent", "cap"}, Refresh(op[c].reloads))
    <3>1. op[c].pc = "delete" /\ UNCHANGED <<perTenant, registry, ops>>
        BY <1>8 DEF DeleteRow
    <3>2. agent' \in AgentRow /\ cap' \in CapRow
        BY <2>2, RowTypes, UniformType, Bits
    <3>3. /\ Refresh(op[c].reloads) \in OpRecord
          /\ Refresh(op[c].reloads).pc = "refresh" /\ Refresh(op[c].reloads).seen = 0
        BY <1>1, RefreshType DEF OpRecord, OpShape
    <3> QED
        BY <1>1, <2>2, <3>1, <3>2, <3>3, CommitStep
  <2> QED
      BY <1>8, <2>1, <2>2 DEF DeleteRow
<1>9. CASE InvalidateNothing(c)
    BY <1>2, <1>9 DEF InvalidateNothing
<1> QED
    BY <1>4, <1>5, <1>6, <1>7, <1>8, <1>9

-----------------------------------------------------------------------------
(* The steps of the registry.                                              *)

RegistrySteps(c) ==
    \/ InvalidateTenant(c) \/ ReloadList(c) \/ ReloadInstall(c) \/ ReloadFails(c)
    \/ LockForLoad(c) \/ LoadList(c) \/ Fill(c) \/ LoadFails(c)

\* The reloads that are left are counted down to none.
LEMMA NextReloadType ==
    ASSUME NEW o \in OpRecord
    PROVE  /\ NextReload(o) \in OpRecord
           /\ NextReload(o).pc \in {"idle", "refresh"}
           /\ NextReload(o).at \in {0, o.at} /\ NextReload(o).seen = 0
<1>1. o.reloads \in 0..2 /\ o.at \in Nat
    BY DEF OpRecord, OpShape
<1>2. Idle \in OpShape /\ Idle.table = "agent" /\ Idle.val \in Values(AgentFields)
      /\ Idle.seen = 0
    BY IdleType DEF OpRecord, Idle
<1>3. CASE o.reloads > 1
  <2>1. o.reloads - 1 \in 0..2
      BY <1>1, <1>3
  <2> DEFINE n == [Idle EXCEPT !.pc = "refresh", !.reloads = o.reloads - 1, !.at = o.at]
  <2>2. /\ n \in OpShape /\ n.table = "agent" /\ n.val \in Values(AgentFields)
        /\ n.pc = "refresh" /\ n.at = o.at /\ n.seen = 0
      BY <1>1, <1>2, <2>1 DEF OpShape, PCs
  <2>3. NextReload(o) = n
      BY <1>3 DEF NextReload
  <2> HIDE DEF n
  <2> QED
      BY <2>2, <2>3 DEF OpRecord
<1>4. CASE ~(o.reloads > 1)
    BY <1>4, IdleType DEF NextReload
<1> QED
    BY <1>3, <1>4

\* Every step of the registry preserves the types.
LEMMA RegistryTypes ==
    ASSUME TypeOK, SeenInv, NEW c \in Clients, RegistrySteps(c)
    PROVE  TypeOK'
<1>1. op[c] \in OpRecord /\ op[c].at \in Nat /\ op[c].seen \in Nat
    BY DEF TypeOK, OpRecord, OpShape
<1>2. op[c].at <= rev /\ op[c].seen <= rev
    BY DEF SeenInv
<1>3. LaterOf(refreshed, op[c].at) \in 0..rev
    BY <1>1, <1>2 DEF LaterOf, TypeOK
<1>4. CASE InvalidateTenant(c)
    BY <1>3, <1>4, IdleType DEF InvalidateTenant, Return, TypeOK, rows
<1>5. CASE ReloadList(c)
  <2>1. [op[c] EXCEPT !.pc = "install", !.seen = rev, !.late = FALSE] \in OpRecord
      BY <1>1 DEF TypeOK, OpRecord, OpShape, PCs
  <2>2. op' = [op EXCEPT ![c] = [op[c] EXCEPT !.pc = "install", !.seen = rev, !.late = FALSE]]
      BY <1>5 DEF ReloadList
  <2> QED
      BY <1>5, <2>1, <2>2 DEF ReloadList, TypeOK, rows, registry
<1>6. CASE ReloadInstall(c)
  <2> DEFINE other(d) == [op[d] EXCEPT !.late = @ \/ op[d].pc = "install"]
  <2>1. ASSUME NEW d \in Clients
        PROVE  other(d) \in OpRecord
    <3>1. op[d] \in OpRecord /\ (op[d].late \/ op[d].pc = "install") \in BOOLEAN
        BY DEF TypeOK
    <3> QED
        BY <3>1 DEF OpRecord, OpShape
  <2>2. op' = [d \in Clients |-> IF d = c THEN NextReload(op[c]) ELSE other(d)]
      BY <1>6 DEF ReloadInstall
  <2>3. op' \in [Clients -> OpRecord]
      BY <1>1, <2>1, <2>2, NextReloadType
  <2>4. op[c].late \in BOOLEAN
      BY <1>1 DEF OpRecord, OpShape
  <2>5. refreshed' \in 0..rev
      BY <1>3, <1>6 DEF ReloadInstall, TypeOK
  <2>6. cached' = op[c].seen /\ overtaken' = op[c].late
        /\ UNCHANGED <<perTenant, agent, cap, rev, lock, ops>>
      BY <1>6 DEF ReloadInstall, Installed, rows
  <2> QED
      BY <1>1, <1>2, <2>3, <2>4, <2>5, <2>6 DEF TypeOK
<1>7. CASE ReloadFails(c)
    BY <1>1, <1>7, NextReloadType DEF ReloadFails, TypeOK, rows, registry
<1>8. CASE LockForLoad(c)
  <2>1. [op[c] EXCEPT !.pc = "load"] \in OpRecord
      BY <1>1 DEF OpRecord, OpShape, PCs
  <2>2. /\ \/ op' = [op EXCEPT ![c] = [op[c] EXCEPT !.pc = "load"]]
           \/ op' = [op EXCEPT ![c] = Idle]
        /\ lock' \in {lock, c}
        /\ UNCHANGED <<perTenant, agent, cap, rev, cached, overtaken, refreshed, ops>>
      BY <1>8 DEF LockForLoad, Return, rows
  <2> QED
      BY <2>1, <2>2, IdleType DEF TypeOK
<1>9. CASE LoadList(c)
  <2>1. [op[c] EXCEPT !.pc = "fill", !.seen = rev] \in OpRecord
      BY <1>1 DEF TypeOK, OpRecord, OpShape, PCs
  <2>2. op' = [op EXCEPT ![c] = [op[c] EXCEPT !.pc = "fill", !.seen = rev]]
      BY <1>9 DEF LoadList
  <2> QED
      BY <1>9, <2>1, <2>2 DEF LoadList, TypeOK, rows, registry
<1>10. CASE Fill(c)
    BY <1>1, <1>2, <1>10, IdleType DEF Fill, Return, TypeOK, rows
<1>11. CASE LoadFails(c)
    BY <1>11, IdleType DEF LoadFails, Return, TypeOK, rows
<1> QED
    BY <1>4, <1>5, <1>6, <1>7, <1>8, <1>9, <1>10, <1>11 DEF RegistrySteps

-----------------------------------------------------------------------------
(* The invariant.                                                          *)

\* At the start nothing is acknowledged and nobody is busy.
LEMMA InitIInv == Init => IInv
<1> SUFFICES ASSUME Init PROVE IInv
    OBVIOUS
<1>1. /\ Uniform(AgentFields, 0) \in Values(AgentFields)
      /\ Uniform(AgentFields, 1) \in Values(AgentFields)
      /\ Uniform(CapFields, 0) \in Values(CapFields)
    BY UniformType, Bits
<1>2. agent \in AgentRow
  <2> DEFINE v0 == Uniform(AgentFields, 0)
             v1 == Uniform(AgentFields, 1)
  <2>1. agent \in {[live |-> TRUE, system |-> TRUE, val |-> v1],
                   [live |-> TRUE, system |-> FALSE, val |-> v1],
                   [live |-> FALSE, system |-> FALSE, val |-> v0]}
      BY DEF Init
  <2>2. v0 \in Values(AgentFields) /\ v1 \in Values(AgentFields)
      BY <1>1
  <2> HIDE DEF v0, v1
  <2>3. ASSUME NEW l \in BOOLEAN, NEW y \in BOOLEAN, NEW v \in {v0, v1}
        PROVE  [live |-> l, system |-> y, val |-> v] \in AgentRow
      BY <2>2 DEF AgentRow
  <2> QED
      BY <2>1, <2>3
<1>3. cap \in CapRow
    BY <1>1 DEF Init, CapRow
<1>4. \A c \in Clients : op[c] = Idle
    BY DEF Init
<1>5. TypeOK
  <2>1. op \in [Clients -> OpRecord]
      BY IdleType DEF Init
  <2>2. /\ perTenant \in BOOLEAN /\ rev = 1 /\ cached \in 0..1 /\ refreshed = 0
        /\ lock = None /\ overtaken = FALSE /\ ops = 0
      BY DEF Init
  <2>3. rev \in Nat \ {0} /\ cached \in 0..rev /\ refreshed \in 0..rev
      BY <2>2
  <2>4. ops \in 0..MaxOps
      BY <2>2, MaxOpsAssumption
  <2>5. lock \in Clients \cup {None} /\ overtaken \in BOOLEAN
      BY <2>2
  <2> QED
      BY <1>2, <1>3, <2>1, <2>2, <2>3, <2>4, <2>5 DEF TypeOK
<1>6. SeenInv /\ LoadInv /\ ReloadInv
    BY <1>4, IdleType DEF Init, SeenInv, LoadInv, ReloadInv
<1>7. StaleOnlyIfOvertaken
    BY DEF Init, StaleOnlyIfOvertaken
<1> QED
    BY <1>5, <1>6, <1>7 DEF IInv

\* A step that is neutral to the registry preserves the invariant.
LEMMA NeutralIInv ==
    ASSUME IInv, NEW c \in Clients, TypeOK', Neutral(c)
    PROVE  IInv'
<1>1. /\ UNCHANGED <<perTenant, cached, lock, overtaken, refreshed>>
      /\ rev \in Nat /\ rev' \in {rev, rev + 1}
    BY DEF Neutral, registry, IInv, TypeOK
<1>2. \A d \in Clients : op[d].at \in Nat /\ op[d].seen \in Nat
    BY DEF IInv, TypeOK, OpRecord, OpShape
<1>3. SeenInv'
    BY <1>1, <1>2 DEF Neutral, IInv, SeenInv
<1>4. LoadInv'
  <2> SUFFICES ASSUME NEW d \in Clients
               PROVE  (/\ op[d].pc \in {"wait", "load", "fill"} => perTenant
                       /\ op[d].pc \in {"load", "fill"} => lock = d
                       /\ op[d].pc = "fill" => refreshed <= op[d].seen)'
      BY DEF LoadInv
  <2>1. CASE d = c
      BY <1>1, <2>1 DEF Neutral
  <2>2. CASE d # c
      BY <1>1, <2>2 DEF Neutral, IInv, LoadInv
  <2> QED
      BY <2>1, <2>2
<1>5. ReloadInv'
  <2> SUFFICES ASSUME NEW d \in Clients, op'[d].pc = "install"
               PROVE  (/\ ~perTenant
                       /\ op[d].at <= op[d].seen
                       /\ ~op[d].late => refreshed <= op[d].seen)'
      BY DEF ReloadInv
  <2>1. d # c
      BY DEF Neutral
  <2> QED
      BY <1>1, <2>1 DEF Neutral, IInv, ReloadInv
<1>6. StaleOnlyIfOvertaken'
    BY <1>1 DEF IInv, StaleOnlyIfOvertaken
<1> QED
    BY <1>3, <1>4, <1>5, <1>6 DEF IInv

\* The steps of the registry preserve the invariant.
LEMMA RegistryIInv ==
    ASSUME IInv, NEW c \in Clients, RegistrySteps(c)
    PROVE  IInv'
<1>1. TypeOK'
    BY RegistryTypes DEF IInv
<1>2. /\ rev \in Nat /\ refreshed \in Nat /\ refreshed <= rev /\ cached \in Nat
      /\ \A d \in Clients : /\ op[d] \in OpRecord
                            /\ op[d].at \in Nat /\ op[d].seen \in Nat
                            /\ op[d].late \in BOOLEAN
    BY DEF IInv, TypeOK, OpRecord, OpShape
<1>3. op[c].at <= rev /\ op[c].seen <= rev
    BY DEF IInv, SeenInv
<1>4. op \in [Clients -> OpRecord]
    BY DEF IInv, TypeOK
<1>5. Idle.pc = "idle" /\ Idle.at = 0 /\ Idle.seen = 0
    BY IdleType
<1>6. CASE InvalidateTenant(c)
  <2>1. /\ perTenant /\ lock = None /\ op[c].pc = "refresh" /\ cached' = 0
        /\ op' = [op EXCEPT ![c] = Idle]
        /\ UNCHANGED <<perTenant, rev, lock, overtaken>>
      BY <1>6 DEF InvalidateTenant, MutexFree, Return, rows
  <2>2. /\ op'[c] = Idle /\ \A d \in Clients \ {c} : op'[d] = op[d]
      BY <1>4, <2>1
  <2>3. \A d \in Clients : op[d].pc \notin {"load", "fill", "install"}
      BY <2>1, NoneAssumption DEF IInv, LoadInv, ReloadInv
  <2>4. SeenInv' /\ LoadInv' /\ ReloadInv' /\ StaleOnlyIfOvertaken'
      BY <1>2, <1>5, <2>1, <2>2, <2>3
      DEF IInv, SeenInv, LoadInv, ReloadInv, StaleOnlyIfOvertaken
  <2> QED
      BY <1>1, <2>4 DEF IInv
<1>7. CASE ReloadList(c)
  <2> DEFINE next == [op[c] EXCEPT !.pc = "install", !.seen = rev, !.late = FALSE]
  <2>1. /\ ~perTenant /\ op' = [op EXCEPT ![c] = next]
        /\ UNCHANGED <<perTenant, rev, cached, lock, overtaken, refreshed>>
      BY <1>7 DEF ReloadList, rows, registry
  <2>2. next.pc = "install" /\ next.seen = rev /\ next.at = op[c].at
      BY <1>2 DEF OpRecord, OpShape
  <2> HIDE DEF next
  <2>3. /\ op'[c] = next /\ \A d \in Clients \ {c} : op'[d] = op[d]
      BY <1>4, <2>1
  <2>4. SeenInv' /\ LoadInv' /\ ReloadInv' /\ StaleOnlyIfOvertaken'
      BY <1>2, <1>3, <2>1, <2>2, <2>3
      DEF IInv, SeenInv, LoadInv, ReloadInv, StaleOnlyIfOvertaken
  <2> QED
      BY <1>1, <2>4 DEF IInv
<1>8. CASE ReloadInstall(c)
  <2>1. /\ op[c].pc = "install" /\ cached' = op[c].seen /\ overtaken' = op[c].late
        /\ refreshed' \in {refreshed, LaterOf(refreshed, op[c].at)}
        /\ UNCHANGED <<perTenant, rev, lock>>
      BY <1>8 DEF ReloadInstall, Installed, rows
  <2>2. /\ op[c].at <= op[c].seen /\ ~perTenant
        /\ ~op[c].late => refreshed <= op[c].seen
      BY <2>1 DEF IInv, ReloadInv
  <2>3. /\ refreshed' \in Nat /\ (~op[c].late => refreshed' <= op[c].seen)
      BY <1>2, <2>1, <2>2 DEF LaterOf
  <2>4. /\ op'[c].pc \in {"idle", "refresh"} /\ op'[c].at \in {0, op[c].at}
        /\ op'[c].seen = 0
      BY <1>2, <1>8, NextReloadType DEF ReloadInstall
  <2>5. ASSUME NEW d \in Clients \ {c}
        PROVE  /\ op'[d].pc = op[d].pc /\ op'[d].at = op[d].at
               /\ op'[d].seen = op[d].seen
               /\ op[d].pc = "install" => op'[d].late
    <3>1. op'[d] = [op[d] EXCEPT !.late = op[d].late \/ op[d].pc = "install"]
        BY <1>8 DEF ReloadInstall
    <3>2. op[d] \in OpRecord
        BY <1>2
    <3> QED
        BY <3>1, <3>2 DEF OpRecord, OpShape
  <2>6. SeenInv'
      BY <1>2, <1>3, <2>1, <2>4, <2>5 DEF IInv, SeenInv
  <2>7. LoadInv'
      BY <2>1, <2>2, <2>4, <2>5 DEF IInv, LoadInv
  <2>8. ReloadInv'
      BY <2>1, <2>4, <2>5 DEF IInv, ReloadInv
  <2>9. StaleOnlyIfOvertaken'
      BY <1>2, <2>1, <2>3 DEF StaleOnlyIfOvertaken
  <2> QED
      BY <1>1, <2>6, <2>7, <2>8, <2>9 DEF IInv
<1>9. CASE ReloadFails(c)
  <2>1. /\ op' = [op EXCEPT ![c] = NextReload(op[c])]
        /\ UNCHANGED <<perTenant, rev, cached, lock, overtaken, refreshed>>
      BY <1>9 DEF ReloadFails, rows, registry
  <2>2. /\ op'[c].pc \in {"idle", "refresh"} /\ op'[c].at \in {0, op[c].at}
        /\ op'[c].seen = 0
      BY <1>2, <1>4, <2>1, NextReloadType
  <2>3. \A d \in Clients \ {c} : op'[d] = op[d]
      BY <1>4, <2>1
  <2>4. SeenInv' /\ LoadInv' /\ ReloadInv' /\ StaleOnlyIfOvertaken'
      BY <1>2, <1>3, <2>1, <2>2, <2>3
      DEF IInv, SeenInv, LoadInv, ReloadInv, StaleOnlyIfOvertaken
  <2> QED
      BY <1>1, <2>4 DEF IInv
<1>10. CASE LockForLoad(c)
  <2>1. /\ op[c].pc = "wait" /\ lock = None
        /\ UNCHANGED <<perTenant, rev, cached, overtaken, refreshed>>
      BY <1>10 DEF LockForLoad, MutexFree, rows
  <2>2. perTenant /\ \A d \in Clients : op[d].pc \notin {"load", "fill", "install"}
      BY <2>1, NoneAssumption DEF IInv, LoadInv, ReloadInv
  <2>3. \A d \in Clients \ {c} : op'[d] = op[d]
      BY <1>4, <1>10 DEF LockForLoad, Return
  <2>4. \/ op'[c] = Idle
        \/ /\ op'[c].pc = "load" /\ op'[c].at = op[c].at /\ op'[c].seen = op[c].seen
           /\ lock' = c
    <3>1. op[c] \in OpShape
        BY <1>2 DEF OpRecord
    <3>2. \/ op' = [op EXCEPT ![c] = Idle]
          \/ op' = [op EXCEPT ![c] = [op[c] EXCEPT !.pc = "load"]] /\ lock' = c
        BY <1>10 DEF LockForLoad, Return
    <3> QED
        BY <1>4, <3>1, <3>2 DEF OpShape
  <2>5. SeenInv' /\ LoadInv' /\ ReloadInv' /\ StaleOnlyIfOvertaken'
      BY <1>2, <1>3, <1>5, <2>1, <2>2, <2>3, <2>4
      DEF IInv, SeenInv, LoadInv, ReloadInv, StaleOnlyIfOvertaken
  <2> QED
      BY <1>1, <2>5 DEF IInv
<1>11. CASE LoadList(c)
  <2> DEFINE next == [op[c] EXCEPT !.pc = "fill", !.seen = rev]
  <2>1. /\ op[c].pc = "load" /\ op' = [op EXCEPT ![c] = next]
        /\ UNCHANGED <<perTenant, rev, cached, lock, overtaken, refreshed>>
      BY <1>11 DEF LoadList, rows, registry
  <2>2. next.pc = "fill" /\ next.seen = rev /\ next.at = op[c].at
      BY <1>2 DEF OpRecord, OpShape
  <2> HIDE DEF next
  <2>3. /\ op'[c] = next /\ \A d \in Clients \ {c} : op'[d] = op[d]
      BY <1>4, <2>1
  <2>4. SeenInv' /\ LoadInv' /\ ReloadInv' /\ StaleOnlyIfOvertaken'
      BY <1>2, <1>3, <2>1, <2>2, <2>3
      DEF IInv, SeenInv, LoadInv, ReloadInv, StaleOnlyIfOvertaken
  <2> QED
      BY <1>1, <2>4 DEF IInv
<1>12. CASE Fill(c) \/ LoadFails(c)
  <2>1. /\ op[c].pc \in {"load", "fill"} /\ op' = [op EXCEPT ![c] = Idle]
        /\ UNCHANGED <<perTenant, rev, overtaken, refreshed>>
      BY <1>12 DEF Fill, LoadFails, Return, rows
  <2>2. perTenant /\ \A d \in Clients \ {c} : op[d].pc \notin {"load", "fill", "install"}
      BY <2>1 DEF IInv, LoadInv, ReloadInv
  <2>3. /\ op'[c] = Idle /\ \A d \in Clients \ {c} : op'[d] = op[d]
      BY <1>4, <2>1
  <2>4. SeenInv' /\ LoadInv' /\ ReloadInv' /\ StaleOnlyIfOvertaken'
      BY <1>2, <1>5, <2>1, <2>2, <2>3
      DEF IInv, SeenInv, LoadInv, ReloadInv, StaleOnlyIfOvertaken
  <2> QED
      BY <1>1, <2>4 DEF IInv
<1> QED
    BY <1>6, <1>7, <1>8, <1>9, <1>10, <1>11, <1>12 DEF RegistrySteps

\* A step is a stutter, one of the registry, or neutral to it.
LEMMA StepKinds ==
    ASSUME TypeOK, [Next]_vars
    PROVE  \/ UNCHANGED vars
           \/ \E c \in Clients : RegistrySteps(c)
           \/ \E c \in Clients : TypeOK' /\ Neutral(c)
<1>1. CASE UNCHANGED vars
    BY <1>1
<1>2. ASSUME NEW c \in Clients, Request(c)
      PROVE  TypeOK' /\ Neutral(c)
    BY <1>2, HTTPRequests, AdminRequests, CapabilityRequests, OtherRequests DEF Request
<1>3. ASSUME NEW c \in Clients, Continue(c)
      PROVE  RegistrySteps(c) \/ (TypeOK' /\ Neutral(c))
  <2>1. \/ RegistrySteps(c)
        \/ CreateAssociations(c) \/ WriteRow(c) \/ ReplaceAgentKBs(c)
        \/ DropCapabilities(c) \/ DeleteRow(c) \/ InvalidateNothing(c)
      BY <1>3 DEF Continue, RegistrySteps
  <2> QED
      BY <2>1, Statements
<1> QED
    BY <1>1, <1>2, <1>3 DEF Next

\* Every step preserves the invariant.
LEMMA NextIInv == IInv /\ [Next]_vars => IInv'
<1> SUFFICES ASSUME IInv, [Next]_vars PROVE IInv'
    OBVIOUS
<1>1. CASE UNCHANGED vars
    BY <1>1 DEF IInv, TypeOK, SeenInv, LoadInv, ReloadInv, StaleOnlyIfOvertaken,
        vars, rows, registry
<1>2. ASSUME NEW c \in Clients, RegistrySteps(c)
      PROVE  IInv'
    BY <1>2, RegistryIInv
<1>3. ASSUME NEW c \in Clients, TypeOK', Neutral(c)
      PROVE  IInv'
    BY <1>3, NeutralIInv
<1> QED
    BY <1>1, <1>2, <1>3, StepKinds DEF IInv

\* The invariant holds in every reachable state.
THEOREM SpecIInv == Spec => []IInv
BY InitIInv, NextIInv, PTL DEF Spec

\* Every variable keeps its type.
THEOREM SpecTypeOK == Spec => []TypeOK
<1>1. IInv => TypeOK
    BY DEF IInv
<1> QED
    BY <1>1, SpecIInv, PTL

\* However many reloads of the single registry overlap, it lacks a change
\* whose request has reloaded it and returned only if the load that was
\* installed last had been overtaken (AgentRegistry.Load reads outside its
\* lock).  Nothing is claimed of the changes that no load has followed: of a
\* capability request with a tenant id, and of a request whose load failed.
THEOREM SpecStaleOnlyIfOvertaken == Spec => []StaleOnlyIfOvertaken
<1>1. IInv => StaleOnlyIfOvertaken
    BY DEF IInv
<1> QED
    BY <1>1, SpecIInv, PTL

-----------------------------------------------------------------------------
(* The registry per tenant implements RegistryPromise.                     *)

\* A neutral step commits a change or does nothing.
LEMMA NeutralPromise ==
    ASSUME IInv, NEW c \in Clients, Neutral(c)
    PROVE  [Promise!Next]_Promise!vars
<1>1. /\ UNCHANGED <<perTenant, cached, refreshed>>
      /\ rev' = rev \/ rev' = rev + 1
    BY DEF Neutral, registry
<1>2. CASE rev' = rev
    BY <1>1, <1>2 DEF Promise!vars
<1>3. CASE rev' = rev + 1
    BY <1>1, <1>3 DEF Promise!Next, Promise!Commit
<1> QED
    BY <1>1, <1>2, <1>3

\* What InvalidateTenant acknowledges it drops from the cache; what a load
\* fills in includes all that was acknowledged.
LEMMA RegistryPromiseStep ==
    ASSUME IInv, NEW c \in Clients, RegistrySteps(c)
    PROVE  [Promise!Next]_Promise!vars
<1>1. /\ rev \in Nat /\ refreshed \in Nat /\ refreshed <= rev
      /\ op[c].at \in Nat /\ op[c].seen \in Nat
      /\ op[c].at <= rev /\ op[c].seen <= rev
    BY DEF IInv, TypeOK, SeenInv, OpRecord, OpShape
<1>2. CASE InvalidateTenant(c)
  <2>1. /\ perTenant /\ perTenant' /\ cached' = 0 /\ rev' = rev
        /\ refreshed' = LaterOf(refreshed, op[c].at)
      BY <1>2 DEF InvalidateTenant, rows
  <2>2. refreshed' \in refreshed..rev
      BY <1>1, <2>1 DEF LaterOf
  <2> QED
      BY <2>1, <2>2 DEF Promise!Next, Promise!Acknowledge
<1>3. CASE ReloadInstall(c)
  <2>1. ~perTenant /\ ~perTenant' /\ cached' = op[c].seen /\ rev' = rev
      BY <1>3 DEF ReloadInstall, Installed, rows, IInv, ReloadInv
  <2>2. cached' \in 0..rev
      BY <1>1, <2>1
  <2> QED
      BY <2>1, <2>2 DEF Promise!Next, Promise!Fill
<1>4. CASE Fill(c)
  <2>1. /\ perTenant /\ perTenant' /\ cached' = op[c].seen /\ rev' = rev
        /\ refreshed' = refreshed /\ refreshed <= op[c].seen
      BY <1>4 DEF Fill, rows, IInv, LoadInv
  <2>2. cached' \in refreshed..rev
      BY <1>1, <2>1
  <2> QED
      BY <2>1, <2>2 DEF Promise!Next, Promise!Fill
<1>5. CASE ReloadList(c) \/ ReloadFails(c) \/ LockForLoad(c) \/ LoadList(c) \/ LoadFails(c)
  <2>1. UNCHANGED <<perTenant, rev, cached, refreshed>>
      BY <1>5 DEF ReloadList, ReloadFails, LockForLoad, LoadList, LoadFails, rows, registry
  <2> QED
      BY <2>1 DEF Promise!vars
<1> QED
    BY <1>2, <1>3, <1>4, <1>5 DEF RegistrySteps

\* In every behaviour the registry of a tenant keeps the promise of
\* RegistryPromise: from the moment a request that changed the agent has
\* invalidated it and returned, it is empty or includes the change.
THEOREM SpecRegistryKeepsPromise == Spec => RegistryKeepsPromise
<1>1. Init => Promise!Init
    BY DEF Init, Promise!Init
<1>2. IInv /\ [Next]_vars => [Promise!Next]_Promise!vars
  <2> SUFFICES ASSUME IInv, [Next]_vars
               PROVE  [Promise!Next]_Promise!vars
      OBVIOUS
  <2>1. CASE UNCHANGED vars
      BY <2>1 DEF vars, rows, registry, Promise!vars
  <2> QED
      BY <2>1, StepKinds, NeutralPromise, RegistryPromiseStep DEF IInv
<1> QED
    BY <1>1, <1>2, SpecIInv, PTL DEF Spec, RegistryKeepsPromise, Promise!Spec

-----------------------------------------------------------------------------
(* What a request does not name.                                           *)

\* What the request would write to the fields it does not name is in the row.
Agrees(o) ==
    IF o.table = "agent"
    THEN \A f \in AgentFields \ o.named : o.val[f] = agent.val[f]
    ELSE \A f \in CapFields \ o.named : o.val[f] = cap.val[f]

\* The row that a request read is still in place unless the request was raced.
FieldsInv == \A c \in Clients : op[c].pc = "write" /\ ~op[c].raced => Agrees(op[c])

\* The fields that are not named are those of the row.
LEMMA MergedKeeps ==
    ASSUME NEW F, NEW row \in Values(F), NEW named, NEW new
    PROVE  \A f \in F \ named : Merged(row, named, new)[f] = row[f]
BY DEF Merged, Values

\* A field that is replaced leaves the others alone.
LEMMA ExceptKeeps ==
    ASSUME NEW F, NEW row \in Values(F), NEW e, NEW b
    PROVE  \A f \in F \ {e} : [row EXCEPT ![e] = b][f] = row[f]
BY DEF Values

\* The record of a rewrite.
LEMMA RewriteParts ==
    ASSUME NEW named, NEW val, NEW kb, NEW n
    PROVE  LET w == Rewrite(named, val, kb, n) IN
           w.table = "agent" /\ w.named = named /\ w.val = val /\ w.pc = "write"
BY DEF Rewrite, Idle

\* Client c moves on and nobody writes.
LEMMA MoveKeeps ==
    ASSUME TypeOK, FieldsInv, NEW c \in Clients, NEW next,
           op' = [op EXCEPT ![c] = next], UNCHANGED rows,
           next.pc = "write" => Agrees(next)
    PROVE  FieldsInv'
<1>1. UNCHANGED <<agent, cap>> /\ op'[c] = next
    BY DEF rows, TypeOK
<1>2. ASSUME NEW d \in Clients, op'[d].pc = "write", ~op'[d].raced
      PROVE  Agrees(op'[d])
  <2>1. CASE d = c
      BY <1>1, <1>2, <2>1
  <2>2. CASE d # c
    <3>1. op'[d] = op[d]
        BY <2>2 DEF TypeOK
    <3> QED
        BY <1>2, <3>1 DEF FieldsInv
  <2> QED
      BY <2>1, <2>2
<1> QED
    BY <1>1, <1>2 DEF FieldsInv, Agrees

\* A request begins with what it read.
LEMMA BeginKeeps ==
    ASSUME TypeOK, FieldsInv, NEW c \in Clients, NEW request, Begin(c, request),
           request.pc = "write" => Agrees(request)
    PROVE  FieldsInv'
BY MoveKeeps DEF Begin

\* A change races every request that is about to write a row it changes.
LEMMA CommitKeeps ==
    ASSUME TypeOK, FieldsInv, NEW c \in Clients, NEW tables, NEW next,
           op' = Committed(c, tables, next),
           next \in OpRecord, next.pc # "write",
           agent' = agent \/ "agent" \in tables,
           cap' = cap \/ "cap" \in tables
    PROVE  FieldsInv'
<1>1. op'[c].pc # "write"
    BY DEF Committed, OpRecord, OpShape
<1>2. ASSUME NEW d \in Clients, op'[d].pc = "write", ~op'[d].raced
      PROVE  Agrees(op[d])'
  <2>1. d # c
      BY <1>1, <1>2
  <2>2. op[d] \in OpShape
      BY DEF TypeOK, OpRecord
  <2>3. op'[d] = [op[d] EXCEPT !.raced = @ \/ (op[d].pc = "write" /\ op[d].table \in tables)]
      BY <2>1 DEF Committed
  <2>4. /\ op'[d].pc = op[d].pc /\ op'[d].table = op[d].table
        /\ op'[d].named = op[d].named /\ op'[d].val = op[d].val
        /\ op'[d].raced = (op[d].raced \/ (op[d].pc = "write" /\ op[d].table \in tables))
      BY <2>2, <2>3 DEF OpShape
  <2>5. op[d].pc = "write" /\ ~op[d].raced /\ op[d].table \notin tables
      BY <1>2, <2>4
  <2>6. Agrees(op[d])
      BY <2>5 DEF FieldsInv
  <2>7. op[d].table \in {"agent", "cap"}
      BY <2>2 DEF OpShape
  <2>8. CASE op[d].table = "agent"
      BY <2>4, <2>5, <2>6, <2>8 DEF Agrees
  <2>9. CASE op[d].table = "cap"
      BY <2>4, <2>5, <2>6, <2>9 DEF Agrees
  <2> QED
      BY <2>7, <2>8, <2>9
<1> QED
    BY <1>2 DEF FieldsInv, Agrees

\* A request of the HTTP agent service or of an admin tool that rewrites the
\* agent's row.
LEMMA RewriteKeeps ==
    ASSUME TypeOK, FieldsInv, NEW c \in Clients, NEW named, NEW val, NEW kb, NEW n,
           Begin(c, Rewrite(named, val, kb, n)),
           \A f \in AgentFields \ named : val[f] = agent.val[f]
    PROVE  FieldsInv'
<1>1. Agrees(Rewrite(named, val, kb, n))
    BY RewriteParts DEF Agrees
<1> QED
    BY <1>1, BeginKeeps

\* The requests of the HTTP agent service.
LEMMA HTTPKeeps ==
    ASSUME TypeOK, FieldsInv, NEW c \in Clients,
           \/ CreateAgent(c) \/ UpdateAgent(c) \/ PatchAgent(c) \/ DeleteAgent(c)
    PROVE  FieldsInv'
<1>0. agent.val \in Values(AgentFields)
    BY RowTypes
<1>1. CASE CreateAgent(c)
  <2> DEFINE val(mcp) == [Uniform(AgentFields, 1) EXCEPT !["mcp"] = mcp]
             assoc(mcp, kb, n) == [Rewrite(AgentFields, val(mcp), kb, n) EXCEPT !.pc = "assoc"]
             next(mcp, kb, n) ==
               IF mcp = 0 THEN AfterWrite(assoc(mcp, kb, n)) ELSE assoc(mcp, kb, n)
  <2>1. PICK mcp \in Bit, kb \in BOOLEAN, n \in HTTPAgentReloads :
          op' = Committed(c, {"agent"}, next(mcp, kb, n))
      BY <1>1, Zenon DEF CreateAgent
  <2>2. val(mcp) \in Values(AgentFields)
    <3>1. Uniform(AgentFields, 1) \in Values(AgentFields)
        BY UniformType, Bits
    <3> QED
        BY <3>1, ExceptType
  <2>3. assoc(mcp, kb, n) \in OpRecord /\ assoc(mcp, kb, n).pc = "assoc"
    <3> DEFINE write == Rewrite(AgentFields, val(mcp), kb, n)
    <3>1. write \in OpRecord /\ write.table = "agent"
      <4>1. AgentFields \in SUBSET Fields
          BY RowTypes
      <4> HIDE DEF val
      <4> QED
          BY <2>2, <4>1, RewriteType, ReloadsType
    <3> HIDE DEF write
    <3>2. [write EXCEPT !.pc = "assoc"] \in OpRecord /\ [write EXCEPT !.pc = "assoc"].pc = "assoc"
        BY <3>1 DEF OpRecord, OpShape, PCs
    <3> QED
        BY <3>2 DEF write
  <2>4. next(mcp, kb, n) \in OpRecord /\ next(mcp, kb, n).pc # "write"
    <3> HIDE DEF assoc
    <3> QED
        BY <2>3, AfterWriteType
  <2>5. cap' = cap
      BY <1>1 DEF CreateAgent
  <2> HIDE DEF next
  <2> QED
      BY <2>1, <2>4, <2>5, CommitKeeps
<1>2. CASE UpdateAgent(c)
  <2>1. PICK tools \in Bit, kb \in BOOLEAN, n \in HTTPAgentReloads,
             named \in {AgentFields, AgentFields \ {"tools"}} :
          LET new == [Uniform(AgentFields, 1) EXCEPT !["tools"] = tools]
          IN  Begin(c, Rewrite(named, Merged(agent.val, named, new), kb, n))
      BY <1>2 DEF UpdateAgent
  <2> DEFINE val == Merged(agent.val, named, [Uniform(AgentFields, 1) EXCEPT !["tools"] = tools])
  <2>2. \A f \in AgentFields \ named : val[f] = agent.val[f]
      BY <1>0, MergedKeeps
  <2>3. Begin(c, Rewrite(named, val, kb, n))
      BY <2>1
  <2> HIDE DEF val
  <2> QED
      BY <2>2, <2>3, RewriteKeeps
<1>3. CASE PatchAgent(c)
  <2>1. PICK f \in AgentFields, kb \in BOOLEAN, n \in HTTPAgentReloads :
          Begin(c, Rewrite({f}, Merged(agent.val, {f}, Other(agent.val)), kb, n))
      BY <1>3 DEF PatchAgent
  <2> DEFINE val == Merged(agent.val, {f}, Other(agent.val))
  <2>2. \A g \in AgentFields \ {f} : val[g] = agent.val[g]
      BY <1>0, MergedKeeps
  <2>3. Begin(c, Rewrite({f}, val, kb, n))
      BY <2>1
  <2> HIDE DEF val
  <2> QED
      BY <2>2, <2>3, RewriteKeeps
<1>4. CASE DeleteAgent(c)
  <2>1. PICK n \in HTTPAgentReloads : Begin(c, [Refresh(n) EXCEPT !.pc = "dropCaps"])
      BY <1>4 DEF DeleteAgent
  <2>2. [Refresh(n) EXCEPT !.pc = "dropCaps"].pc # "write"
      BY RefreshType, ReloadsType DEF OpRecord, OpShape
  <2> QED
      BY <2>1, <2>2, BeginKeeps
<1> QED
    BY <1>1, <1>2, <1>3, <1>4

\* A rewrite by an admin tool, which names the policy besides.
LEMMA AdminRewriteKeeps ==
    ASSUME TypeOK, FieldsInv, NEW c \in Clients, NEW named,
           NEW val \in Values(AgentFields), Begin(c, AdminRewrite(named, val)),
           \A f \in AgentFields \ named : val[f] = agent.val[f]
    PROVE  FieldsInv'
<1> DEFINE zeroed == [val EXCEPT !["policy"] = 0]
<1>1. \A f \in AgentFields \ {"policy"} : zeroed[f] = val[f]
    BY ExceptKeeps
<1>2. \A f \in AgentFields \ (named \cup {"policy"}) : zeroed[f] = agent.val[f]
  <2> HIDE DEF zeroed
  <2> QED
      BY <1>1
<1>3. Begin(c, Rewrite(named \cup {"policy"}, zeroed, FALSE, 1))
    BY DEF AdminRewrite
<1> DEFINE request == Rewrite(named \cup {"policy"}, zeroed, FALSE, 1)
<1> HIDE DEF zeroed
<1>4. /\ request.table = "agent" /\ request.named = named \cup {"policy"}
      /\ request.val = zeroed
    BY DEF Rewrite, Idle
<1> HIDE DEF request
<1>5. Agrees(request)
    BY <1>2, <1>4 DEF Agrees
<1> QED
    BY <1>3, <1>5, BeginKeeps DEF request

\* The requests of the admin tools that write the agent.
LEMMA AdminKeeps ==
    ASSUME TypeOK, FieldsInv, NEW c \in Clients,
           \/ AdminCreateAgent(c) \/ AdminUpdateAgent(c) \/ AdminDeleteAgent(c)
           \/ AdminAttachMCPServer(c) \/ AdminDetachMCPServer(c)
           \/ AdminAddBuiltinTool(c) \/ AdminRemoveBuiltinTool(c)
    PROVE  FieldsInv'
<1>0. agent.val \in Values(AgentFields)
    BY RowTypes
<1>1. CASE AdminCreateAgent(c)
    BY <1>1, RefreshType, CommitKeeps DEF AdminCreateAgent
<1>2. CASE AdminUpdateAgent(c)
  <2>1. PICK named \in {{"prompt"}, {"tools"}} :
          Begin(c, AdminRewrite(named \cup {"mcp"},
                     [Merged(agent.val, named, Uniform(AgentFields, 1)) EXCEPT !["mcp"] = 0]))
      BY <1>2 DEF AdminUpdateAgent
  <2> DEFINE val == Merged(agent.val, named, Uniform(AgentFields, 1))
             new == [val EXCEPT !["mcp"] = 0]
  <2>2. val \in Values(AgentFields)
      BY <1>0, MergedType, UniformType, Bits
  <2>3. \A f \in AgentFields \ named : val[f] = agent.val[f]
      BY <1>0, MergedKeeps
  <2> HIDE DEF val
  <2>4. new \in Values(AgentFields)
      BY <2>2, ExceptType, Bits
  <2>5. \A f \in AgentFields \ {"mcp"} : new[f] = val[f]
      BY <2>2, ExceptKeeps
  <2>6. Begin(c, AdminRewrite(named \cup {"mcp"}, new))
      BY <2>1 DEF val
  <2> HIDE DEF new
  <2>7. \A f \in AgentFields \ (named \cup {"mcp"}) : new[f] = agent.val[f]
      BY <2>3, <2>5
  <2> QED
      BY <2>4, <2>6, <2>7, AdminRewriteKeeps
<1>3. CASE AdminDeleteAgent(c)
  <2>1. [Refresh(1) EXCEPT !.pc = "delete"].pc # "write"
      BY RefreshType DEF OpRecord, OpShape
  <2> QED
      BY <1>3, <2>1, BeginKeeps DEF AdminDeleteAgent
<1>4. ASSUME NEW f \in AgentFields, NEW v \in Bit, Attachment(c, f, v)
      PROVE  FieldsInv'
  <2> DEFINE val == [agent.val EXCEPT ![f] = v]
  <2>1. val \in Values(AgentFields)
      BY <1>0, ExceptType
  <2>2. \A g \in AgentFields \ {f} : val[g] = agent.val[g]
      BY <1>0, ExceptKeeps
  <2>3. Begin(c, AdminRewrite({f}, val))
      BY <1>4 DEF Attachment
  <2> HIDE DEF val
  <2> QED
      BY <2>1, <2>2, <2>3, AdminRewriteKeeps
<1>5. CASE \/ AdminAttachMCPServer(c) \/ AdminDetachMCPServer(c)
           \/ AdminAddBuiltinTool(c) \/ AdminRemoveBuiltinTool(c)
    BY <1>4, <1>5, Bits DEF AgentFields, AdminAttachMCPServer, AdminDetachMCPServer,
        AdminAddBuiltinTool, AdminRemoveBuiltinTool
<1> QED
    BY <1>1, <1>2, <1>3, <1>5

\* The requests about the capability.
LEMMA CapabilityKeeps ==
    ASSUME TypeOK, FieldsInv, NEW c \in Clients,
           \/ AddCapability(c) \/ AdminAddCapability(c)
           \/ UpdateCapability(c) \/ RemoveCapability(c)
    PROVE  FieldsInv'
<1>1. CASE AddCapability(c) \/ AdminAddCapability(c) \/ RemoveCapability(c)
  <2>1. PICK n \in CapabilityReloads \cup {1} :
          op' = Committed(c, {"cap"}, Refresh(n)) /\ agent' = agent
      BY <1>1 DEF AddCapability, AdminAddCapability, RemoveCapability, InsertCapability
  <2>2. n \in 0..2
      BY ReloadsType
  <2> QED
      BY <2>1, <2>2, RefreshType, CommitKeeps
<1>2. CASE UpdateCapability(c)
  <2>1. PICK f \in CapFields, n \in CapabilityReloads :
          Begin(c, [Rewrite({f}, Merged(cap.val, {f}, Other(cap.val)), FALSE, n)
                      EXCEPT !.table = "cap", !.id = cap.id])
      BY <1>2 DEF UpdateCapability
  <2> DEFINE val == Merged(cap.val, {f}, Other(cap.val))
             request == [Rewrite({f}, val, FALSE, n) EXCEPT !.table = "cap", !.id = cap.id]
  <2>2. \A g \in CapFields \ {f} : val[g] = cap.val[g]
    <3>1. cap.val \in Values(CapFields)
        BY RowTypes
    <3> QED
        BY <3>1, MergedKeeps
  <2> HIDE DEF val
  <2>3. request.table = "cap" /\ request.named = {f} /\ request.val = val
      BY DEF Rewrite, Idle
  <2>4. Agrees(request)
    <3> HIDE DEF request
    <3> QED
        BY <2>2, <2>3 DEF Agrees
  <2>5. Begin(c, request)
      BY <2>1 DEF val
  <2> HIDE DEF request
  <2> QED
      BY <2>4, <2>5, BeginKeeps
<1> QED
    BY <1>1, <1>2

\* The requests of a single tenant, and the lookup of a chat.
LEMMA OtherKeeps ==
    ASSUME TypeOK, FieldsInv, NEW c \in Clients,
           \/ ImportYAML(c) \/ ReloadConfig(c) \/ RestoreBuilderAssistant(c)
           \/ GetForContext(c)
    PROVE  FieldsInv'
<1>1. CASE ImportYAML(c)
    BY <1>1, RefreshType, CommitKeeps DEF ImportYAML
<1>2. CASE ReloadConfig(c)
    BY <1>2, RefreshType, BeginKeeps DEF ReloadConfig
<1>3. CASE RestoreBuilderAssistant(c)
    BY <1>3, RewriteKeeps DEF RestoreBuilderAssistant
<1>4. CASE GetForContext(c)
  <2>1. [Idle EXCEPT !.pc = "wait"].pc # "write"
      BY DEF Idle
  <2> QED
      BY <1>4, <2>1, BeginKeeps DEF GetForContext
<1> QED
    BY <1>1, <1>2, <1>3, <1>4

\* The statements of a request after its first.
LEMMA StatementsKeep ==
    ASSUME TypeOK, FieldsInv, NEW c \in Clients,
           \/ CreateAssociations(c) \/ WriteRow(c) \/ ReplaceAgentKBs(c)
           \/ DropCapabilities(c) \/ DeleteRow(c) \/ InvalidateNothing(c)
    PROVE  FieldsInv'
<1>1. op[c] \in OpRecord
    BY DEF TypeOK
<1>2. ASSUME Return(c), UNCHANGED rows
      PROVE  FieldsInv'
    BY <1>2, IdleType, MoveKeeps DEF Return
<1>3. AfterWrite(op[c]) \in OpRecord /\ AfterWrite(op[c]).pc # "write"
    BY <1>1, AfterWriteType
<1>4. CASE CreateAssociations(c)
    BY <1>2, <1>3, <1>4, CommitKeeps DEF CreateAssociations, rows
<1>5. CASE WriteRow(c)
  <2>1. CASE Return(c) /\ UNCHANGED rows
      BY <1>2, <2>1
  <2>2. CASE /\ op' = Committed(c, {op[c].table}, AfterWrite(op[c]))
             /\ \/ op[c].table = "agent" /\ UNCHANGED cap
                \/ op[c].table = "cap" /\ UNCHANGED agent
      BY <1>3, <2>2, CommitKeeps
  <2>3. op[c].table \in {"agent", "cap"}
      BY <1>1 DEF OpRecord, OpShape
  <2> QED
      BY <1>5, <2>1, <2>2, <2>3 DEF WriteRow
<1>6. CASE ReplaceAgentKBs(c)
  <2>1. [op[c] EXCEPT !.pc = "refresh"].pc # "write"
      BY <1>1 DEF OpRecord, OpShape
  <2>2. op' = [op EXCEPT ![c] = [op[c] EXCEPT !.pc = "refresh"]] \/ Return(c)
      BY <1>6 DEF ReplaceAgentKBs
  <2> QED
      BY <1>2, <1>6, <2>1, <2>2, MoveKeeps DEF ReplaceAgentKBs
<1>7. CASE DropCapabilities(c)
  <2> DEFINE next == [op[c] EXCEPT !.pc = "delete"]
  <2>1. next \in OpRecord /\ next.pc # "write"
      BY <1>1, <1>7 DEF DropCapabilities, OpRecord, OpShape, PCs
  <2>2. \/ op' = Committed(c, {"cap"}, next) /\ UNCHANGED agent
        \/ op' = [op EXCEPT ![c] = next] /\ UNCHANGED rows
      BY <1>7 DEF DropCapabilities, rows
  <2> HIDE DEF next
  <2> QED
      BY <2>1, <2>2, CommitKeeps, MoveKeeps
<1>8. CASE DeleteRow(c)
  <2>1. Refresh(op[c].reloads) \in OpRecord /\ Refresh(op[c].reloads).pc # "write"
      BY <1>1, RefreshType DEF OpRecord, OpShape
  <2> QED
      BY <1>2, <1>8, <2>1, CommitKeeps DEF DeleteRow
<1>9. CASE InvalidateNothing(c)
    BY <1>2, <1>9 DEF InvalidateNothing
<1> QED
    BY <1>4, <1>5, <1>6, <1>7, <1>8, <1>9

\* The registry has nothing to do with the rows.
LEMMA RegistryKeeps ==
    ASSUME TypeOK, FieldsInv, NEW c \in Clients, RegistrySteps(c)
    PROVE  FieldsInv'
<1>1. op[c] \in OpRecord /\ UNCHANGED rows
    BY DEF TypeOK, RegistrySteps, InvalidateTenant, ReloadList, ReloadInstall,
       ReloadFails, LockForLoad, LoadList, Fill, LoadFails
<1>2. NextReload(op[c]).pc # "write" /\ Idle.pc # "write"
    BY <1>1, NextReloadType, IdleType
<1>3. CASE \/ InvalidateTenant(c) \/ ReloadFails(c) \/ Fill(c) \/ LoadFails(c)
    BY <1>1, <1>2, <1>3, MoveKeeps DEF InvalidateTenant, ReloadFails, Fill, LoadFails, Return
<1>4. ASSUME NEW next \in {[op[c] EXCEPT !.pc = "install", !.seen = rev, !.late = FALSE],
                           [op[c] EXCEPT !.pc = "load"],
                           [op[c] EXCEPT !.pc = "fill", !.seen = rev]}
      PROVE  next.pc # "write"
    BY <1>1 DEF OpRecord, OpShape
<1>5. CASE ReloadList(c)
  <2>1. op' = [op EXCEPT ![c] = [op[c] EXCEPT !.pc = "install", !.seen = rev, !.late = FALSE]]
      BY <1>5 DEF ReloadList
  <2> QED
      BY <1>1, <1>4, <2>1, MoveKeeps
<1>6. CASE LockForLoad(c)
  <2>1. op' = [op EXCEPT ![c] = Idle] \/ op' = [op EXCEPT ![c] = [op[c] EXCEPT !.pc = "load"]]
      BY <1>6 DEF LockForLoad, Return
  <2> QED
      BY <1>1, <1>2, <1>4, <2>1, MoveKeeps
<1>7. CASE LoadList(c)
  <2>1. op' = [op EXCEPT ![c] = [op[c] EXCEPT !.pc = "fill", !.seen = rev]]
      BY <1>7 DEF LoadList
  <2> QED
      BY <1>1, <1>4, <2>1, MoveKeeps
<1>8. CASE ReloadInstall(c)
  <2>1. op'[c].pc # "write"
      BY <1>2, <1>8 DEF ReloadInstall
  <2>2. ASSUME NEW d \in Clients, op'[d].pc = "write", ~op'[d].raced
        PROVE  Agrees(op'[d])
    <3>1. op'[d] = [op[d] EXCEPT !.late = @ \/ op[d].pc = "install"]
        BY <1>8, <2>1, <2>2 DEF ReloadInstall
    <3>2. op[d] \in OpShape
        BY DEF TypeOK, OpRecord
    <3>3. /\ op'[d].pc = op[d].pc /\ op'[d].raced = op[d].raced
          /\ op'[d].table = op[d].table /\ op'[d].named = op[d].named
          /\ op'[d].val = op[d].val
        BY <3>1, <3>2 DEF OpShape
    <3> QED
        BY <2>2, <3>3 DEF FieldsInv, Agrees
  <2> QED
      BY <1>1, <2>2 DEF FieldsInv, Agrees, rows
<1> QED
    BY <1>3, <1>5, <1>6, <1>7, <1>8 DEF RegistrySteps

\* Every step keeps it.
LEMMA NextFieldsInv == TypeOK /\ FieldsInv /\ [Next]_vars => FieldsInv'
<1> SUFFICES ASSUME TypeOK, FieldsInv, [Next]_vars
             PROVE  FieldsInv'
    OBVIOUS
<1>1. CASE UNCHANGED vars
    BY <1>1 DEF vars, rows, FieldsInv, Agrees
<1>2. CASE Next
  <2>1. PICK c \in Clients : Request(c) \/ Continue(c)
      BY <1>2 DEF Next
  <2> QED
      BY <2>1, HTTPKeeps, AdminKeeps, CapabilityKeeps, OtherKeeps, StatementsKeep,
         RegistryKeeps DEF Request, Continue, RegistrySteps
<1> QED
    BY <1>1, <1>2

\* Between the read and the write of a request whose row nobody else wrote,
\* the row is what the request read, but for the fields it names.
THEOREM SpecFieldsInv == Spec => []FieldsInv
<1>1. Init => FieldsInv
    BY IdleType DEF Init, FieldsInv
<1> QED
    BY <1>1, NextFieldsInv, SpecTypeOK, PTL DEF Spec

\* A request that writes its row in time replaces the fields it names only.
LEMMA StepUnnamedFieldsKept ==
    ASSUME TypeOK, FieldsInv, NEW c \in Clients,
           WriteRow(c), rev' # rev, ~op[c].raced
    PROVE  LET row == IF op[c].table = "agent" THEN agent ELSE cap
               new == IF op[c].table = "agent" THEN agent' ELSE cap'
           IN  \A f \in DOMAIN row.val \ op[c].named : new.val[f] = row.val[f]
<1>1. Agrees(op[c])
    BY DEF FieldsInv, WriteRow
<1>2. DOMAIN agent.val = AgentFields /\ DOMAIN cap.val = CapFields
    BY RowTypes DEF Values
<1>3. /\ op[c].table = "agent" => agent'.val = op[c].val
      /\ op[c].table # "agent" => cap'.val = op[c].val
    BY DEF WriteRow, rows, TypeOK, AgentRow, CapRow
<1> QED
    BY <1>1, <1>2, <1>3 DEF Agrees

\* PATCH of an agent, PUT of a capability and the admin tools keep the fields
\* a request does not name, for any number of concurrent requests.
THEOREM SpecUnnamedFieldsKept == Spec => UnnamedFieldsKept
<1>1. TypeOK /\ FieldsInv /\ [Next]_vars =>
        [\A c \in Clients :
           WriteRow(c) /\ rev' # rev /\ ~op[c].raced =>
             LET row == IF op[c].table = "agent" THEN agent ELSE cap
                 new == IF op[c].table = "agent" THEN agent' ELSE cap'
             IN  \A f \in DOMAIN row.val \ op[c].named : new.val[f] = row.val[f]]_vars
    BY StepUnnamedFieldsKept
<1> QED
    BY <1>1, SpecTypeOK, SpecFieldsInv, PTL DEF Spec, UnnamedFieldsKept
=============================================================================
