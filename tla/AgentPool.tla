----------------------------- MODULE AgentPool -----------------------------
(***************************************************************************)
(* The AgentPool of one session: the agents that tool calls of the         *)
(* supervisor spawn and wait for, their goroutines, the subtasks they work *)
(* on, their rows in agent_runs, and the InterruptManager that wakes the   *)
(* waiting calls when the user writes.  Every map of the pool is keyed by  *)
(* session id or by agent id and an agent belongs to one session, so       *)
(* sessions do not interact and one is enough.                             *)
(*                                                                         *)
(* One step is what the code does under one lock (p.mu or the manager's    *)
(* mu) or in one database call; steps nobody can observe separately are    *)
(* joined.  What the engine does inside Execute is external: it returns an *)
(* answer or an error.  The pool's event bus is never set (SetEventBus has *)
(* no caller), so publishing to it is left out.                            *)
(***************************************************************************)
EXTENDS Integers, FiniteSets

CONSTANTS
    Agents,         \* agent ids: each is used by at most one spawn
    Tasks,          \* subtasks a coder agent can be spawned on
    Calls,          \* tool calls of the supervisor
    Messages,       \* user messages passed to NotifyUserMessage
    Waits,          \* what the spawn tools in use wait with: "agent", "all"
    RunStorage,     \* agentRunStorage is configured (it is optional)
    MaxConcurrent,  \* maxConcurrent: 0 is no limit
    MaxTurns,       \* bound: turns, i.e. RegisterSession..RemoveSession
    MaxCtx          \* bound: session contexts and interrupt contexts made

None == "none"
ASSUME NoneAssumption == None \notin Agents \cup Tasks \cup Calls \cup Messages
ASSUME LimitAssumption == MaxConcurrent \in Nat /\ MaxTurns \in Nat /\ MaxCtx \in Nat
ASSUME ToolAssumption == Waits \subseteq {"agent", "all"} /\ RunStorage \in BOOLEAN
ASSUME FiniteAssumption == IsFiniteSet(Agents)

VARIABLES
    \* AgentPool
    pool,           \* the keys of p.agents
    status,         \* status[a]: RunningAgent.Status
    signalled,      \* agents whose completionCh is closed
    agentCancelled, \* agents whose own context was cancelled
    agentCtx,       \* agentCtx[a]: the session context it derives from
    taskOf,         \* taskOf[a]: SubtaskID, or None
    sessionCtx,     \* p.sessionContexts[sid]; 0 when absent
    registered,     \* the session's proxy and event callback are set
    \* Agent goroutines
    goPc,           \* goPc[a]: where the goroutine is
    outcome,        \* outcome[a]: what runAgentWithEngine returned
    found,          \* agents that markCompleted/markFailed found in the pool
    \* Storage
    task,           \* task[t]: status of the subtask
    run,            \* run[a]: status of the agent_runs row
    updates,        \* goroutines about to write a row: <<agent, status>>
    \* InterruptManager
    interruptCtx,   \* m.interruptCtx[sid]; 0 when absent
    claimed,        \* m.interruptClaimed[sid]
    cause,          \* cause[i]: the message interrupt context i fired with
    \* Tool calls
    callPc,         \* callPc[c]
    callAgent,      \* callAgent[c]: the agent spawned by c
    callCancelled,  \* calls whose own (turn) context is cancelled
    waitInterrupt,  \* waitInterrupt[c]: the interrupt context c waits on
    waitCtx,        \* waitCtx[c]: the session context c waits on
    channels,       \* channels[c]: the agents whose completionCh c waits on
    hasRunning,     \* hasRunning[c]: read by cleanupInterruptCtx
    result,         \* result[c]: what the call returned
    \* Counters and history
    turns, ctxCount, interruptCount,
    stopped,        \* agents StopAgent or CancelRunningAgents stopped
    announced,      \* agents whose terminal event reached the callback
    unsettled       \* agents whose CompleteTask or FailTask call failed

agentVars == <<pool, status, signalled, agentCancelled, agentCtx, taskOf>>
goVars == <<goPc, outcome, found>>
dbVars == <<task, run, updates>>
interruptVars == <<interruptCtx, claimed, cause, interruptCount>>
waitVars == <<waitInterrupt, waitCtx, channels, hasRunning>>
callVars == <<callPc, callAgent, callCancelled, waitVars, result>>
sessionVars == <<sessionCtx, registered, turns, ctxCount>>
historyVars == <<stopped, announced, unsettled>>
vars == <<agentVars, goVars, dbVars, interruptVars, callVars, sessionVars,
          historyVars>>

Terminal == {"completed", "failed", "stopped"}
Statuses == {"running"} \cup Terminal
TaskStatuses == {"pending", "in_progress", "completed", "failed"}

TypeOK ==
    /\ pool \subseteq Agents
    /\ status \in [Agents -> Statuses \cup {None}]
    /\ signalled \subseteq Agents
    /\ agentCancelled \subseteq Agents
    /\ agentCtx \in [Agents -> Nat]
    /\ taskOf \in [Agents -> Tasks \cup {None}]
    /\ sessionCtx \in Nat /\ ctxCount \in Nat
    /\ registered \in BOOLEAN /\ turns \in Nat
    /\ goPc \in [Agents -> {None, "launched", "executing", "returned",
                            "marked", "settled", "emitted", "done"}]
    /\ outcome \in [Agents -> {None, "noproxy", "err", "ok"}]
    /\ found \subseteq Agents
    /\ task \in [Tasks -> TaskStatuses]
    /\ run \in [Agents -> Statuses \cup {None}]
    /\ updates \subseteq Agents \X Terminal
    /\ interruptCtx \in Nat /\ interruptCount \in Nat
    /\ claimed \in BOOLEAN
    /\ cause \in [1..MaxCtx -> Messages \cup {None}]
    /\ callPc \in [Calls -> {"idle", "spawning", "waitAgent", "spawned",
                             "interruptCtx", "collect", "waitAll", "cleanup",
                             "cleaning", "returned"}]
    /\ callAgent \in [Calls -> Agents \cup {None}]
    /\ callCancelled \subseteq Calls
    /\ waitInterrupt \in [Calls -> Nat]
    /\ waitCtx \in [Calls -> Nat]
    /\ channels \in [Calls -> SUBSET Agents]
    /\ hasRunning \in [Calls -> BOOLEAN]
    /\ result \in [Calls -> Statuses \cup {None, "not_found", "allDone",
                       "responder", "paused", "error", "refused"}]
    /\ stopped \subseteq Agents
    /\ announced \subseteq Agents
    /\ unsettled \subseteq Agents

Init ==
    /\ pool = {} /\ signalled = {} /\ agentCancelled = {} /\ found = {}
    /\ status = [a \in Agents |-> None]
    /\ agentCtx = [a \in Agents |-> 0]
    /\ taskOf = [a \in Agents |-> None]
    /\ sessionCtx = 0 /\ ctxCount = 0 /\ registered = FALSE /\ turns = 0
    /\ goPc = [a \in Agents |-> None]
    /\ outcome = [a \in Agents |-> None]
    /\ task = [t \in Tasks |-> "pending"]
    /\ run = [a \in Agents |-> None]
    /\ updates = {}
    /\ interruptCtx = 0 /\ interruptCount = 0 /\ claimed = FALSE
    /\ cause = [i \in 1..MaxCtx |-> None]
    /\ callPc = [c \in Calls |-> "idle"]
    /\ callAgent = [c \in Calls |-> None]
    /\ callCancelled = {}
    /\ waitInterrupt = [c \in Calls |-> 0]
    /\ waitCtx = [c \in Calls |-> 0]
    /\ channels = [c \in Calls |-> {}]
    /\ hasRunning = [c \in Calls |-> FALSE]
    /\ result = [c \in Calls |-> None]
    /\ stopped = {} /\ announced = {} /\ unsettled = {}

-----------------------------------------------------------------------------
(* Contexts.                                                               *)

\* A session context is done once RemoveSession replaced or deleted it; an
\* agent's context also when its own Cancel was called.
CtxDone(x) == x # sessionCtx
AgentCtxDone(a) == a \in agentCancelled \/ CtxDone(agentCtx[a])

\* getOrCreateSessionCtx: x is the context returned.
GetOrCreateSessionCtx(x) ==
    \/ /\ sessionCtx # 0
       /\ x = sessionCtx
       /\ UNCHANGED <<sessionCtx, ctxCount>>
    \/ /\ sessionCtx = 0
       /\ x = ctxCount + 1
       /\ ctxCount' = x
       /\ sessionCtx' = x

RunningAgents == {a \in pool : status[a] = "running"}

\* Those among them whose row could not be saved.
UnsavedAgents == {a \in RunningAgents : run[a] = None}

Return(c, r) ==
    /\ callPc' = [callPc EXCEPT ![c] = "returned"]
    /\ result' = [result EXCEPT ![c] = r]

-----------------------------------------------------------------------------
(* The processor registers the session with the pool at the start of a     *)
(* turn and removes it when the turn is over.                              *)

\* SetProxyForSession and SetEventCallbackForSession.
RegisterSession ==
    /\ ~registered
    /\ turns < MaxTurns
    /\ registered' = TRUE
    /\ turns' = turns + 1
    /\ UNCHANGED <<agentVars, goVars, dbVars, interruptVars, callVars,
                   sessionCtx, ctxCount, historyVars>>

\* Mutation: the channels are left open.
SignalledOnRemoveNone == {}

\* RemoveSession signals and cancels the agents that are still running, and
\* forgets all of them, whatever their status.
SignalledOnRemove == RunningAgents

RemoveSession ==
    /\ registered
    /\ registered' = FALSE
    /\ sessionCtx' = 0
    /\ signalled' = signalled \cup SignalledOnRemove
    /\ agentCancelled' = agentCancelled \cup RunningAgents
    /\ pool' = {}
    /\ UNCHANGED <<status, agentCtx, taskOf, goVars, dbVars, interruptVars,
                   callVars, turns, ctxCount, historyVars>>

\* The turn's context is cancelled: the tool calls under way see it.
CancelTurn ==
    /\ registered
    /\ LET busy == {c \in Calls : callPc[c] \notin {"idle", "returned"}}
       IN  /\ ~(busy \subseteq callCancelled)
           /\ callCancelled' = callCancelled \cup busy
    /\ UNCHANGED <<agentVars, goVars, dbVars, interruptVars, callPc,
                   callAgent, waitVars, result, sessionVars, historyVars>>

-----------------------------------------------------------------------------
(* Spawning.                                                               *)

\* AssignTaskToAgent: only a pending (or approved) task moves to in_progress;
\* any other status is left alone and no error is returned.
AssignTaskToAgent(t) ==
    task' = IF t # None /\ task[t] = "pending"
            THEN [task EXCEPT ![t] = "in_progress"] ELSE task

\* Spawn (t a subtask) or SpawnWithDescription (t = None), up to the
\* registration: the subtask is assigned, the contexts are made.
BeginSpawn(c, a, t) ==
    /\ callPc[c] = "idle"
    /\ status[a] = None
    /\ ctxCount < MaxCtx
    /\ AssignTaskToAgent(t)
    /\ \E x \in 1..MaxCtx :
        /\ GetOrCreateSessionCtx(x)
        /\ agentCtx' = [agentCtx EXCEPT ![a] = x]
    /\ status' = [status EXCEPT ![a] = "running"]
    /\ taskOf' = [taskOf EXCEPT ![a] = t]
    /\ callAgent' = [callAgent EXCEPT ![c] = a]
    /\ callPc' = [callPc EXCEPT ![c] = "spawning"]
    /\ UNCHANGED <<pool, signalled, agentCancelled, goVars, run, updates,
                   interruptVars, callCancelled, waitVars, result,
                   registered, turns, historyVars>>

Spawn(c) == \E a \in Agents, t \in Tasks : BeginSpawn(c, a, t)

SpawnWithDescription(c) == \E a \in Agents : BeginSpawn(c, a, None)

\* RestartAgent: an agent of the pool that is not running is spawned again,
\* as a new agent on the same subtask (or description).
RestartAgent(c) ==
    \E old \in pool, a \in Agents :
        /\ status[old] # "running"
        /\ BeginSpawn(c, a, taskOf[old])

\* Mutation: one more than the limit is let in.
LimitReachedLate ==
    /\ MaxConcurrent > 0 /\ RunStorage
    /\ Cardinality({a \in Agents : run[a] = "running"}) > MaxConcurrent

LimitReached ==
    /\ MaxConcurrent > 0 /\ RunStorage
    /\ Cardinality({a \in Agents : run[a] = "running"}) >= MaxConcurrent

\* registerAgent counts the rows, adds the agent and saves its row in one
\* critical section.  A failed Save is logged: the agent runs without a row.
\* NewAgentRun refuses only an empty session id, which no run of the engine
\* has (Execute refuses it), so its error path is never taken.
RegisterAgent(c) ==
    LET a == callAgent[c] IN
    /\ callPc[c] = "spawning"
    /\ ~LimitReached
    /\ pool' = pool \cup {a}
    /\ \E saved \in BOOLEAN :
         run' = IF RunStorage /\ saved THEN [run EXCEPT ![a] = "running"] ELSE run
    /\ goPc' = [goPc EXCEPT ![a] = "launched"]
    /\ callPc' = [callPc EXCEPT ![c] = "spawned"]
    /\ UNCHANGED <<status, signalled, agentCancelled, agentCtx, taskOf,
                   outcome, found, task, updates, interruptVars, callAgent,
                   callCancelled, waitVars, result, sessionVars, historyVars>>

\* Over the limit, or the rows cannot be counted: the call fails; the subtask
\* stays in_progress.
RefuseAgent(c) ==
    /\ callPc[c] = "spawning"
    /\ MaxConcurrent > 0 /\ RunStorage
    /\ Return(c, "refused")
    /\ UNCHANGED <<agentVars, goVars, dbVars, interruptVars, callAgent,
                   callCancelled, waitVars, sessionVars, historyVars>>

-----------------------------------------------------------------------------
(* The goroutine of an agent.                                              *)

\* runAgentWithEngine fails unless the session's proxy is registered.
StartAgent(a) ==
    /\ goPc[a] = "launched"
    /\ IF registered
       THEN /\ goPc' = [goPc EXCEPT ![a] = "executing"]
            /\ UNCHANGED outcome
       ELSE /\ goPc' = [goPc EXCEPT ![a] = "returned"]
            /\ outcome' = [outcome EXCEPT ![a] = "noproxy"]
    /\ UNCHANGED <<agentVars, found, dbVars, interruptVars, callVars,
                   sessionVars, historyVars>>

\* Execute returns an answer, or an error (a panic is recovered into one).
ExecuteReturns(a) ==
    /\ goPc[a] = "executing"
    /\ goPc' = [goPc EXCEPT ![a] = "returned"]
    /\ \E o \in {"ok", "err"} : outcome' = [outcome EXCEPT ![a] = o]
    /\ UNCHANGED <<agentVars, found, dbVars, interruptVars, callVars,
                   sessionVars, historyVars>>

\* Execute gives up because its context is done.
ExecuteCancelled(a) ==
    /\ AgentCtxDone(a)
    /\ ExecuteReturns(a)

\* Mutation: completion is signalled with the status, before the event.
MarkStatusAndSignal(a) ==
    LET new == IF outcome[a] = "ok" THEN "completed" ELSE "failed" IN
    /\ goPc[a] = "returned"
    /\ IF a \in pool
       THEN /\ status' = [status EXCEPT ![a] = new]
            /\ found' = found \cup {a}
            /\ signalled' = signalled \cup {a}
       ELSE UNCHANGED <<status, found, signalled>>
    /\ goPc' = [goPc EXCEPT ![a] =
                   IF a \in pool \/ new = "completed" THEN "marked" ELSE "done"]
    /\ UNCHANGED <<pool, agentCancelled, agentCtx, taskOf, outcome,
                   dbVars, interruptVars, callVars, sessionVars, historyVars>>

\* Mutation: a completed agent that has left the pool is dropped as well.
MarkStatusIfFound(a) ==
    LET new == IF outcome[a] = "ok" THEN "completed" ELSE "failed" IN
    /\ goPc[a] = "returned"
    /\ IF a \in pool
       THEN /\ status' = [status EXCEPT ![a] = new]
            /\ found' = found \cup {a}
       ELSE UNCHANGED <<status, found>>
    /\ goPc' = [goPc EXCEPT ![a] = IF a \in pool THEN "marked" ELSE "done"]
    /\ UNCHANGED <<pool, signalled, agentCancelled, agentCtx, taskOf, outcome,
                   dbVars, interruptVars, callVars, sessionVars, historyVars>>

\* markCompleted and markFailed, first critical section.  A completed agent
\* that is no longer in the pool still completes its subtask; a failed one
\* is dropped.
MarkStatus(a) ==
    LET new == IF outcome[a] = "ok" THEN "completed" ELSE "failed" IN
    /\ goPc[a] = "returned"
    /\ IF a \in pool
       THEN /\ status' = [status EXCEPT ![a] = new]
            /\ found' = found \cup {a}
       ELSE UNCHANGED <<status, found>>
    /\ goPc' = [goPc EXCEPT ![a] =
                   IF a \in pool \/ new = "completed" THEN "marked" ELSE "done"]
    /\ UNCHANGED <<pool, signalled, agentCancelled, agentCtx, taskOf, outcome,
                   dbVars, interruptVars, callVars, sessionVars, historyVars>>

\* Mutation: the subtask gets a status of agents, not of tasks.
SettleTaskAsAgent(t, new) ==
    task' = IF t # None THEN [task EXCEPT ![t] = "stopped"] ELSE task

\* CompleteTask and FailTask: refused unless the subtask is in_progress.
SettleTask(t, new) ==
    task' = IF t # None /\ task[t] = "in_progress"
            THEN [task EXCEPT ![t] = new] ELSE task

\* The call fails (the database does): the error is logged, the subtask stays
\* as it is and the goroutine goes on.
SettleTaskFails(a) ==
    /\ taskOf[a] # None
    /\ unsettled' = unsettled \cup {a}
    /\ UNCHANGED task

\* The row is updated by a goroutine of its own, which ends at once if the
\* agent has none.
BeginUpdate(a, new) ==
    updates' = IF run[a] # None THEN updates \cup {<<a, new>>} ELSE updates

\* The subtask is settled and the goroutine that updates the row started.
SettleSubtask(a) ==
    LET new == IF outcome[a] = "ok" THEN "completed" ELSE "failed" IN
    /\ goPc[a] = "marked"
    /\ \/ SettleTask(taskOf[a], new) /\ UNCHANGED unsettled
       \/ SettleTaskFails(a)
    /\ BeginUpdate(a, new)
    /\ goPc' = [goPc EXCEPT ![a] = "settled"]
    /\ UNCHANGED <<agentVars, outcome, found, run, interruptVars, callVars,
                   sessionVars, stopped, announced>>

\* emitEventForSession: lost when no callback is registered, or when the
\* agent was not found (its session id is then empty).
EmitEvent(a) ==
    /\ goPc[a] = "settled"
    /\ announced' = IF registered /\ a \in found
                    THEN announced \cup {a} ELSE announced
    /\ goPc' = [goPc EXCEPT ![a] = "emitted"]
    /\ UNCHANGED <<agentVars, outcome, found, dbVars, interruptVars, callVars,
                   sessionVars, stopped, unsettled>>

\* signalCompletion, then the deferred cancel.
SignalCompletion(a) ==
    /\ goPc[a] = "emitted"
    /\ signalled' = IF a \in found THEN signalled \cup {a} ELSE signalled
    /\ agentCancelled' = agentCancelled \cup {a}
    /\ goPc' = [goPc EXCEPT ![a] = "done"]
    /\ UNCHANGED <<pool, status, agentCtx, taskOf, outcome, found, dbVars,
                   interruptVars, callVars, sessionVars, historyVars>>

\* The background goroutine writes the row: GetByID, then Update.  One that
\* fails is one that never comes.
UpdateRun ==
    \E u \in updates :
        /\ run' = [run EXCEPT ![u[1]] = u[2]]
        /\ updates' = updates \ {u}
        /\ UNCHANGED <<agentVars, goVars, task, interruptVars, callVars,
                       sessionVars, historyVars>>

-----------------------------------------------------------------------------
(* Stopping agents.                                                        *)

\* Mutation: the channel is closed but the status is not changed.
StopAllKeepsStatus(S) ==
    /\ signalled' = signalled \cup S
    /\ agentCancelled' = agentCancelled \cup S
    /\ stopped' = stopped \cup S
    /\ UNCHANGED status

StopAll(S) ==
    /\ status' = [a \in Agents |-> IF a \in S THEN "stopped" ELSE status[a]]
    /\ signalled' = signalled \cup S
    /\ agentCancelled' = agentCancelled \cup S
    /\ stopped' = stopped \cup S

StopAgent(a) ==
    /\ a \in RunningAgents
    /\ StopAll({a})
    /\ BeginUpdate(a, "stopped")
    /\ UNCHANGED <<pool, agentCtx, taskOf, goVars, task, run, interruptVars,
                   callVars, sessionVars, announced, unsettled>>

\* CancelRunningAgents leaves the rows alone.
CancelRunningAgents ==
    /\ RunningAgents # {}
    /\ StopAll(RunningAgents)
    /\ UNCHANGED <<pool, agentCtx, taskOf, goVars, dbVars, interruptVars,
                   callVars, sessionVars, announced, unsettled>>

-----------------------------------------------------------------------------
(* InterruptManager.                                                       *)

\* NotifyUserMessage fires the current interrupt context and replaces it;
\* without one the message is dropped.
NotifyUserMessage(m) ==
    /\ interruptCtx # 0
    /\ interruptCount < MaxCtx
    /\ \A i \in 1..MaxCtx : cause[i] # m
    /\ cause' = [cause EXCEPT ![interruptCtx] = m]
    /\ claimed' = FALSE
    /\ interruptCount' = interruptCount + 1
    /\ interruptCtx' = interruptCount + 1
    /\ UNCHANGED <<agentVars, goVars, dbVars, callVars, sessionVars,
                   historyVars>>

GetOrCreateInterruptCtx(i) ==
    \/ /\ interruptCtx # 0
       /\ i = interruptCtx
       /\ UNCHANGED interruptVars
    \/ /\ interruptCtx = 0
       /\ i = interruptCount + 1
       /\ interruptCtx' = i
       /\ interruptCount' = i
       /\ claimed' = FALSE
       /\ UNCHANGED cause

-----------------------------------------------------------------------------
(* WaitForAgent.                                                           *)

\* The agent is looked up; gone already, the call returns at once.
WaitForAgent(c) ==
    /\ "agent" \in Waits
    /\ callPc[c] = "spawned"
    /\ IF callAgent[c] \in pool
       THEN /\ callPc' = [callPc EXCEPT ![c] = "waitAgent"]
            /\ UNCHANGED result
       ELSE Return(c, "not_found")
    /\ UNCHANGED <<agentVars, goVars, dbVars, interruptVars, callAgent,
                   callCancelled, waitVars, sessionVars, historyVars>>

\* completionCh is closed: the agent is looked up again and reported.
AgentReported(c) ==
    LET a == callAgent[c] IN
    /\ callPc[c] = "waitAgent"
    /\ a \in signalled
    /\ Return(c, IF a \in pool THEN status[a] ELSE "not_found")
    /\ UNCHANGED <<agentVars, goVars, dbVars, interruptVars, callAgent,
                   callCancelled, waitVars, sessionVars, historyVars>>

WaitForAgentCancelled(c) ==
    /\ callPc[c] = "waitAgent"
    /\ c \in callCancelled
    /\ Return(c, "error")
    /\ UNCHANGED <<agentVars, goVars, dbVars, interruptVars, callAgent,
                   callCancelled, waitVars, sessionVars, historyVars>>

-----------------------------------------------------------------------------
(* WaitForAllSessionAgents, reached after a spawn or called on its own.    *)

WaitForAllSessionAgents(c) ==
    /\ "all" \in Waits
    /\ callPc[c] \in {"idle", "spawned"}
    /\ interruptCount < MaxCtx
    /\ \E i \in 1..MaxCtx :
        /\ GetOrCreateInterruptCtx(i)
        /\ waitInterrupt' = [waitInterrupt EXCEPT ![c] = i]
    /\ callPc' = [callPc EXCEPT ![c] = "interruptCtx"]
    /\ UNCHANGED <<agentVars, goVars, dbVars, callAgent, callCancelled,
                   waitCtx, channels, hasRunning, result, sessionVars,
                   historyVars>>

WaitSessionCtx(c) ==
    /\ callPc[c] = "interruptCtx"
    /\ ctxCount < MaxCtx
    /\ \E x \in 1..MaxCtx :
        /\ GetOrCreateSessionCtx(x)
        /\ waitCtx' = [waitCtx EXCEPT ![c] = x]
    /\ callPc' = [callPc EXCEPT ![c] = "collect"]
    /\ UNCHANGED <<agentVars, goVars, dbVars, interruptVars, callAgent,
                   callCancelled, waitInterrupt, channels, hasRunning, result,
                   registered, turns, historyVars>>

\* With nothing running the call is over; otherwise it waits.
CollectChannels(c) ==
    /\ callPc[c] = "collect"
    /\ channels' = [channels EXCEPT ![c] = RunningAgents]
    /\ IF RunningAgents = {}
       THEN /\ callPc' = [callPc EXCEPT ![c] = "cleanup"]
            /\ result' = [result EXCEPT ![c] = "allDone"]
       ELSE /\ callPc' = [callPc EXCEPT ![c] = "waitAll"]
            /\ UNCHANGED result
    /\ UNCHANGED <<agentVars, goVars, dbVars, interruptVars, callAgent,
                   callCancelled, waitInterrupt, waitCtx, hasRunning,
                   sessionVars, historyVars>>

\* A case of the select is taken; cleanupInterruptCtx is deferred.
Wake(c, r) ==
    /\ callPc[c] = "waitAll"
    /\ callPc' = [callPc EXCEPT ![c] = "cleanup"]
    /\ result' = [result EXCEPT ![c] = r]
    /\ UNCHANGED <<agentVars, goVars, dbVars, interruptCtx, cause,
                   interruptCount, callAgent, callCancelled, waitVars,
                   sessionVars, historyVars>>

AllDone(c) ==
    /\ channels[c] \subseteq signalled
    /\ Wake(c, "allDone")
    /\ UNCHANGED claimed

\* The interrupt fired: ClaimInterruptResponder decides who answers.
Interrupted(c) ==
    /\ callPc[c] = "waitAll"
    /\ cause[waitInterrupt[c]] # None
    /\ IF claimed
       THEN Wake(c, "paused") /\ UNCHANGED claimed
       ELSE Wake(c, "responder") /\ claimed' = TRUE

\* The call's own context or the session context is done.
WaitCancelled(c) ==
    /\ c \in callCancelled \/ CtxDone(waitCtx[c])
    /\ Wake(c, "error")
    /\ UNCHANGED claimed

\* cleanupInterruptCtx: the agents are read under p.mu ...
ReadHasRunning(c) ==
    /\ callPc[c] = "cleanup"
    /\ hasRunning' = [hasRunning EXCEPT ![c] = (RunningAgents # {})]
    /\ callPc' = [callPc EXCEPT ![c] = "cleaning"]
    /\ UNCHANGED <<agentVars, goVars, dbVars, interruptVars, callAgent,
                   callCancelled, waitInterrupt, waitCtx, channels, result,
                   sessionVars, historyVars>>

\* ... and the interrupt state is deleted later, under the manager's mu.
CleanupIfNoRunning(c) ==
    /\ callPc[c] = "cleaning"
    /\ IF hasRunning[c]
       THEN UNCHANGED <<interruptCtx, claimed>>
       ELSE interruptCtx' = 0 /\ claimed' = FALSE
    /\ callPc' = [callPc EXCEPT ![c] = "returned"]
    /\ UNCHANGED <<agentVars, goVars, dbVars, cause, interruptCount,
                   callAgent, callCancelled, waitVars, result, sessionVars,
                   historyVars>>

-----------------------------------------------------------------------------
AgentStep(a) ==
    \/ StartAgent(a) \/ ExecuteReturns(a) \/ MarkStatus(a) \/ SettleSubtask(a)
    \/ EmitEvent(a) \/ SignalCompletion(a)

CallStep(c) ==
    \/ Spawn(c) \/ SpawnWithDescription(c) \/ RestartAgent(c)
    \/ RegisterAgent(c) \/ RefuseAgent(c)
    \/ WaitForAgent(c) \/ AgentReported(c) \/ WaitForAgentCancelled(c)
    \/ WaitForAllSessionAgents(c) \/ WaitSessionCtx(c) \/ CollectChannels(c)
    \/ AllDone(c) \/ Interrupted(c) \/ WaitCancelled(c)
    \/ ReadHasRunning(c) \/ CleanupIfNoRunning(c)

Next ==
    \/ RegisterSession \/ RemoveSession \/ CancelTurn \/ UpdateRun
    \/ CancelRunningAgents
    \/ \E a \in Agents : AgentStep(a) \/ StopAgent(a)
    \/ \E m \in Messages : NotifyUserMessage(m)
    \/ \E c \in Calls : CallStep(c)

Spec == Init /\ [][Next]_vars

(* Fairness.  Goroutines are scheduled: an agent that has something to do  *)
(* and a call that has been woken proceed.  Nothing makes Execute return   *)
(* by itself; it is only assumed to give up once its context is done, as   *)
(* every blocking call under it takes that context.                        *)

AgentProgress(a) ==
    \/ StartAgent(a) \/ ExecuteCancelled(a) \/ MarkStatus(a)
    \/ SettleSubtask(a) \/ EmitEvent(a) \/ SignalCompletion(a)

CallProgress(c) ==
    \/ RegisterAgent(c) \/ RefuseAgent(c)
    \/ AgentReported(c) \/ WaitForAgentCancelled(c) \/ CollectChannels(c)
    \/ AllDone(c) \/ Interrupted(c) \/ WaitCancelled(c)
    \/ ReadHasRunning(c) \/ CleanupIfNoRunning(c)

Fairness ==
    /\ \A a \in Agents : WF_vars(AgentProgress(a))
    /\ \A c \in Calls : WF_vars(CallProgress(c))

LiveSpec == Spec /\ Fairness

-----------------------------------------------------------------------------
(* Properties.                                                             *)

\* The goroutine of an agent never ends with its completionCh open: whether
\* the agent completed, failed, was stopped, or lost its session at any point
\* in between (markFailed returns early when RemoveSession dropped the agent),
\* somebody has closed the channel that WaitForAgent blocks on.  A completed
\* agent dropped by RemoveSession before it was marked relies on the latter.
DoneIsSignalled == \A a \in Agents : goPc[a] = "done" => a \in signalled

\* WaitForAgent never reports a running agent: when the channel is closed and
\* the agent is still in the pool, its status has left "running".
NeverReportsRunning == \A c \in Calls : result[c] # "running"

\* "Send lifecycle event to client BEFORE signaling completion": a call that
\* was told its agent completed or failed finds the client already told,
\* unless the agent was stopped (StopAgent signals at once) or never started
\* (no proxy, so perhaps no callback either).
ReportedIsAnnounced ==
    \A c \in Calls :
        /\ result[c] \in {"completed", "failed"}
        /\ callAgent[c] \notin stopped
        /\ outcome[callAgent[c]] # "noproxy"
        => callAgent[c] \in announced

\* registerAgent counts, adds and saves under one lock, and a row leaves
\* "running" only after its agent did: the agents running in the pool exceed
\* maxConcurrent at most by those whose Save failed.  Each of these has no
\* row to be counted, so the limit is no limit on them.
WithinLimit ==
    MaxConcurrent > 0 /\ RunStorage =>
        Cardinality(RunningAgents)
            <= MaxConcurrent + Cardinality(UnsavedAgents)

\* What call c waits for was cancelled, or its interrupt fired.
WaitOver(c) ==
    \/ callPc[c] = "waitAgent" /\ AgentCtxDone(callAgent[c])
    \/ callPc[c] = "waitAll" /\ \A a \in channels[c] : AgentCtxDone(a)
    \/ callPc[c] = "waitAll" /\ cause[waitInterrupt[c]] # None

\* WaitForAgent and WaitForAllSessionAgents return once their agents were
\* cancelled (StopAgent, user cancel, RemoveSession) or the user interrupted,
\* although the agents involved take the early returns of markFailed.
WaitsEnd == \A c \in Calls : WaitOver(c) ~> callPc[c] = "returned"

\* markCompleted goes on when the agent is no longer in the pool: an agent
\* that answered has completed its subtask by the time its client is told,
\* even if its session was removed or it was stopped meanwhile.  Not so when
\* its CompleteTask call failed, which is only logged, or when it shares the
\* subtask with another agent; a restarted one always does, and
\* AssignTaskToAgent leaves the failed subtask failed.
CompletionRecorded ==
    \A a \in Agents :
        /\ outcome[a] = "ok" /\ goPc[a] \in {"settled", "emitted", "done"}
        /\ taskOf[a] # None /\ a \notin unsettled
        /\ \A b \in Agents \ {a} : taskOf[b] # taskOf[a]
        => task[taskOf[a]] = "completed"
=============================================================================
