-------------------------- MODULE AgentPool_proofs --------------------------
(***************************************************************************)
(* Proofs about AgentPool, for any sets of agents, subtasks, calls and     *)
(* messages: every variable keeps its type; the goroutine of an agent      *)
(* never ends with its completion channel open; WaitForAgent never reports *)
(* a running agent; an agent reported as completed or failed has been      *)
(* announced to the client; the agents running in the pool exceed          *)
(* maxConcurrent only by those whose row could not be saved; and an agent  *)
(* that answered, had its subtask to itself and whose CompleteTask call    *)
(* did not fail has completed it.                                          *)
(***************************************************************************)
EXTENDS AgentPool, FiniteSetTheorems, TLAPS

Before == {"launched", "executing", "returned"}
After == {"marked", "settled", "emitted", "done"}

\* The part of the type invariant the proofs need.
PoolType ==
    /\ pool \subseteq Agents
    /\ signalled \subseteq Agents
    /\ found \subseteq Agents
    /\ stopped \subseteq Agents
    /\ announced \subseteq Agents
    /\ status \in [Agents -> Statuses \cup {None}]
    /\ goPc \in [Agents -> {None} \cup Before \cup After]
    /\ outcome \in [Agents -> {None, "noproxy", "err", "ok"}]
    /\ run \in [Agents -> Statuses \cup {None}]
    /\ updates \subseteq Agents \X Terminal
    /\ callPc \in [Calls -> {"idle", "spawning", "waitAgent", "spawned",
                             "interruptCtx", "collect", "waitAll", "cleanup",
                             "cleaning", "returned"}]
    /\ callAgent \in [Calls -> Agents \cup {None}]
    /\ result \in [Calls -> Statuses \cup {None, "not_found", "allDone",
                       "responder", "paused", "error", "refused"}]

\* An agent is spawned by one call, which registers it before its goroutine
\* exists; an id no call has taken is fresh everywhere.
CallInv ==
    \A c \in Calls :
        /\ callPc[c] = "spawning" =>
              /\ callAgent[c] \in Agents
              /\ goPc[callAgent[c]] = None
              /\ status[callAgent[c]] = "running"
        /\ callPc[c] = "waitAgent" => callAgent[c] \in Agents
        /\ callPc[c] = "spawned" => callAgent[c] \in Agents
        /\ \A d \in Calls : c # d /\ callAgent[c] # None
                                => callAgent[c] # callAgent[d]
        /\ callAgent[c] # None => status[callAgent[c]] # None

\* Where an agent is in its life, and who has closed or will close its
\* channel: its own goroutine once it was found in the pool, StopAgent, or
\* RemoveSession.
AgentInv ==
    \A a \in Agents :
        /\ status[a] = None => goPc[a] = None
        /\ goPc[a] = None => /\ a \notin pool /\ a \notin signalled
                             /\ a \notin found /\ outcome[a] = None
        /\ a \in pool /\ status[a] = "running"
              => goPc[a] \in Before /\ a \notin signalled
        /\ goPc[a] \in Before => a \notin found
        /\ goPc[a] \in Before /\ (a \notin pool \/ status[a] # "running")
              => a \in signalled
        /\ goPc[a] \in After /\ a \notin found => a \in signalled
        /\ goPc[a] \in After /\ a \in pool => a \in found
        /\ goPc[a] = "done" => a \in signalled

\* Why the client is told first: a started agent that is still in the pool
\* has its session registered, and only its own goroutine signals it unless
\* it was stopped.
AnnounceInv ==
    /\ \A a \in pool :
        /\ goPc[a] = "executing" => registered
        /\ outcome[a] \in {"ok", "err"} => registered
        /\ a \in signalled /\ a \notin stopped => goPc[a] = "done"
        /\ goPc[a] \in {"emitted", "done"} /\ outcome[a] # "noproxy"
              => a \in announced
    /\ \A a \in Agents :
        /\ goPc[a] \in {"returned"} \cup After => outcome[a] # None
        /\ a \in pool /\ status[a] \in {"completed", "failed"} => goPc[a] \in After
        /\ goPc[a] = "executing" => outcome[a] = None
        /\ goPc[a] = "launched" => outcome[a] = None
    /\ \A c \in Calls :
        result[c] \in {"completed", "failed"} =>
            /\ callPc[c] = "returned"
            /\ callAgent[c] \in Agents
            /\ callAgent[c] \notin stopped => goPc[callAgent[c]] = "done"
    /\ \A c \in Calls : callPc[c] \in {"idle", "spawning", "spawned", "waitAgent"}
                            => result[c] = None

\* A running agent of the pool has no row or one that says so, and no update
\* of a row is under way while its agent is running.
RowInv ==
    RunStorage =>
        /\ \A a \in pool : status[a] = "running" => run[a] \in {None, "running"}
        /\ \A a \in Agents : goPc[a] = None => run[a] = None
        /\ \A u \in updates : ~(u[1] \in pool /\ status[u[1]] = "running")
        /\ \A u \in updates : goPc[u[1]] # None

PoolInv ==
    /\ PoolType
    /\ CallInv
    /\ AgentInv
    /\ AnnounceInv
    /\ NeverReportsRunning
    /\ ReportedIsAnnounced

-----------------------------------------------------------------------------
(* PoolInv is an invariant.                                                *)

\* Initially the pool is empty and every id is fresh.
LEMMA PoolInvInit == Init => PoolInv
  BY DEF Init, PoolInv, PoolType, CallInv, AgentInv, AnnounceInv,
         NeverReportsRunning, ReportedIsAnnounced, Statuses, Terminal, Before,
         After, None

\* Agents that leave the pool running are signalled here; the others were
\* stopped, or their goroutine holds them and will signal.
LEMMA RemoveSessionInv ==
    ASSUME PoolInv, RemoveSession
    PROVE  PoolInv'
  <1> USE NoneAssumption DEF PoolInv, RemoveSession, RunningAgents,
                                 SignalledOnRemove, agentVars, goVars, dbVars,
                                 interruptVars, waitVars, callVars,
                                 sessionVars, historyVars, Statuses, Terminal,
                                 Before, After, None
  <1>1. PoolType'
    BY DEF PoolType
  <1>2. CallInv'
    BY DEF PoolType, CallInv, AgentInv
  <1>3. AgentInv'
    BY DEF PoolType, CallInv, AgentInv
  <1>4. AnnounceInv'
    BY DEF PoolType, CallInv, AgentInv, AnnounceInv
  <1>5. NeverReportsRunning'
    BY DEF PoolType, CallInv, AgentInv, NeverReportsRunning
  <1>6. ReportedIsAnnounced'
    BY DEF PoolType, CallInv, AgentInv, AnnounceInv, ReportedIsAnnounced
  <1>7. QED
    BY <1>1, <1>2, <1>3, <1>4, <1>5, <1>6

\* The agents stopped are signalled with their new status.
LEMMA CancelRunningAgentsInv ==
    ASSUME PoolInv, CancelRunningAgents
    PROVE  PoolInv'
  <1> USE NoneAssumption DEF PoolInv, CancelRunningAgents, StopAll,
                                 RunningAgents, agentVars, goVars, dbVars,
                                 interruptVars, waitVars, callVars,
                                 sessionVars, historyVars, Statuses, Terminal,
                                 Before, After, None
  <1>1. PoolType'
    BY DEF PoolType
  <1>2. CallInv'
    BY DEF PoolType, CallInv, AgentInv
  <1>3. AgentInv'
    BY DEF PoolType, CallInv, AgentInv
  <1>4. AnnounceInv'
    BY DEF PoolType, CallInv, AgentInv, AnnounceInv
  <1>5. NeverReportsRunning'
    BY DEF PoolType, CallInv, AgentInv, NeverReportsRunning
  <1>6. ReportedIsAnnounced'
    BY DEF PoolType, CallInv, AgentInv, AnnounceInv, ReportedIsAnnounced
  <1>7. QED
    BY <1>1, <1>2, <1>3, <1>4, <1>5, <1>6

\* The agent stopped is signalled with its new status.
LEMMA StopAgentInv ==
    ASSUME PoolInv, NEW a \in Agents, StopAgent(a)
    PROVE  PoolInv'
  <1> USE NoneAssumption DEF PoolInv, StopAgent, StopAll, RunningAgents,
                                 BeginUpdate, agentVars, goVars, dbVars,
                                 interruptVars, waitVars, callVars,
                                 sessionVars, historyVars, Statuses, Terminal,
                                 Before, After, None
  <1>1. PoolType'
    BY DEF PoolType
  <1>2. CallInv'
    BY DEF PoolType, CallInv, AgentInv
  <1>3. AgentInv'
    BY DEF PoolType, CallInv, AgentInv
  <1>4. AnnounceInv'
    BY DEF PoolType, CallInv, AgentInv, AnnounceInv
  <1>5. NeverReportsRunning'
    BY DEF PoolType, CallInv, AgentInv, NeverReportsRunning
  <1>6. ReportedIsAnnounced'
    BY DEF PoolType, CallInv, AgentInv, AnnounceInv, ReportedIsAnnounced
  <1>7. QED
    BY <1>1, <1>2, <1>3, <1>4, <1>5, <1>6

\* An agent that starts finds its session registered or fails at once.
LEMMA StartAgentInv ==
    ASSUME PoolInv, NEW a \in Agents, StartAgent(a)
    PROVE  PoolInv'
  <1> USE NoneAssumption DEF PoolInv, StartAgent, agentVars, goVars,
                                 dbVars, interruptVars, waitVars, callVars,
                                 sessionVars, historyVars, Statuses, Terminal,
                                 Before, After, None
  <1>1. PoolType'
    BY DEF PoolType
  <1>2. CallInv'
    BY DEF PoolType, CallInv, AgentInv
  <1>3. AgentInv'
    BY DEF PoolType, CallInv, AgentInv
  <1>4. AnnounceInv'
    BY DEF PoolType, CallInv, AgentInv, AnnounceInv
  <1>5. NeverReportsRunning'
    BY DEF PoolType, CallInv, AgentInv, NeverReportsRunning
  <1>6. ReportedIsAnnounced'
    BY DEF PoolType, CallInv, AgentInv, AnnounceInv, ReportedIsAnnounced
  <1>7. QED
    BY <1>1, <1>2, <1>3, <1>4, <1>5, <1>6

\* What Execute returned is remembered for the rest of the goroutine.
LEMMA ExecuteReturnsInv ==
    ASSUME PoolInv, NEW a \in Agents, ExecuteReturns(a)
    PROVE  PoolInv'
  <1> USE NoneAssumption DEF PoolInv, ExecuteReturns, agentVars, goVars,
                                 dbVars, interruptVars, waitVars, callVars,
                                 sessionVars, historyVars, Statuses, Terminal,
                                 Before, After, None
  <1>1. PoolType'
    BY DEF PoolType
  <1>2. CallInv'
    BY DEF PoolType, CallInv, AgentInv
  <1>3. AgentInv'
    BY DEF PoolType, CallInv, AgentInv
  <1>4. AnnounceInv'
    BY DEF PoolType, CallInv, AgentInv, AnnounceInv
  <1>5. NeverReportsRunning'
    BY DEF PoolType, CallInv, AgentInv, NeverReportsRunning
  <1>6. ReportedIsAnnounced'
    BY DEF PoolType, CallInv, AgentInv, AnnounceInv, ReportedIsAnnounced
  <1>7. QED
    BY <1>1, <1>2, <1>3, <1>4, <1>5, <1>6

\* A running agent of the pool leaves running while its channel is still
\* open; one that lost its session was signalled before.
LEMMA MarkStatusInv ==
    ASSUME PoolInv, NEW a \in Agents, MarkStatus(a)
    PROVE  PoolInv'
  <1> USE NoneAssumption DEF PoolInv, MarkStatus, agentVars, goVars,
                                 dbVars, interruptVars, waitVars, callVars,
                                 sessionVars, historyVars, Statuses, Terminal,
                                 Before, After, None
  <1>1. PoolType'
    BY DEF PoolType
  <1>2. CallInv'
    BY DEF PoolType, CallInv, AgentInv
  <1>3. AgentInv'
    BY DEF PoolType, CallInv, AgentInv
  <1>4. AnnounceInv'
    BY DEF PoolType, CallInv, AgentInv, AnnounceInv
  <1>5. NeverReportsRunning'
    BY DEF PoolType, CallInv, AgentInv, NeverReportsRunning
  <1>6. ReportedIsAnnounced'
    BY DEF PoolType, CallInv, AgentInv, AnnounceInv, ReportedIsAnnounced
  <1>7. QED
    BY <1>1, <1>2, <1>3, <1>4, <1>5, <1>6

\* The event of a started agent that is in the pool has a callback to go to.
LEMMA EmitEventInv ==
    ASSUME PoolInv, NEW a \in Agents, EmitEvent(a)
    PROVE  PoolInv'
  <1> USE NoneAssumption DEF PoolInv, EmitEvent, agentVars, goVars,
                                 dbVars, interruptVars, waitVars, callVars,
                                 sessionVars, historyVars, Statuses, Terminal,
                                 Before, After, None
  <1>1. PoolType'
    BY DEF PoolType
  <1>2. CallInv'
    BY DEF PoolType, CallInv, AgentInv
  <1>3. AgentInv'
    BY DEF PoolType, CallInv, AgentInv
  <1>4. AnnounceInv'
    BY DEF PoolType, CallInv, AgentInv, AnnounceInv
  <1>5. NeverReportsRunning'
    BY DEF PoolType, CallInv, AgentInv, NeverReportsRunning
  <1>6. ReportedIsAnnounced'
    BY DEF PoolType, CallInv, AgentInv, AnnounceInv, ReportedIsAnnounced
  <1>7. QED
    BY <1>1, <1>2, <1>3, <1>4, <1>5, <1>6

\* The goroutine signals the agent it found, and only then is done.
LEMMA SignalCompletionInv ==
    ASSUME PoolInv, NEW a \in Agents, SignalCompletion(a)
    PROVE  PoolInv'
  <1> USE NoneAssumption DEF PoolInv, SignalCompletion, agentVars, goVars,
                                 dbVars, interruptVars, waitVars, callVars,
                                 sessionVars, historyVars, Statuses, Terminal,
                                 Before, After, None
  <1>1. PoolType'
    BY DEF PoolType
  <1>2. CallInv'
    BY DEF PoolType, CallInv, AgentInv
  <1>3. AgentInv'
    BY DEF PoolType, CallInv, AgentInv
  <1>4. AnnounceInv'
    BY DEF PoolType, CallInv, AgentInv, AnnounceInv
  <1>5. NeverReportsRunning'
    BY DEF PoolType, CallInv, AgentInv, NeverReportsRunning
  <1>6. ReportedIsAnnounced'
    BY DEF PoolType, CallInv, AgentInv, AnnounceInv, ReportedIsAnnounced
  <1>7. QED
    BY <1>1, <1>2, <1>3, <1>4, <1>5, <1>6

\* A spawn takes a fresh id, which no other call holds.
LEMMA BeginSpawnInv ==
    ASSUME PoolInv, NEW c \in Calls, NEW a \in Agents, NEW t, BeginSpawn(c, a, t)
    PROVE  PoolInv'
  <1> USE NoneAssumption DEF PoolInv, BeginSpawn, agentVars, goVars,
                                 dbVars, interruptVars, waitVars, callVars,
                                 sessionVars, historyVars, Statuses, Terminal,
                                 Before, After, None
  <1>1. PoolType'
    BY DEF PoolType
  <1>2. CallInv'
    BY DEF PoolType, CallInv, AgentInv
  <1>3. AgentInv'
    BY DEF PoolType, CallInv, AgentInv
  <1>4. AnnounceInv'
    BY DEF PoolType, CallInv, AgentInv, AnnounceInv
  <1>5. NeverReportsRunning'
    BY DEF PoolType, CallInv, AgentInv, NeverReportsRunning
  <1>6. ReportedIsAnnounced'
    BY DEF PoolType, CallInv, AgentInv, AnnounceInv, ReportedIsAnnounced
  <1>7. QED
    BY <1>1, <1>2, <1>3, <1>4, <1>5, <1>6

\* Registration adds a fresh agent whose channel is open.
LEMMA RegisterAgentInv ==
    ASSUME PoolInv, NEW c \in Calls, RegisterAgent(c)
    PROVE  PoolInv'
  <1> USE NoneAssumption DEF PoolInv, RegisterAgent, agentVars, goVars,
                                 dbVars, interruptVars, waitVars, callVars,
                                 sessionVars, historyVars, Statuses, Terminal,
                                 Before, After, None
  <1>1. PoolType'
    BY DEF PoolType, CallInv
  <1>2. CallInv'
    BY DEF PoolType, CallInv, AgentInv
  <1>3. AgentInv'
    BY DEF PoolType, CallInv, AgentInv
  <1>4. AnnounceInv'
    BY DEF PoolType, CallInv, AgentInv, AnnounceInv
  <1>5. NeverReportsRunning'
    BY DEF PoolType, CallInv, AgentInv, NeverReportsRunning
  <1>6. ReportedIsAnnounced'
    BY DEF PoolType, CallInv, AgentInv, AnnounceInv, ReportedIsAnnounced
  <1>7. QED
    BY <1>1, <1>2, <1>3, <1>4, <1>5, <1>6

\* The agent reported has left running, and has been announced.
LEMMA AgentReportedInv ==
    ASSUME PoolInv, NEW c \in Calls, AgentReported(c)
    PROVE  PoolInv'
  <1> USE NoneAssumption DEF PoolInv, AgentReported, Return, agentVars,
                                 goVars, dbVars, interruptVars, waitVars,
                                 callVars, sessionVars, historyVars, Statuses,
                                 Terminal, Before, After, None
  <1>1. PoolType'
    BY DEF PoolType, CallInv
  <1>2. CallInv'
    BY DEF PoolType, CallInv, AgentInv
  <1>3. AgentInv'
    BY DEF PoolType, CallInv, AgentInv
  <1>4. AnnounceInv'
    BY DEF PoolType, CallInv, AgentInv, AnnounceInv
  <1>5. NeverReportsRunning'
    BY DEF PoolType, CallInv, AgentInv, NeverReportsRunning
  <1>6. ReportedIsAnnounced'
    BY DEF PoolType, CallInv, AgentInv, AnnounceInv, ReportedIsAnnounced
  <1>7. QED
    BY <1>1, <1>2, <1>3, <1>4, <1>5, <1>6

\* Every step preserves the invariant; the steps below that have no lemma
\* only move a call, a row or the interrupt state.
LEMMA PoolInvNext == PoolInv /\ [Next]_vars => PoolInv'
  <1> SUFFICES ASSUME PoolInv, [Next]_vars
               PROVE  PoolInv'
    OBVIOUS
  <1> USE NoneAssumption DEF PoolInv, PoolType, CallInv, AgentInv, AnnounceInv,
                           NeverReportsRunning, ReportedIsAnnounced,
                           agentVars, goVars, dbVars, interruptVars, waitVars,
                           callVars, sessionVars, historyVars, Statuses,
                           Terminal, Before, After, None
  <1>1. CASE RegisterSession
    BY <1>1 DEF RegisterSession
  <1>2. CASE CancelTurn
    BY <1>2 DEF CancelTurn
  <1>3. CASE UpdateRun
    BY <1>3 DEF UpdateRun
  <1>4. ASSUME NEW m \in Messages, NotifyUserMessage(m) PROVE PoolInv'
    BY <1>4 DEF NotifyUserMessage
  <1>5. ASSUME NEW a \in Agents, SettleSubtask(a) PROVE PoolInv'
    BY <1>5 DEF SettleSubtask, BeginUpdate
  <1>6. ASSUME NEW c \in Calls, WaitForAllSessionAgents(c) PROVE PoolInv'
    BY <1>6 DEF WaitForAllSessionAgents
  <1>7. ASSUME NEW c \in Calls, WaitSessionCtx(c) PROVE PoolInv'
    BY <1>7 DEF WaitSessionCtx
  <1>8. ASSUME NEW c \in Calls, ReadHasRunning(c) PROVE PoolInv'
    BY <1>8 DEF ReadHasRunning
  <1>9. ASSUME NEW c \in Calls, CleanupIfNoRunning(c) PROVE PoolInv'
    BY <1>9 DEF CleanupIfNoRunning
  <1>10. ASSUME NEW c \in Calls, CollectChannels(c) PROVE PoolInv'
    BY <1>10 DEF CollectChannels
  <1>11. ASSUME NEW c \in Calls, AllDone(c) PROVE PoolInv'
    BY <1>11 DEF AllDone, Wake
  <1>12. ASSUME NEW c \in Calls, Interrupted(c) PROVE PoolInv'
    BY <1>12 DEF Interrupted, Wake
  <1>13. ASSUME NEW c \in Calls, WaitCancelled(c) PROVE PoolInv'
    BY <1>13 DEF WaitCancelled, Wake
  <1>14. ASSUME NEW c \in Calls, RefuseAgent(c) PROVE PoolInv'
    BY <1>14 DEF RefuseAgent, Return
  <1>15. ASSUME NEW c \in Calls, WaitForAgent(c) PROVE PoolInv'
    BY <1>15 DEF WaitForAgent, Return
  <1>16. ASSUME NEW c \in Calls, WaitForAgentCancelled(c) PROVE PoolInv'
    BY <1>16 DEF WaitForAgentCancelled, Return
  <1>17. ASSUME UNCHANGED vars PROVE PoolInv'
    BY <1>17 DEF vars
  <1>18. ASSUME NEW a \in Agents, AgentStep(a) PROVE PoolInv'
    BY <1>18, <1>5, StartAgentInv, ExecuteReturnsInv, MarkStatusInv, EmitEventInv,
       SignalCompletionInv DEF AgentStep
  <1>19. ASSUME NEW c \in Calls, Spawn(c) \/ SpawnWithDescription(c) \/ RestartAgent(c)
       PROVE  PoolInv'
    BY <1>19, BeginSpawnInv DEF Spawn, SpawnWithDescription, RestartAgent
  <1>20. ASSUME NEW c \in Calls, CallStep(c) PROVE PoolInv'
    BY <1>20, <1>19, RegisterAgentInv, AgentReportedInv,
       <1>6, <1>7, <1>8, <1>9, <1>10, <1>11, <1>12, <1>13, <1>14, <1>15, <1>16 DEF CallStep
  <1>21. QED
    BY <1>1, <1>2, <1>3, <1>4, <1>17, <1>18, <1>20, RemoveSessionInv,
       CancelRunningAgentsInv, StopAgentInv DEF Next

\* The invariant holds in every reachable state.
THEOREM SpecPoolInv == Spec => []PoolInv
  BY PoolInvInit, PoolInvNext, PTL DEF Spec

\* For every AgentPool, the goroutine of an agent never ends with its
\* completionCh open, so that no WaitForAgent is left behind by the early
\* return of markFailed.
THEOREM SpecDoneIsSignalled == Spec => []DoneIsSignalled
  <1>1. PoolInv => DoneIsSignalled
    BY DEF PoolInv, AgentInv, DoneIsSignalled
  <1>2. QED
    BY <1>1, SpecPoolInv, PTL

\* For every AgentPool, WaitForAgent never reports a running agent.
THEOREM SpecNeverReportsRunning == Spec => []NeverReportsRunning
  <1>1. PoolInv => NeverReportsRunning
    BY DEF PoolInv
  <1>2. QED
    BY <1>1, SpecPoolInv, PTL

\* For every AgentPool, the client has been sent the lifecycle event of an
\* agent before a call is told that the agent completed or failed.
THEOREM SpecReportedIsAnnounced == Spec => []ReportedIsAnnounced
  <1>1. PoolInv => ReportedIsAnnounced
    BY DEF PoolInv
  <1>2. QED
    BY <1>1, SpecPoolInv, PTL

-----------------------------------------------------------------------------
(* The limit on running agents.                                            *)

\* The running agents of the pool whose row was saved.
RecordedAgents == {a \in RunningAgents : run[a] # None}

\* Those agents respect the limit.
RecordedWithinLimit ==
    MaxConcurrent > 0 /\ RunStorage =>
        Cardinality(RecordedAgents) <= MaxConcurrent

\* The rows follow the pool: registration writes the row in the step that
\* adds the agent, and an update is only launched once its agent left
\* "running".
LEMMA RowInvNext ==
    ASSUME PoolInv, RowInv, [Next]_vars
    PROVE  RowInv'
  <1> USE NoneAssumption DEF RowInv, PoolInv, PoolType, agentVars, goVars, dbVars, None
  <1>1. CASE UNCHANGED vars
    BY <1>1 DEF vars
  <1>2. CASE RegisterSession
    BY <1>2 DEF RegisterSession
  <1>3. CASE RemoveSession
    BY <1>3 DEF RemoveSession
  <1>4. CASE CancelTurn
    BY <1>4 DEF CancelTurn
  <1>5. CASE UpdateRun
    BY <1>5 DEF UpdateRun
  <1>6. CASE CancelRunningAgents
    BY <1>6 DEF CancelRunningAgents, StopAll, RunningAgents
  <1>7. ASSUME NEW a \in Agents, AgentStep(a) PROVE RowInv'
    BY <1>7 DEF AgentStep, StartAgent, ExecuteReturns, MarkStatus,
               SettleSubtask, BeginUpdate, EmitEvent, SignalCompletion,
               AgentInv, Before, After
  <1>8. ASSUME NEW a \in Agents, StopAgent(a) PROVE RowInv'
    BY <1>8 DEF StopAgent, StopAll, RunningAgents, BeginUpdate, AgentInv,
               Terminal
  <1>9. ASSUME NEW m \in Messages, NotifyUserMessage(m) PROVE RowInv'
    BY <1>9 DEF NotifyUserMessage
  <1>10. ASSUME NEW c \in Calls, NEW a \in Agents, NEW t, BeginSpawn(c, a, t) PROVE RowInv'
    BY <1>10 DEF BeginSpawn, AgentInv
  <1>11. ASSUME NEW c \in Calls, RegisterAgent(c) PROVE RowInv'
    BY <1>11 DEF RegisterAgent, CallInv
  <1>12. ASSUME NEW c \in Calls, CallStep(c) PROVE RowInv'
    BY <1>12, <1>10, <1>11
    DEF CallStep, Spawn, SpawnWithDescription, RestartAgent, RefuseAgent,
        Return, WaitForAgent, AgentReported, WaitForAgentCancelled,
        WaitForAllSessionAgents, WaitSessionCtx, CollectChannels, AllDone,
        Interrupted, WaitCancelled, Wake, ReadHasRunning, CleanupIfNoRunning
  <1>13. QED
    BY <1>1, <1>2, <1>3, <1>4, <1>5, <1>6, <1>7, <1>8, <1>9, <1>12 DEF Next

\* The only step that makes an agent of the pool running, or gives it a row,
\* is its registration.
LEMMA RecordedGrows ==
    ASSUME PoolInv, RowInv, RunStorage, [Next]_vars
    PROVE  \/ RecordedAgents' \subseteq RecordedAgents
           \/ \E c \in Calls : RegisterAgent(c)
  <1> USE NoneAssumption DEF RecordedAgents, RunningAgents, PoolInv, PoolType, agentVars, dbVars, goVars, None
  <1>1. CASE UNCHANGED vars
    BY <1>1 DEF vars
  <1>2. CASE UpdateRun
    BY <1>2 DEF UpdateRun, RowInv
  <1>8. CASE RegisterSession \/ RemoveSession \/ CancelTurn \/ CancelRunningAgents
    BY <1>8 DEF RegisterSession, RemoveSession, CancelTurn, CancelRunningAgents, StopAll
  <1>3. ASSUME NEW a \in Agents, AgentStep(a) \/ StopAgent(a)
        PROVE  RecordedAgents' \subseteq RecordedAgents
    BY <1>3 DEF AgentStep, StartAgent, ExecuteReturns, MarkStatus, SettleSubtask, EmitEvent,
                SignalCompletion, StopAgent, StopAll
  <1>4. ASSUME NEW m \in Messages, NotifyUserMessage(m)
        PROVE  RecordedAgents' \subseteq RecordedAgents
    BY <1>4 DEF NotifyUserMessage
  <1>5. ASSUME NEW c \in Calls, NEW a \in Agents, NEW t, BeginSpawn(c, a, t)
        PROVE  RecordedAgents' \subseteq RecordedAgents
    BY <1>5 DEF BeginSpawn, AgentInv
  <1>6. ASSUME NEW c \in Calls, CallStep(c), ~RegisterAgent(c)
        PROVE  RecordedAgents' \subseteq RecordedAgents
    BY <1>6, <1>5
    DEF CallStep, Spawn, SpawnWithDescription, RestartAgent, RefuseAgent, WaitForAgent,
        AgentReported, WaitForAgentCancelled, WaitForAllSessionAgents, WaitSessionCtx,
        CollectChannels, AllDone, Interrupted, WaitCancelled, Wake, ReadHasRunning,
        CleanupIfNoRunning
  <1>7. QED
    BY <1>1, <1>2, <1>3, <1>4, <1>6, <1>8 DEF Next

\* registerAgent admits an agent only below the limit, counted over rows that
\* include those of the running agents.
LEMMA RecordedWithinLimitNext ==
    ASSUME PoolInv, RowInv, RecordedWithinLimit, [Next]_vars
    PROVE  RecordedWithinLimit'
  <1> SUFFICES ASSUME MaxConcurrent > 0, RunStorage
               PROVE  Cardinality(RecordedAgents') <= MaxConcurrent
    BY DEF RecordedWithinLimit, RecordedAgents
  <1> DEFINE rows == {a \in Agents : run[a] = "running"}
  <1>1. RecordedAgents \subseteq rows
    BY DEF RowInv, RecordedAgents, RunningAgents, PoolInv, PoolType
  <1>2. IsFiniteSet(rows) /\ IsFiniteSet(RecordedAgents)
    BY <1>1, FiniteAssumption, FS_Subset
  <1>3. /\ Cardinality(rows) \in Nat
        /\ Cardinality(RecordedAgents) \in Nat
        /\ Cardinality(RecordedAgents) <= Cardinality(rows)
    BY <1>1, <1>2, FS_CardinalityType, FS_Subset
  <1>4. CASE RecordedAgents' \subseteq RecordedAgents
    <2>1. /\ IsFiniteSet(RecordedAgents')
          /\ Cardinality(RecordedAgents') <= Cardinality(RecordedAgents)
      BY <1>2, <1>4, FS_Subset
    <2>2. Cardinality(RecordedAgents') \in Nat
      BY <2>1, FS_CardinalityType
    <2>3. QED
      BY <1>3, <2>1, <2>2, LimitAssumption DEF RecordedWithinLimit
  <1>5. ASSUME NEW c \in Calls, RegisterAgent(c)
        PROVE  Cardinality(RecordedAgents') <= MaxConcurrent
    <2>1. RecordedAgents' \subseteq RecordedAgents \cup {callAgent[c]}
      BY <1>5 DEF RegisterAgent, RecordedAgents, RunningAgents
    <2>2. /\ IsFiniteSet(RecordedAgents \cup {callAgent[c]})
          /\ Cardinality(RecordedAgents \cup {callAgent[c]}) <= Cardinality(RecordedAgents) + 1
      <3>1. /\ IsFiniteSet(RecordedAgents \cup {callAgent[c]})
            /\ Cardinality(RecordedAgents \cup {callAgent[c]})
                  = IF callAgent[c] \in RecordedAgents THEN Cardinality(RecordedAgents)
                                                      ELSE Cardinality(RecordedAgents) + 1
        BY <1>2, FS_AddElement, Zenon
      <3>2. QED
        BY <1>3, <3>1
    <2>3. /\ IsFiniteSet(RecordedAgents')
          /\ Cardinality(RecordedAgents') <= Cardinality(RecordedAgents \cup {callAgent[c]})
      BY <2>1, <2>2, FS_Subset
    <2>4. /\ Cardinality(RecordedAgents') \in Nat
          /\ Cardinality(RecordedAgents \cup {callAgent[c]}) \in Nat
      BY <2>2, <2>3, FS_CardinalityType
    <2>5. Cardinality(rows) < MaxConcurrent
      BY <1>3, <1>5, LimitAssumption DEF RegisterAgent, LimitReached
    <2>6. QED
      BY <1>3, <2>2, <2>3, <2>4, <2>5, LimitAssumption
  <1>6. QED
    BY <1>4, <1>5, RecordedGrows

\* The running agents are those with a row and those whose Save failed.
LEMMA LimitOfRunning ==
    ASSUME RecordedWithinLimit, PoolType
    PROVE  WithinLimit
  <1> SUFFICES ASSUME MaxConcurrent > 0, RunStorage
               PROVE  Cardinality(RunningAgents)
                         <= MaxConcurrent + Cardinality(UnsavedAgents)
    BY DEF WithinLimit
  <1>1. /\ RecordedAgents \cup UnsavedAgents = RunningAgents
        /\ RecordedAgents \cap UnsavedAgents = {}
        /\ RecordedAgents \subseteq Agents /\ UnsavedAgents \subseteq Agents
    BY DEF RecordedAgents, UnsavedAgents, RunningAgents, PoolType
  <1>2. IsFiniteSet(RecordedAgents) /\ IsFiniteSet(UnsavedAgents)
    BY <1>1, FiniteAssumption, FS_Subset
  <1>3. Cardinality(RecordedAgents \cup UnsavedAgents)
           = Cardinality(RecordedAgents) + Cardinality(UnsavedAgents)
                - Cardinality(RecordedAgents \cap UnsavedAgents)
    BY <1>2, FS_Union
  <1>4. /\ Cardinality(RecordedAgents) \in Nat
        /\ Cardinality(UnsavedAgents) \in Nat
        /\ Cardinality(RecordedAgents \cap UnsavedAgents) = 0
    BY <1>1, <1>2, FS_CardinalityType, FS_EmptySet
  <1>5. Cardinality(RunningAgents) = Cardinality(RecordedAgents \cup UnsavedAgents)
    BY <1>1, Zenon
  <1>6. QED
    BY <1>3, <1>4, <1>5, LimitAssumption DEF RecordedWithinLimit

\* For every AgentPool with a run storage, the agents running at a time exceed
\* maxConcurrent at most by those among them whose row could not be saved.
THEOREM SpecWithinLimit == Spec => []WithinLimit
  <1>1. Init => RowInv /\ RecordedWithinLimit
    <2>1. Init => RecordedAgents = {}
      BY DEF Init, RecordedAgents, RunningAgents
    <2>2. Init => RowInv
      BY DEF Init, RowInv
    <2>3. Init => RecordedWithinLimit
      BY <2>1, FS_EmptySet, LimitAssumption DEF RecordedWithinLimit
    <2>4. QED
      BY <2>2, <2>3
  <1>2. PoolInv /\ RowInv /\ RecordedWithinLimit /\ [Next]_vars
           => RowInv' /\ RecordedWithinLimit'
    BY RowInvNext, RecordedWithinLimitNext
  <1>3. PoolInv /\ RecordedWithinLimit => WithinLimit
    BY LimitOfRunning DEF PoolInv
  <1>4. QED
    BY <1>1, <1>2, <1>3, SpecPoolInv, PTL DEF Spec

-----------------------------------------------------------------------------
(* The rest of the type invariant.                                         *)

\* The part of the type invariant the proofs above do not need.
RestType ==
    /\ agentCancelled \subseteq Agents
    /\ agentCtx \in [Agents -> Nat]
    /\ taskOf \in [Agents -> Tasks \cup {None}]
    /\ sessionCtx \in Nat /\ ctxCount \in Nat
    /\ registered \in BOOLEAN /\ turns \in Nat
    /\ task \in [Tasks -> TaskStatuses]
    /\ interruptCtx \in Nat /\ interruptCount \in Nat
    /\ claimed \in BOOLEAN
    /\ cause \in [1..MaxCtx -> Messages \cup {None}]
    /\ callCancelled \subseteq Calls
    /\ waitInterrupt \in [Calls -> Nat]
    /\ waitCtx \in [Calls -> Nat]
    /\ channels \in [Calls -> SUBSET Agents]
    /\ hasRunning \in [Calls -> BOOLEAN]
    /\ unsettled \subseteq Agents

\* A spawn is on a subtask or on none; it assigns the subtask.
LEMMA BeginSpawnType ==
    ASSUME PoolType, RestType, NEW c \in Calls, NEW a \in Agents,
           NEW t \in Tasks \cup {None}, BeginSpawn(c, a, t)
    PROVE  RestType'
<1>1. PICK x \in 1..MaxCtx : /\ GetOrCreateSessionCtx(x)
                             /\ agentCtx' = [agentCtx EXCEPT ![a] = x]
  BY DEF BeginSpawn
<1>2. x \in Nat
  BY LimitAssumption
<1>3. sessionCtx' \in Nat /\ ctxCount' \in Nat
  BY <1>1, <1>2 DEF GetOrCreateSessionCtx, RestType
<1>4. task' \in [Tasks -> TaskStatuses]
  BY DEF BeginSpawn, AssignTaskToAgent, RestType, TaskStatuses
<1> QED
  BY <1>1, <1>2, <1>3, <1>4
     DEF BeginSpawn, RestType, interruptVars, waitVars, historyVars

\* Every step keeps the rest of the types.
LEMMA RestTypeNext ==
    ASSUME PoolType, RestType, [Next]_vars
    PROVE  RestType'
<1> USE DEF RestType, PoolType, RunningAgents, agentVars, goVars, dbVars,
            interruptVars, waitVars, callVars, sessionVars, historyVars
<1>1. CASE UNCHANGED vars
  BY <1>1 DEF vars
<1>2. CASE RegisterSession
  BY <1>2 DEF RegisterSession
<1>3. CASE RemoveSession
  BY <1>3 DEF RemoveSession
<1>4. CASE CancelTurn
  BY <1>4 DEF CancelTurn
<1>5. CASE UpdateRun
  BY <1>5 DEF UpdateRun
<1>6. CASE CancelRunningAgents
  BY <1>6 DEF CancelRunningAgents, StopAll
<1>7. ASSUME NEW a \in Agents, SettleSubtask(a)
      PROVE  RestType'
  <2>1. PICK new \in {"completed", "failed"} :
          \/ SettleTask(taskOf[a], new) /\ UNCHANGED unsettled
          \/ SettleTaskFails(a)
    BY <1>7 DEF SettleSubtask
  <2>2. task' \in [Tasks -> TaskStatuses] /\ unsettled' \subseteq Agents
    <3>1. CASE SettleTask(taskOf[a], new) /\ UNCHANGED unsettled
      BY <3>1 DEF SettleTask, TaskStatuses
    <3>2. CASE SettleTaskFails(a)
      BY <3>2 DEF SettleTaskFails
    <3> QED
      BY <2>1, <3>1, <3>2
  <2> QED
    BY <1>7, <2>2 DEF SettleSubtask
<1>8. ASSUME NEW a \in Agents, AgentStep(a)
      PROVE  RestType'
  BY <1>7, <1>8 DEF AgentStep, StartAgent, ExecuteReturns, MarkStatus,
                    EmitEvent, SignalCompletion
<1>9. ASSUME NEW a \in Agents, StopAgent(a)
      PROVE  RestType'
  BY <1>9 DEF StopAgent, StopAll
<1>10. ASSUME NEW m \in Messages, NotifyUserMessage(m)
       PROVE  RestType'
  <2>1. claimed' \in BOOLEAN
    BY <1>10, Zenon DEF NotifyUserMessage
  <2>2. interruptCtx' \in Nat /\ interruptCount' \in Nat
    BY <1>10 DEF NotifyUserMessage
  <2>3. cause' \in [1..MaxCtx -> Messages \cup {None}]
    BY <1>10 DEF NotifyUserMessage
  <2> QED
    BY <1>10, <2>1, <2>2, <2>3 DEF NotifyUserMessage
<1>11. ASSUME NEW c \in Calls, Spawn(c) \/ SpawnWithDescription(c) \/ RestartAgent(c)
       PROVE  RestType'
  BY <1>11, BeginSpawnType DEF Spawn, SpawnWithDescription, RestartAgent
<1>12. ASSUME NEW c \in Calls, WaitForAllSessionAgents(c)
       PROVE  RestType'
  <2>1. PICK i \in 1..MaxCtx :
           /\ GetOrCreateInterruptCtx(i)
           /\ waitInterrupt' = [waitInterrupt EXCEPT ![c] = i]
    BY <1>12 DEF WaitForAllSessionAgents
  <2>2. i \in Nat
    BY LimitAssumption
  <2>3. /\ interruptCtx' \in Nat /\ interruptCount' \in Nat
        /\ claimed' \in BOOLEAN /\ cause' = cause
    BY <2>1, <2>2 DEF GetOrCreateInterruptCtx
  <2> QED
    BY <1>12, <2>1, <2>2, <2>3 DEF WaitForAllSessionAgents
<1>13. ASSUME NEW c \in Calls, WaitSessionCtx(c)
       PROVE  RestType'
  <2>1. PICK x \in 1..MaxCtx :
           /\ GetOrCreateSessionCtx(x)
           /\ waitCtx' = [waitCtx EXCEPT ![c] = x]
    BY <1>13 DEF WaitSessionCtx
  <2>2. x \in Nat
    BY LimitAssumption
  <2>3. sessionCtx' \in Nat /\ ctxCount' \in Nat
    BY <2>1, <2>2 DEF GetOrCreateSessionCtx
  <2> QED
    BY <1>13, <2>1, <2>2, <2>3 DEF WaitSessionCtx
<1>14. ASSUME NEW c \in Calls, CollectChannels(c)
       PROVE  RestType'
  BY <1>14 DEF CollectChannels
<1>15. ASSUME NEW c \in Calls, ReadHasRunning(c)
       PROVE  RestType'
  BY <1>15 DEF ReadHasRunning
<1>16. ASSUME NEW c \in Calls, CleanupIfNoRunning(c)
       PROVE  RestType'
  <2>1. claimed' \in BOOLEAN
    BY <1>16, Zenon DEF CleanupIfNoRunning
  <2>2. interruptCtx' \in Nat
    BY <1>16 DEF CleanupIfNoRunning
  <2> QED
    BY <1>16, <2>1, <2>2 DEF CleanupIfNoRunning
<1>17. ASSUME NEW c \in Calls, CallStep(c)
       PROVE  RestType'
  BY <1>11, <1>12, <1>13, <1>14, <1>15, <1>16, <1>17
     DEF CallStep, RegisterAgent, RefuseAgent, Return, WaitForAgent,
         AgentReported, WaitForAgentCancelled, AllDone, Interrupted,
         WaitCancelled, Wake
<1> QED
  BY <1>1, <1>2, <1>3, <1>4, <1>5, <1>6, <1>8, <1>9, <1>10, <1>17 DEF Next

\* The rest of the types in every reachable state.
THEOREM SpecRestType == Spec => []RestType
<1>1. ASSUME Init PROVE RestType
  <2>1. hasRunning \in [Calls -> BOOLEAN] /\ registered \in BOOLEAN
        /\ claimed \in BOOLEAN
    BY <1>1, Zenon DEF Init
  <2>2. task \in [Tasks -> TaskStatuses]
    BY <1>1 DEF Init, TaskStatuses
  <2> QED
    BY <1>1, <2>1, <2>2 DEF Init, RestType
<1>2. PoolInv /\ RestType /\ [Next]_vars => RestType'
  BY RestTypeNext DEF PoolInv
<1> QED
  BY <1>1, <1>2, SpecPoolInv, PTL DEF Spec

\* Every variable of the pool, its agents and its calls keeps its type.
THEOREM SpecTypeOK == Spec => []TypeOK
<1>1. PoolInv /\ RestType => TypeOK
  BY DEF PoolInv, PoolType, RestType, TypeOK, Before, After
<1> QED
  BY <1>1, SpecPoolInv, SpecRestType, PTL

-----------------------------------------------------------------------------
(* The subtasks of agents that answered.                                   *)

Settled == {"settled", "emitted", "done"}

\* No other agent was spawned on the subtask of a.
SoleAgent(a) ==
    /\ taskOf[a] # None
    /\ \A b \in Agents \ {a} : taskOf[b] # taskOf[a]

\* A subtask leaves pending with its first agent, and stays in_progress until
\* that agent settles it; a second one makes no promise, and a call that
\* fails keeps none.
TaskInv ==
    /\ \A t \in Tasks : task[t] # "pending" => \E a \in Agents : taskOf[a] = t
    /\ \A a \in Agents : status[a] = None => taskOf[a] = None
    /\ \A a \in Agents : SoleAgent(a) =>
        /\ goPc[a] \notin Settled => task[taskOf[a]] = "in_progress"
        /\ goPc[a] \in Settled /\ outcome[a] = "ok" /\ a \notin unsettled
              => task[taskOf[a]] = "completed"

\* A step that moves no goroutine across its settlement and no subtask.
LEMMA TaskFrame ==
    ASSUME TaskInv, UNCHANGED <<task, taskOf, unsettled>>,
           \A a \in Agents :
               /\ status'[a] = None => status[a] = None
               /\ goPc'[a] \notin Settled => goPc[a] \notin Settled
               /\ goPc'[a] \in Settled /\ outcome'[a] = "ok" =>
                     goPc[a] \in Settled /\ outcome[a] = "ok"
    PROVE  TaskInv'
BY DEF TaskInv, SoleAgent

\* The agent is the first on the subtask, which it takes, or the subtask is
\* shared from now on.
LEMMA BeginSpawnTask ==
    ASSUME PoolInv, RestType, TaskInv, NEW c \in Calls, NEW a \in Agents,
           NEW t \in Tasks \cup {None}, BeginSpawn(c, a, t)
    PROVE  TaskInv'
<1>1. /\ status[a] = None /\ goPc[a] = None
      /\ taskOf[a] = None /\ None \notin Tasks
  BY NoneAssumption DEF BeginSpawn, PoolInv, AgentInv, TaskInv
<1>2. /\ goPc' = goPc /\ outcome' = outcome /\ unsettled' = unsettled
      /\ taskOf' = [taskOf EXCEPT ![a] = t]
      /\ status' = [status EXCEPT ![a] = "running"]
      /\ task' = IF t # None /\ task[t] = "pending"
                 THEN [task EXCEPT ![t] = "in_progress"] ELSE task
  BY DEF BeginSpawn, goVars, historyVars, AssignTaskToAgent
<1>3. /\ taskOf'[a] = t /\ status'[a] = "running"
      /\ \A b \in Agents \ {a} : taskOf'[b] = taskOf[b] /\ status'[b] = status[b]
      /\ t # None => task'[t] # "pending"
      /\ t # None /\ task[t] = "pending" => task'[t] = "in_progress"
      /\ \A s \in Tasks : s # t => task'[s] = task[s]
  BY <1>2 DEF RestType, PoolInv, PoolType
<1>4. \A s \in Tasks : task'[s] # "pending" => \E b \in Agents : taskOf'[b] = s
  <2> SUFFICES ASSUME NEW s \in Tasks, task'[s] # "pending", s # t
               PROVE  \E b \in Agents : taskOf'[b] = s
    BY <1>3
  <2>1. PICK b \in Agents : taskOf[b] = s
    BY <1>3 DEF TaskInv
  <2> QED
    BY <2>1, <1>1, <1>3
<1>5. \A b \in Agents : status'[b] = None => taskOf'[b] = None
  BY <1>3 DEF TaskInv, None
<1>6. ASSUME NEW b \in Agents, SoleAgent(b)'
      PROVE  /\ goPc'[b] \notin Settled => task'[taskOf'[b]] = "in_progress"
             /\ goPc'[b] \in Settled /\ outcome'[b] = "ok" /\ b \notin unsettled'
                   => task'[taskOf'[b]] = "completed"
  <2>1. CASE b = a
    <3>1. t \in Tasks /\ \A d \in Agents \ {a} : taskOf[d] # t
      BY <1>3, <1>6, <2>1 DEF SoleAgent
    <3>2. task[t] = "pending"
      BY <1>1, <3>1 DEF TaskInv
    <3>3. task'[taskOf'[a]] = "in_progress"
      BY <1>3, <3>1, <3>2, NoneAssumption
    <3> QED
      BY <1>1, <1>2, <2>1, <3>3 DEF Settled, None
  <2>2. CASE b # a
    <3>1. taskOf'[b] = taskOf[b] /\ taskOf[b] # t /\ taskOf[b] \in Tasks
      BY <1>3, <1>6, <2>2 DEF SoleAgent, RestType
    <3>2. SoleAgent(b)
      BY <1>1, <1>3, <1>6, <2>2, <3>1 DEF SoleAgent
    <3>3. task'[taskOf'[b]] = task[taskOf[b]]
      BY <1>3, <3>1
    <3> QED
      BY <1>2, <3>2, <3>3 DEF TaskInv
  <2> QED
    BY <2>1, <2>2
<1> QED
  BY <1>4, <1>5, <1>6 DEF TaskInv

\* The sole agent of a subtask finds it in_progress and settles it as it
\* ended, unless the call fails; no other agent can.
LEMMA SettleSubtaskTask ==
    ASSUME PoolInv, RestType, TaskInv, NEW a \in Agents, SettleSubtask(a)
    PROVE  TaskInv'
<1>1. PICK new \in {"completed", "failed"} :
        /\ outcome[a] = "ok" => new = "completed"
        /\ \/ SettleTask(taskOf[a], new) /\ UNCHANGED unsettled
           \/ SettleTaskFails(a)
  BY DEF SettleSubtask
<1>2. /\ goPc[a] = "marked" /\ goPc' = [goPc EXCEPT ![a] = "settled"]
      /\ outcome' = outcome /\ taskOf' = taskOf /\ status' = status
      /\ unsettled \subseteq unsettled'
      /\ \A b \in Agents \ {a} : b \in unsettled' => b \in unsettled
  BY <1>1 DEF SettleSubtask, SettleTaskFails, agentVars
<1>3. /\ goPc'[a] = "settled"
      /\ \A b \in Agents \ {a} : goPc'[b] = goPc[b]
      /\ \A s \in Tasks : s # taskOf[a] => task'[s] = task[s]
      /\ \A s \in Tasks : task'[s] # "pending" => task[s] # "pending"
      /\ taskOf[a] # None /\ task[taskOf[a]] = "in_progress"
         /\ a \notin unsettled'
            => task'[taskOf[a]] = new
  BY <1>1, <1>2 DEF SettleTask, SettleTaskFails, RestType, PoolInv, PoolType
<1>4. ASSUME NEW b \in Agents, SoleAgent(b)'
      PROVE  /\ goPc'[b] \notin Settled => task'[taskOf'[b]] = "in_progress"
             /\ goPc'[b] \in Settled /\ outcome'[b] = "ok" /\ b \notin unsettled'
                   => task'[taskOf'[b]] = "completed"
  <2>1. SoleAgent(b)
    BY <1>2, <1>4 DEF SoleAgent
  <2>2. CASE b = a
    <3>1. task[taskOf[a]] = "in_progress"
      BY <1>2, <2>1, <2>2 DEF TaskInv, Settled
    <3>2. a \notin unsettled' => task'[taskOf'[a]] = new
      BY <1>2, <1>3, <2>1, <2>2, <3>1 DEF SoleAgent
    <3> QED
      BY <1>1, <1>2, <1>3, <2>2, <3>2 DEF Settled
  <2>3. CASE b # a
    <3>1. taskOf[b] # taskOf[a] /\ taskOf[b] \in Tasks
      BY <2>1, <2>3 DEF SoleAgent, RestType
    <3> QED
      BY <1>2, <1>3, <2>1, <2>3, <3>1 DEF TaskInv
  <2> QED
    BY <2>2, <2>3
<1> QED
  BY <1>2, <1>3, <1>4 DEF TaskInv

\* Every step keeps the promise of a subtask.
LEMMA TaskInvNext ==
    ASSUME PoolInv, RestType, TaskInv, [Next]_vars
    PROVE  TaskInv'
<1> USE DEF agentVars, goVars, dbVars, callVars, sessionVars, historyVars
<1>1. CASE UNCHANGED vars
  BY <1>1, TaskFrame DEF vars
<1>2. CASE RegisterSession
  BY <1>2, TaskFrame DEF RegisterSession
<1>3. CASE RemoveSession
  BY <1>3, TaskFrame DEF RemoveSession
<1>4. CASE CancelTurn
  BY <1>4, TaskFrame DEF CancelTurn
<1>5. CASE UpdateRun
  BY <1>5, TaskFrame DEF UpdateRun
<1>6. CASE CancelRunningAgents
  BY <1>6, TaskFrame DEF CancelRunningAgents, StopAll, None
<1>7. ASSUME NEW a \in Agents, StopAgent(a)
      PROVE  TaskInv'
  BY <1>7, TaskFrame DEF StopAgent, StopAll, None
<1>8. ASSUME NEW m \in Messages, NotifyUserMessage(m)
      PROVE  TaskInv'
  BY <1>8, TaskFrame DEF NotifyUserMessage
<1>9. ASSUME NEW a \in Agents, StartAgent(a)
      PROVE  TaskInv'
  <2>1. UNCHANGED <<task, taskOf, status, unsettled>>
    BY <1>9 DEF StartAgent
  <2>2. \A b \in Agents :
          /\ goPc[b] \notin Settled <=> goPc'[b] \notin Settled
          /\ goPc'[b] \in Settled => outcome'[b] = outcome[b]
    BY <1>9 DEF StartAgent, Settled, PoolInv, PoolType
  <2> QED
    BY <2>1, <2>2, TaskFrame
<1>10. ASSUME NEW a \in Agents, ExecuteReturns(a)
       PROVE  TaskInv'
  <2>1. UNCHANGED <<task, taskOf, status, unsettled>>
    BY <1>10 DEF ExecuteReturns
  <2>2. \A b \in Agents :
          /\ goPc[b] \notin Settled <=> goPc'[b] \notin Settled
          /\ goPc'[b] \in Settled => outcome'[b] = outcome[b]
    BY <1>10 DEF ExecuteReturns, Settled, PoolInv, PoolType
  <2> QED
    BY <2>1, <2>2, TaskFrame
<1>11. ASSUME NEW a \in Agents, MarkStatus(a)
       PROVE  TaskInv'
  <2>1. UNCHANGED <<task, taskOf, outcome, unsettled>>
    BY <1>11 DEF MarkStatus
  <2>2. \A b \in Agents : status'[b] = None => status[b] = None
    BY <1>11 DEF MarkStatus, PoolInv, PoolType, None
  <2>3. /\ goPc[a] = "returned"
        /\ goPc'[a] \in {"marked", "done"}
        /\ goPc'[a] = "done" => outcome[a] # "ok"
        /\ \A b \in Agents \ {a} : goPc'[b] = goPc[b]
    BY <1>11 DEF MarkStatus, PoolInv, PoolType
  <2> QED
    BY <2>1, <2>2, <2>3, TaskFrame DEF Settled
<1>12. ASSUME NEW a \in Agents, EmitEvent(a) \/ SignalCompletion(a)
       PROVE  TaskInv'
  <2>1. UNCHANGED <<task, taskOf, status, outcome, unsettled>>
    BY <1>12 DEF EmitEvent, SignalCompletion
  <2>2. \A b \in Agents : goPc[b] \notin Settled <=> goPc'[b] \notin Settled
    BY <1>12 DEF EmitEvent, SignalCompletion, Settled, PoolInv, PoolType
  <2> QED
    BY <2>1, <2>2, TaskFrame
<1>13. ASSUME NEW c \in Calls, Spawn(c) \/ SpawnWithDescription(c) \/ RestartAgent(c)
       PROVE  TaskInv'
  <2>1. PICK a \in Agents, t \in Tasks \cup {None} : BeginSpawn(c, a, t)
    BY <1>13 DEF Spawn, SpawnWithDescription, RestartAgent, RestType, PoolInv,
                 PoolType
  <2> QED
    BY <2>1, BeginSpawnTask
<1>14. ASSUME NEW c \in Calls, RegisterAgent(c)
       PROVE  TaskInv'
  <2>1. UNCHANGED <<task, taskOf, status, outcome, unsettled>>
    BY <1>14 DEF RegisterAgent
  <2>2. callAgent[c] \in Agents /\ goPc[callAgent[c]] = None
    BY <1>14 DEF RegisterAgent, PoolInv, CallInv
  <2>3. \A b \in Agents : goPc[b] \notin Settled <=> goPc'[b] \notin Settled
    BY <1>14, <2>2 DEF RegisterAgent, Settled, PoolInv, PoolType, None
  <2> QED
    BY <2>1, <2>3, TaskFrame
<1>15. ASSUME NEW c \in Calls, CallStep(c)
       PROVE  TaskInv'
  <2>1. CASE UNCHANGED <<task, taskOf, status, goPc, outcome, unsettled>>
    BY <2>1, TaskFrame
  <2> QED
    BY <1>13, <1>14, <1>15, <2>1
       DEF CallStep, RefuseAgent, Return, WaitForAgent, AgentReported,
           WaitForAgentCancelled, WaitForAllSessionAgents, WaitSessionCtx,
           CollectChannels, AllDone, Interrupted, WaitCancelled, Wake,
           ReadHasRunning, CleanupIfNoRunning
<1> QED
  BY <1>1, <1>2, <1>3, <1>4, <1>5, <1>6, <1>7, <1>8, <1>9, <1>10, <1>11,
     <1>12, <1>15, SettleSubtaskTask DEF Next, AgentStep

\* For every AgentPool, an agent that answered, had its subtask to itself and
\* whose CompleteTask call did not fail has completed it by the time its
\* client is told, even if its session was removed or it was stopped meanwhile.
THEOREM SpecCompletionRecorded == Spec => []CompletionRecorded
<1>1. Init => TaskInv
  BY DEF Init, TaskInv, SoleAgent
<1>2. PoolInv /\ RestType /\ TaskInv /\ [Next]_vars => TaskInv'
  BY TaskInvNext
<1>3. TaskInv => CompletionRecorded
  BY DEF TaskInv, SoleAgent, CompletionRecorded, Settled
<1> QED
  BY <1>1, <1>2, <1>3, SpecPoolInv, SpecRestType, PTL DEF Spec
=============================================================================
