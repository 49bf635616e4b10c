----------------------------- MODULE Lifecycle -----------------------------
(***************************************************************************)
(* Delegation inside one chat session: the spawner that routes a spawn     *)
(* call (CompositeAgentSpawner), the manager that keeps an instance and,   *)
(* for persistent agents, the past exchanges per agent and session         *)
(* (lifecycle.Manager), and the dispatcher that wraps a run in a task      *)
(* packet (lifecycle.Dispatcher).                                          *)
(*                                                                         *)
(* A run is one ExecuteTask.  An agent that runs may call the spawn tool,  *)
(* several times at once when its tools run in parallel, and its own run   *)
(* does not end before the calls return.  The manager's maps are locked;   *)
(* the state of an instance is not, so every look at it and every          *)
(* transition is a step (the check and the assignment inside TransitionTo  *)
(* are taken as one).  What an agent answers, and whether it fails, is     *)
(* left open.                                                              *)
(***************************************************************************)
EXTENDS AgentIds, Integers, FiniteSets

CONSTANTS
    MaxRuns,    \* bound: runs that are ever started
    MaxEdits    \* bound: changes of an agent's lifecycle setting, and resets

ASSUME MaxRunsAssumption == MaxRuns \in Nat
ASSUME MaxEditsAssumption == MaxEdits \in Nat

VARIABLES
    mode,       \* mode[a]: the lifecycle setting of agent a
    slot,       \* Manager.instances: the run that created the instance, 0 if none
    inst,       \* inst[i]: the instance run i created
    past,       \* Manager.contexts: the runs whose exchange is kept
    due,        \* history: exchanges stored since the context was last cleared
    run,        \* run[r]: where run r is
    packet,     \* packet[r]: status of the task packet of a dispatched run
    started,    \* runs started so far
    edits       \* changes and resets so far

manager == <<slot, inst, past, due>>
vars == <<mode, manager, run, packet, started, edits>>

Runs == 1..MaxRuns
Modes == {"spawn", "persistent"}
States == {"none", "initializing", "ready", "running", "needs_input", "blocked",
           "degraded", "finished"}
PacketStatus == {"none", "pending", "running", "completed", "failed", "timeout"}

\* Instances are kept per agent and session.  A dispatched run passes its
\* task's id for the session, and the runs below it inherit that id: they
\* share the keys of the task, and no others do.
Keys == Agents \X (0..MaxRuns)

\* Steps of a run, up to its end: the answer was returned, the agent failed,
\* or the manager reported an error of its own.
Ends == {"answered", "failed", "refused", "disowned"}
Before == {"none", "get", "look1", "markReady", "look2", "markRunning"}
After == {"finish", "reready", "drop"}
PCs == Before \cup {"running"} \cup After \cup Ends

(* agent, task: what runs, and in which dispatched task if any; chain: the  *)
(* ancestors its context carries; parent: the run that made the call; inst: *)
(* the instance it works on; mode: the setting it was routed by; given: the *)
(* exchanges put before its input; shared: history, another run was using   *)
(* its instance at some time.                                               *)
NoRun == [pc |-> "none", agent |-> None, task |-> 0, chain |-> {}, parent |-> 0,
          inst |-> 0, mode |-> "spawn", given |-> {}, shared |-> FALSE]

Run == [pc : PCs, agent : Agents \cup {None}, task : 0..MaxRuns, chain : SUBSET Agents,
        parent : 0..MaxRuns, inst : 0..MaxRuns, mode : Modes, given : SUBSET Runs,
        shared : BOOLEAN]

Key(r) == <<run[r].agent, run[r].task>>

Instance == [mode : Modes, state : States, tokens : Nat]
NoInstance == [mode |-> "spawn", state |-> "none", tokens |-> 0]

TypeOK ==
    /\ mode \in [Agents -> Modes]
    /\ slot \in [Keys -> 0..MaxRuns]
    /\ inst \in [Runs -> Instance]
    /\ past \in [Keys -> SUBSET Runs]
    /\ due \in [Keys -> SUBSET Runs]
    /\ run \in [Runs -> Run]
    /\ packet \in [Runs -> PacketStatus]
    /\ started \in 0..MaxRuns
    /\ edits \in 0..MaxEdits

\* A session that has not delegated yet.
Init ==
    /\ mode \in [Agents -> Modes]
    /\ slot = [k \in Keys |-> 0]
    /\ inst = [i \in Runs |-> NoInstance]
    /\ past = [k \in Keys |-> {}]
    /\ due = [k \in Keys |-> {}]
    /\ run = [r \in Runs |-> NoRun]
    /\ packet = [r \in Runs |-> "none"]
    /\ started = 0
    /\ edits = 0

-----------------------------------------------------------------------------
(* The state machine of an instance.                                        *)

\* Mutant of validTransitions: a blocked agent can only be unblocked.
BlockedForGood(s) ==
    CASE s = "initializing" -> {"ready", "blocked"}
      [] s = "ready" -> {"running", "finished"}
      [] s = "running" -> {"needs_input", "blocked", "degraded", "finished"}
      [] s = "finished" -> {"ready"}
      [] OTHER -> {"running"}

validTransitions(s) ==
    CASE s = "initializing" -> {"ready", "blocked"}
      [] s = "ready" -> {"running", "finished"}
      [] s = "running" -> {"needs_input", "blocked", "degraded", "finished"}
      [] s \in {"needs_input", "blocked", "degraded"} -> {"running", "finished"}
      [] s = "finished" -> {"ready"}
      [] OTHER -> {}

CanTransitionTo(i, next) == next \in validTransitions(inst[i].state)
TransitionTo(i, next) == inst' = [inst EXCEPT ![i].state = next]

\* A run at pc works on an instance from the moment it has it to its end.
Using(i) == {r \in Runs : run[r].inst = i /\ run[r].pc \notin Ends}
Goto(r, pc) == run' = [run EXCEPT ![r].pc = pc]

\* A run that has ended is remembered by its end, and by what explains it if
\* the manager was to blame.
End(r, pc) ==
    run' = [run EXCEPT ![r] =
              IF pc \in {"refused", "disowned"}
              THEN [NoRun EXCEPT !.pc = pc, !.inst = run[r].inst,
                                     !.mode = run[r].mode, !.shared = run[r].shared]
              ELSE [NoRun EXCEPT !.pc = pc]]

-----------------------------------------------------------------------------
(* Spawning.                                                                *)

WithSpawnAncestor(chain, a) == chain \cup {a}

NewRun(a, task, chain, parent) ==
    [NoRun EXCEPT !.pc = "get", !.agent = a, !.task = task, !.chain = chain,
                  !.parent = parent, !.mode = mode[a]]

\* SpawnAgent: an agent of the caller's context is not spawned again; the
\* mode is looked up before the manager is called, with the session of the
\* caller.
SpawnAgent(a, parent) ==
    LET r == started + 1
        chain == IF parent = 0 THEN {} ELSE run[parent].chain
        task == IF parent = 0 THEN 0 ELSE run[parent].task
    IN  /\ started < MaxRuns
        /\ a \notin chain
        /\ run' = [run EXCEPT ![r] = NewRun(a, task, WithSpawnAncestor(chain, a), parent)]
        /\ started' = r
        /\ UNCHANGED <<mode, manager, packet, edits>>

\* The agent of the chat turn calls the tool: its context has no ancestors.
SpawnFromTurn == \E a \in Agents : SpawnAgent(a, 0)

SpawnFromRun ==
    \E p \in 1..started, a \in Agents :
        /\ run[p].pc = "running"
        /\ a # run[p].agent
        /\ SpawnAgent(a, p)

\* Dispatch: the packet is created, filed and started.  The server builds a
\* dispatcher, but nothing outside its tests calls it yet.
Dispatch ==
    \E a \in Agents :
        LET r == started + 1
        IN  /\ started < MaxRuns
            /\ run' = [run EXCEPT ![r] = NewRun(a, r, {}, 0)]
            /\ packet' = [packet EXCEPT ![r] = "running"]
            /\ started' = r
            /\ UNCHANGED <<mode, manager, edits>>

-----------------------------------------------------------------------------
(* ExecuteTask.                                                             *)

NeedsNewInstance(r) == slot[Key(r)] = 0 \/ run[r].mode = "spawn"

\* A run in spawn mode also clears the context; it does so in a section of
\* its own, but what others may do in between commutes with it.
getOrCreateInstance(r) ==
    LET k == Key(r)
        i == IF NeedsNewInstance(r) THEN r ELSE slot[k]
        others == Using(i) \ {r}
        spawn == run[r].mode = "spawn"
    IN  /\ run[r].pc = "get"
        /\ slot' = [slot EXCEPT ![k] = i]
        /\ inst' = IF i = r
                   THEN [inst EXCEPT ![r] = [mode |-> run[r].mode, state |-> "initializing",
                                             tokens |-> 0]]
                   ELSE [inst EXCEPT ![i].tokens = IF spawn THEN 0 ELSE @]
        /\ past' = IF spawn THEN [past EXCEPT ![k] = {}] ELSE past
        /\ due' = IF spawn THEN [due EXCEPT ![k] = {}] ELSE due
        /\ run' = [s \in Runs |->
                     IF s = r THEN [run[r] EXCEPT !.inst = i, !.shared = others # {}, !.pc = "look1"]
                     ELSE IF s \in others THEN [run[s] EXCEPT !.shared = TRUE] ELSE run[s]]
        /\ UNCHANGED <<mode, packet, started, edits>>

\* The agent starts: the past of a persistent one is put before its input.
\* No compactor is ever set, so a full context is only logged.
RunAgent(r) ==
    run' = [run EXCEPT ![r].pc = "running",
                       ![r].given = IF inst[run[r].inst].mode = "persistent"
                                    THEN past[Key(r)] ELSE {}]

\* The two looks at the state that decide on a transition.
LookInitializing(r) ==
    /\ run[r].pc = "look1"
    /\ Goto(r, IF inst[run[r].inst].state = "initializing" THEN "markReady" ELSE "look2")
    /\ UNCHANGED <<mode, manager, packet, started, edits>>

LookReady(r) ==
    /\ run[r].pc = "look2"
    /\ IF inst[run[r].inst].state = "ready" THEN Goto(r, "markRunning") ELSE RunAgent(r)
    /\ UNCHANGED <<mode, manager, packet, started, edits>>

\* Ending a dispatched run with an error: the packet has timed out if the
\* deadline has passed by then, and has failed otherwise.
Fails(r, pc) ==
    /\ End(r, pc)
    /\ IF packet[r] = "none" THEN UNCHANGED packet
       ELSE \E s \in {"failed", "timeout"} : packet' = [packet EXCEPT ![r] = s]

\* MarkReady and MarkRunning; an error ends the run before the agent runs.
Mark(r) ==
    LET i == run[r].inst
        next == IF run[r].pc = "markReady" THEN "ready" ELSE "running"
    IN  /\ run[r].pc \in {"markReady", "markRunning"}
        /\ IF CanTransitionTo(i, next)
           THEN /\ TransitionTo(i, next)
                /\ IF next = "ready" THEN Goto(r, "look2") ELSE RunAgent(r)
                /\ UNCHANGED packet
           ELSE Fails(r, "refused") /\ UNCHANGED inst
        /\ UNCHANGED <<mode, slot, past, due, started, edits>>

Returned(r) == \A c \in Runs : run[c].parent = r => run[c].pc \in Ends

\* The runner fails: the instance is blocked if it may be, and stays in the
\* map whatever its mode.
RunFails(r) ==
    /\ run[r].pc = "running"
    /\ Returned(r)
    /\ IF CanTransitionTo(run[r].inst, "blocked") THEN TransitionTo(run[r].inst, "blocked")
       ELSE UNCHANGED inst
    /\ Fails(r, "failed")
    /\ UNCHANGED <<mode, slot, past, due, started, edits>>

\* Mutant of Appended: the exchange is added to what was read before the run.
AppendedToRead(r) == run[r].given \cup {r}

Appended(r) == past[Key(r)] \cup {r}

\* The agent answers, and the exchange of a persistent one is stored.
RunAnswers(r) ==
    LET i == run[r].inst
        k == Key(r)
    IN  /\ run[r].pc = "running"
        /\ Returned(r)
        /\ IF inst[i].mode = "persistent"
           THEN /\ past' = [past EXCEPT ![k] = Appended(r)]
                /\ due' = [due EXCEPT ![k] = @ \cup {r}]
                /\ inst' = [inst EXCEPT ![i].tokens = @ + 1]
           ELSE UNCHANGED <<past, due, inst>>
        /\ Goto(r, "finish")
        /\ UNCHANGED <<mode, slot, packet, started, edits>>

\* packet.Complete of a dispatched run.
Completed(r) == IF packet[r] = "running" THEN [packet EXCEPT ![r] = "completed"] ELSE packet

\* FinishTask: to finished and, by the mode of the instance, back to ready;
\* an error takes the answer from the caller.
FinishTask(r) ==
    LET i == run[r].inst
        next == IF run[r].pc = "finish" THEN "finished" ELSE "ready"
        again == run[r].pc = "finish" /\ inst[i].mode = "persistent"
        end == IF run[r].mode = "spawn" THEN "drop" ELSE "answered"
    IN  /\ run[r].pc \in {"finish", "reready"}
        /\ IF CanTransitionTo(i, next)
           THEN /\ TransitionTo(i, next)
                /\ IF again THEN Goto(r, "reready")
                   ELSE IF end = "drop" THEN Goto(r, end) ELSE End(r, end)
                /\ packet' = IF ~again /\ end = "answered" THEN Completed(r) ELSE packet
           ELSE Fails(r, "disowned") /\ UNCHANGED inst
        /\ UNCHANGED <<mode, slot, past, due, started, edits>>

\* The key of a spawn run is deleted, whoever's instance is under it.
DropInstance(r) ==
    /\ run[r].pc = "drop"
    /\ slot' = [slot EXCEPT ![Key(r)] = 0]
    /\ past' = [past EXCEPT ![Key(r)] = {}]
    /\ due' = [due EXCEPT ![Key(r)] = {}]
    /\ End(r, "answered")
    /\ packet' = Completed(r)
    /\ UNCHANGED <<mode, inst, started, edits>>

-----------------------------------------------------------------------------
(* From outside.                                                            *)

\* Mutant of TokensReset: one exchange is taken off.
TokensLess(i) == inst[i].tokens - 1

TokensReset(i) == 0

ResetAgent ==
    /\ edits < MaxEdits
    /\ \E a \in Agents :
         LET k == <<a, 0>>
         IN  /\ inst' = IF slot[k] = 0 THEN inst
                        ELSE [inst EXCEPT ![slot[k]].tokens = TokensReset(slot[k])]
             /\ past' = [past EXCEPT ![k] = {}]
             /\ due' = [due EXCEPT ![k] = {}]
    /\ edits' = edits + 1
    /\ UNCHANGED <<mode, slot, run, packet, started>>

\* The agent's lifecycle setting is changed (AgentConfig).
ChangeMode ==
    /\ edits < MaxEdits
    /\ \E a \in Agents :
         mode' = [mode EXCEPT ![a] = IF @ = "spawn" THEN "persistent" ELSE "spawn"]
    /\ edits' = edits + 1
    /\ UNCHANGED <<manager, run, packet, started>>

Step(r) ==
    \/ getOrCreateInstance(r) \/ LookInitializing(r) \/ LookReady(r) \/ Mark(r)
    \/ RunFails(r) \/ RunAnswers(r) \/ FinishTask(r) \/ DropInstance(r)

Next ==
    \/ SpawnFromTurn \/ SpawnFromRun \/ Dispatch
    \/ ResetAgent \/ ChangeMode
    \/ \E r \in 1..started : Step(r)

Spec == Init /\ [][Next]_vars

-----------------------------------------------------------------------------
(* Properties.                                                              *)

\* The manager fails a run that its agent did not fail (MarkReady, MarkRunning
\* or FinishTask return an error) only if another run was using the same
\* instance meanwhile, or the instance was made under another lifecycle
\* setting: an agent that was blocked by an error recovers with its next run.
ManagerErrorExplained ==
    \A r \in Runs :
        run[r].pc \in {"refused", "disowned"} =>
            run[r].shared \/ inst[run[r].inst].mode # run[r].mode

\* What a persistent agent has answered stays in its context until that is
\* cleared, also when runs of the same agent end at the same time.
NoExchangeLost == \A k \in Keys : due[k] \subseteq past[k]
=============================================================================
