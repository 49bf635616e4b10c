------------------------- MODULE Delegation_proofs -------------------------
(***************************************************************************)
(* Proofs about delegation between agents: how a delegated run goes, in    *)
(* Lifecycle, and which agent may delegate to which, in SchemaGraph.       *)
(*                                                                         *)
(* Lifecycle, for any number of agents and runs: an exchange that was      *)
(* stored stays until the context is cleared, and the errors of the        *)
(* manager are explained by another run on the same instance or by a       *)
(* change of the lifecycle setting.                                        *)
(*                                                                         *)
(* SchemaGraph, for any number of agents, schemas, clients, relations and  *)
(* requests: the relations whose cycle check no other write has overtaken  *)
(* close no cycle, a schema keeps the fields nobody asked to change, and   *)
(* the search of the cycle check finds what paths lead to.                 *)
(***************************************************************************)
EXTENDS Lifecycle, SchemaGraph, FiniteSetTheorems, WellFoundedInduction, TLAPS

-----------------------------------------------------------------------------
(* Lifecycle: the invariant.                                               *)

Going == PCs \ (Ends \cup {"none"})
Working == Going \ {"get"}

\* Runs are numbered as they start; one that works has an instance, which
\* the run of that number has created.
RunInv ==
    /\ \A r \in Runs :
         /\ run[r].pc = "none" <=> r > started
         /\ run[r].pc \in Going => run[r].agent \in Agents
         /\ run[r].pc \in {"none", "get"} => run[r].inst = 0
         /\ run[r].pc \in Working \cup {"refused", "disowned"} => run[r].inst # 0
         /\ run[r].inst # 0 => run[run[r].inst].pc \notin {"none", "get"}
    /\ \A k \in Keys : slot[k] # 0 =>
         run[slot[k]].pc \notin {"none", "get"} /\ inst[slot[k]].state # "none"

\* The states an instance can be in when the only run on it is at pc.
Fits(pc, state) ==
    /\ pc = "look1" => state \notin {"none", "finished"}
    /\ pc = "markReady" => state = "initializing"
    /\ pc \in {"look2", "running", "finish"} =>
         state \notin {"none", "initializing", "finished"}
    /\ pc = "markRunning" => state = "ready"
    /\ pc = "reready" => state = "finished"

\* A run that never shared its instance is the only one on it, and finds it in
\* a state that fits.
AloneInv ==
    \A r \in Runs : run[r].pc \in Working /\ ~run[r].shared =>
        /\ \A s \in Runs \ {r} : run[s].inst = run[r].inst => run[s].pc \in Ends
        /\ inst[run[r].inst].mode = run[r].mode => Fits(run[r].pc, inst[run[r].inst].state)

\* A persistent instance is finished only while a run is about to make it
\* ready again.
QuietInv ==
    \A i \in Runs : inst[i].mode = "persistent" /\ inst[i].state = "finished" =>
        \E s \in Runs : run[s].inst = i /\ run[s].pc = "reready"

IInv == /\ TypeOK /\ RunInv /\ AloneInv /\ QuietInv
        /\ ManagerErrorExplained /\ NoExchangeLost

USE DEF Runs, Going, Working, PCs, Before, After, Ends

-----------------------------------------------------------------------------
(* Steps of a run that has its instance.                                    *)

Others(r) == \A s \in Runs \ {r} : run'[s] = run[s]
Kept(r) == /\ run'[r].agent = run[r].agent /\ run'[r].task = run[r].task
           /\ run'[r].inst = run[r].inst /\ run'[r].mode = run[r].mode
           /\ run'[r].shared = run[r].shared
Moved(r, pc) == run' \in [Runs -> Run] /\ Others(r) /\ Kept(r) /\ run'[r].pc = pc
Ended(r, pc) ==
    /\ run' \in [Runs -> Run] /\ Others(r) /\ run'[r].pc = pc
    /\ IF pc \in {"refused", "disowned"}
       THEN /\ run'[r].inst = run[r].inst /\ run'[r].mode = run[r].mode
            /\ run'[r].shared = run[r].shared
       ELSE run'[r].inst = 0

LEMMA RunFields ==
    ASSUME NEW c \in Run, NEW pc \in PCs
    PROVE  /\ [c EXCEPT !.pc = pc] \in Run /\ [c EXCEPT !.pc = pc].pc = pc
           /\ [c EXCEPT !.pc = pc].agent = c.agent /\ [c EXCEPT !.pc = pc].task = c.task
           /\ [c EXCEPT !.pc = pc].inst = c.inst /\ [c EXCEPT !.pc = pc].mode = c.mode
           /\ [c EXCEPT !.pc = pc].shared = c.shared
BY DEF Run

LEMMA GivenFields ==
    ASSUME NEW c \in Run, NEW given \in SUBSET Runs
    PROVE  LET d == [c EXCEPT !.pc = "running", !.given = given] IN
           /\ d \in Run /\ d.pc = "running" /\ d.agent = c.agent /\ d.task = c.task
           /\ d.inst = c.inst /\ d.mode = c.mode /\ d.shared = c.shared
BY DEF Run

LEMMA GotoMoves ==
    ASSUME TypeOK, NEW r \in Runs, NEW pc \in PCs, Goto(r, pc)
    PROVE  Moved(r, pc)
<1>1. run[r] \in Run /\ run' = [run EXCEPT ![r] = [run[r] EXCEPT !.pc = pc]]
    BY DEF TypeOK, Goto
<1> DEFINE c == run[r]
           d == [c EXCEPT !.pc = pc]
<1> HIDE DEF c
<1>2. d \in Run /\ d.pc = pc /\ d.agent = c.agent /\ d.task = c.task /\ d.inst = c.inst
      /\ d.mode = c.mode /\ d.shared = c.shared
    BY <1>1, RunFields DEF c
<1>3. run' = [run EXCEPT ![r] = d]
    BY <1>1 DEF c
<1> HIDE DEF d
<1> QED
    BY <1>2, <1>3 DEF Moved, Others, Kept, TypeOK, c

LEMMA RunAgentMoves ==
    ASSUME TypeOK, NEW r \in Runs, Key(r) \in Keys, RunAgent(r)
    PROVE  Moved(r, "running")
<1> DEFINE c == run[r]
           given == IF inst[c.inst].mode = "persistent" THEN past[Key(r)] ELSE {}
           d == [c EXCEPT !.pc = "running", !.given = given]
<1>1. run' = [run EXCEPT ![r] = d]
    BY DEF RunAgent
<1>2. c \in Run /\ given \in SUBSET Runs
    BY DEF TypeOK
<1> HIDE DEF c, given
<1>3. d \in Run /\ d.pc = "running" /\ d.agent = c.agent /\ d.task = c.task
      /\ d.inst = c.inst /\ d.mode = c.mode /\ d.shared = c.shared
    BY <1>2, GivenFields
<1> HIDE DEF d
<1> QED
    BY <1>1, <1>3 DEF Moved, Others, Kept, TypeOK, c

LEMMA NoRunType == NoRun \in Run
BY MaxRunsAssumption DEF NoRun, Run, Modes

Blamed(c, i, m, shared) == [c EXCEPT !.inst = i, !.mode = m, !.shared = shared]

LEMMA EndFields ==
    ASSUME NEW c \in Run, NEW i \in 0..MaxRuns, NEW m \in Modes, NEW shared \in BOOLEAN
    PROVE  /\ Blamed(c, i, m, shared) \in Run /\ Blamed(c, i, m, shared).pc = c.pc
           /\ Blamed(c, i, m, shared).inst = i /\ Blamed(c, i, m, shared).mode = m
           /\ Blamed(c, i, m, shared).shared = shared
BY DEF Run, Blamed

LEMMA EndEnds ==
    ASSUME TypeOK, NEW r \in Runs, NEW pc \in Ends, End(r, pc)
    PROVE  Ended(r, pc)
<1>1. CASE pc \in {"refused", "disowned"}
  <2> DEFINE i == run[r].inst
             m == run[r].mode
             s == run[r].shared
             b == [NoRun EXCEPT !.pc = pc]
             d == Blamed(b, i, m, s)
  <2>1. run' = [run EXCEPT ![r] = d]
    BY <1>1 DEF End, Blamed
  <2>2. i \in 0..MaxRuns /\ m \in Modes /\ s \in BOOLEAN
    BY DEF TypeOK, Run
  <2>3. b \in Run /\ b.pc = pc
    BY NoRunType, RunFields
  <2> HIDE DEF b, i, m, s
  <2>4. d \in Run /\ d.pc = pc /\ d.inst = i /\ d.mode = m /\ d.shared = s
    BY <2>2, <2>3, EndFields
  <2> HIDE DEF d
  <2> QED BY <1>1, <2>1, <2>4 DEF Ended, Others, TypeOK, i, m, s
<1>2. CASE pc \notin {"refused", "disowned"}
  <2> DEFINE d == [NoRun EXCEPT !.pc = pc]
  <2>1. run' = [run EXCEPT ![r] = d]
    BY <1>2 DEF End
  <2>2. d \in Run /\ d.pc = pc /\ d.inst = NoRun.inst
    BY NoRunType, RunFields
  <2>3. NoRun.inst = 0
    BY DEF NoRun
  <2> HIDE DEF d
  <2> QED BY <1>2, <2>1, <2>2, <2>3 DEF Ended, Others, TypeOK
<1> QED
    BY <1>1, <1>2

\* The instance of r has a new state and nothing else has changed.
NewState(i, state) ==
    /\ inst' \in [Runs -> Instance]
    /\ \A j \in Runs : inst'[j].mode = inst[j].mode
    /\ \A j \in Runs \ {i} : inst'[j] = inst[j]
    /\ inst'[i].state = state

WithState(c, state) == [c EXCEPT !.state = state]
WithTokens(c, tokens) == [c EXCEPT !.tokens = tokens]

LEMMA StateFields ==
    ASSUME NEW c \in Instance, NEW state \in States
    PROVE  /\ WithState(c, state) \in Instance /\ WithState(c, state).state = state
           /\ WithState(c, state).mode = c.mode
BY DEF Instance, WithState

LEMMA TokensFields ==
    ASSUME NEW c \in Instance, NEW tokens \in Nat
    PROVE  /\ WithTokens(c, tokens) \in Instance /\ WithTokens(c, tokens).state = c.state
           /\ WithTokens(c, tokens).mode = c.mode
BY DEF Instance, WithTokens

LEMMA TransitionMoves ==
    ASSUME TypeOK, NEW i \in Runs, NEW state \in States, TransitionTo(i, state)
    PROVE  NewState(i, state)
<1> DEFINE c == inst[i]
           d == WithState(c, state)
<1>1. inst' = [inst EXCEPT ![i] = d] /\ c \in Instance
    BY DEF TypeOK, TransitionTo, WithState
<1>2. d \in Instance /\ d.state = state /\ d.mode = c.mode
    BY <1>1, StateFields
<1> HIDE DEF d
<1> QED
    BY <1>1, <1>2 DEF NewState, TypeOK

LEMMA TokensMove ==
    ASSUME TypeOK, NEW i \in Runs, NEW tokens \in Nat,
           inst' = [inst EXCEPT ![i].tokens = tokens]
    PROVE  NewState(i, inst[i].state)
<1> DEFINE c == inst[i]
           d == WithTokens(c, tokens)
<1>1. inst' = [inst EXCEPT ![i] = d] /\ c \in Instance
    BY DEF TypeOK, WithTokens
<1>2. d \in Instance /\ d.state = c.state /\ d.mode = c.mode
    BY <1>1, TokensFields
<1> HIDE DEF d
<1> QED
    BY <1>1, <1>2 DEF NewState, TypeOK

LEMMA SameInst ==
    ASSUME TypeOK, NEW i \in Runs, UNCHANGED inst
    PROVE  NewState(i, inst[i].state)
BY DEF NewState, TypeOK

LEMMA Transitions ==
    /\ "ready" \in validTransitions("initializing")
    /\ "running" \in validTransitions("ready")
    /\ \A s \in States \ {"none", "initializing", "finished"} :
         "finished" \in validTransitions(s)
    /\ "ready" \in validTransitions("finished")
BY DEF validTransitions, States

\* A step of a run that works: what it does to the run and its instance.  The
\* last conjuncts say that it goes to a place that fits the state, that only a
\* shared instance or another mode makes it fail, and that it does not leave a
\* persistent instance finished.
Alone(r) == ~run[r].shared /\ inst[run[r].inst].mode = run[r].mode
Progress(r, pc) ==
    \/ pc \in Working /\ Moved(r, pc)
    \/ pc \in Ends /\ Ended(r, pc)
Shape(r) ==
    LET i == run[r].inst
        pc == run'[r].pc
        state == inst'[i].state
    IN  /\ run[r].pc \in Working
        /\ Progress(r, pc)
        /\ NewState(i, state)
        /\ state = "none" => inst[i].state = "none"
        /\ slot' \in [Keys -> 0..MaxRuns] /\ \A k \in Keys : slot'[k] \in {0, slot[k]}
        /\ packet' \in [Runs -> PacketStatus]
        /\ UNCHANGED <<mode, started, edits>>
        /\ pc \in Working /\ Alone(r) => Fits(pc, state)
        /\ pc \in {"refused", "disowned"} => ~Alone(r)
        /\ inst[i].mode = "persistent" /\ state = "finished" =>
             pc = "reready" \/ (inst[i].state = "finished" /\ run[r].pc # "reready")

\* What is known of a run that works, and of its context.
LEMMA WorkingFacts ==
    ASSUME TypeOK, RunInv, AloneInv, NEW r \in 1..started, run[r].pc \in Working
    PROVE  /\ r \in Runs /\ run[r] \in Run /\ run[r].inst \in Runs /\ Key(r) \in Keys
           /\ inst[run[r].inst] \in Instance /\ inst[run[r].inst].state \in States
           /\ Alone(r) => Fits(run[r].pc, inst[run[r].inst].state)
<1>1. r \in Runs /\ run[r] \in Run
    BY MaxRunsAssumption DEF TypeOK
<1>2. run[r].inst \in Runs
    BY <1>1, MaxRunsAssumption DEF RunInv, TypeOK, Run
<1>3. run[r].agent \in Agents
    BY <1>1 DEF RunInv
<1>4. Key(r) \in Keys
    BY <1>1, <1>3 DEF Keys, Key, Run
<1> QED
    BY <1>1, <1>2, <1>3, <1>4 DEF TypeOK, Instance, AloneInv, Alone

LEMMA FailsEnds ==
    ASSUME TypeOK, NEW r \in Runs, NEW pc \in {"failed", "refused", "disowned"}, Fails(r, pc)
    PROVE  Ended(r, pc) /\ packet' \in [Runs -> PacketStatus]
<1>1. Ended(r, pc)
    BY EndEnds DEF Fails
<1> QED
    BY <1>1 DEF Fails, TypeOK, PacketStatus

LEMMA CompletedType ==
    ASSUME TypeOK, NEW r \in Runs, packet' = Completed(r)
    PROVE  packet' \in [Runs -> PacketStatus]
BY DEF Completed, TypeOK, PacketStatus

LEMMA LookShape ==
    ASSUME TypeOK, RunInv, AloneInv, NEW r \in 1..started,
           LookInitializing(r) \/ LookReady(r)
    PROVE  Shape(r)
<1>0. run[r].pc \in {"look1", "look2"}
    BY DEF LookInitializing, LookReady
<1>1. /\ r \in Runs /\ run[r].inst \in Runs /\ Key(r) \in Keys
      /\ Alone(r) => Fits(run[r].pc, inst[run[r].inst].state)
    BY <1>0, WorkingFacts
<1>2. NewState(run[r].inst, inst[run[r].inst].state) /\ UNCHANGED <<inst, slot, packet>>
    BY <1>1, SameInst DEF LookInitializing, LookReady, manager
<1>3. CASE LookInitializing(r)
  <2>1. \/ inst[run[r].inst].state = "initializing" /\ Moved(r, "markReady")
        \/ inst[run[r].inst].state # "initializing" /\ Moved(r, "look2")
    BY <1>1, <1>3, GotoMoves DEF LookInitializing
  <2> QED BY <1>0, <1>1, <1>2, <1>3, <2>1 DEF LookInitializing, Shape, Progress, Moved, Fits, TypeOK
<1>4. CASE LookReady(r)
  <2>1. \/ inst[run[r].inst].state = "ready" /\ Moved(r, "markRunning")
        \/ inst[run[r].inst].state # "ready" /\ Moved(r, "running")
    BY <1>1, <1>4, GotoMoves, RunAgentMoves DEF LookReady
  <2> QED BY <1>0, <1>1, <1>2, <1>4, <2>1 DEF LookReady, Shape, Progress, Moved, Fits, TypeOK
<1> QED
    BY <1>3, <1>4

LEMMA MarkShape ==
    ASSUME TypeOK, RunInv, AloneInv, NEW r \in 1..started, Mark(r)
    PROVE  Shape(r)
<1> DEFINE i == run[r].inst
           next == IF run[r].pc = "markReady" THEN "ready" ELSE "running"
<1>0. run[r].pc \in {"markReady", "markRunning"}
    BY DEF Mark
<1>1. /\ r \in Runs /\ i \in Runs /\ Key(r) \in Keys
      /\ Alone(r) => Fits(run[r].pc, inst[i].state)
    BY <1>0, WorkingFacts
<1>2. UNCHANGED <<mode, slot, started, edits>>
    BY DEF Mark
<1>3. CASE CanTransitionTo(i, next)
  <2>1. TransitionTo(i, next) /\ UNCHANGED packet
        /\ IF next = "ready" THEN Goto(r, "look2") ELSE RunAgent(r)
    BY <1>3 DEF Mark
  <2>2. NewState(i, next)
    BY <1>1, <2>1, TransitionMoves DEF States
  <2>3. Moved(r, "look2") \/ Moved(r, "running")
    BY <1>1, <2>1, GotoMoves, RunAgentMoves
  <2> QED BY <1>0, <1>1, <1>2, <2>1, <2>2, <2>3 DEF Shape, Progress, Moved, Fits, TypeOK, NewState
<1>4. CASE ~CanTransitionTo(i, next)
  <2>1. Fails(r, "refused") /\ UNCHANGED inst
    BY <1>4 DEF Mark
  <2>2. NewState(i, inst[i].state)
    BY <1>1, <2>1, SameInst
  <2>3. ~Alone(r)
    BY <1>0, <1>1, <1>4, Transitions DEF Fits, CanTransitionTo
  <2>4. /\ Ended(r, "refused") /\ packet' \in [Runs -> PacketStatus]
    BY <1>1, <2>1, FailsEnds
  <2> QED BY <1>0, <1>1, <1>2, <2>1, <2>2, <2>3, <2>4 DEF Shape, Progress, Ended, TypeOK
<1> QED
    BY <1>3, <1>4

LEMMA FailsShape ==
    ASSUME TypeOK, RunInv, AloneInv, NEW r \in 1..started, RunFails(r)
    PROVE  Shape(r)
<1> DEFINE i == run[r].inst
<1>0. run[r].pc = "running" /\ Fails(r, "failed") /\ UNCHANGED <<mode, slot, started, edits>>
    BY DEF RunFails
<1>1. r \in Runs /\ i \in Runs
    BY <1>0, WorkingFacts
<1>2. NewState(i, "blocked") \/ NewState(i, inst[i].state)
    BY <1>1, TransitionMoves, SameInst DEF RunFails, States
<1>3. /\ Ended(r, "failed") /\ packet' \in [Runs -> PacketStatus]
    BY <1>0, <1>1, FailsEnds
<1> QED
    BY <1>0, <1>1, <1>2, <1>3 DEF Shape, Progress, Ended, TypeOK, NewState

LEMMA AnswersShape ==
    ASSUME TypeOK, RunInv, AloneInv, NEW r \in 1..started, RunAnswers(r)
    PROVE  Shape(r)
<1> DEFINE i == run[r].inst
<1>0. /\ run[r].pc = "running" /\ Goto(r, "finish")
      /\ UNCHANGED <<mode, slot, packet, started, edits>>
    BY DEF RunAnswers
<1>1. /\ r \in Runs /\ i \in Runs /\ inst[i] \in Instance
      /\ Alone(r) => Fits(run[r].pc, inst[i].state)
    BY <1>0, WorkingFacts
<1>2. NewState(i, inst[i].state)
  <2>1. inst[i].tokens + 1 \in Nat
    BY <1>1 DEF Instance
  <2>2. inst' = [inst EXCEPT ![i].tokens = inst[i].tokens + 1] \/ UNCHANGED inst
    BY DEF RunAnswers
  <2> QED BY <1>1, <2>1, <2>2, TokensMove, SameInst
<1>3. Moved(r, "finish")
    BY <1>0, <1>1, GotoMoves
<1> QED
    BY <1>0, <1>1, <1>2, <1>3 DEF Shape, Progress, Moved, Fits, TypeOK, NewState

LEMMA FinishShape ==
    ASSUME TypeOK, RunInv, AloneInv, NEW r \in 1..started, FinishTask(r)
    PROVE  Shape(r)
<1> DEFINE i == run[r].inst
           next == IF run[r].pc = "finish" THEN "finished" ELSE "ready"
           again == run[r].pc = "finish" /\ inst[i].mode = "persistent"
           end == IF run[r].mode = "spawn" THEN "drop" ELSE "answered"
<1>0. run[r].pc \in {"finish", "reready"} /\ UNCHANGED <<mode, slot, started, edits>>
    BY DEF FinishTask
<1>1. /\ r \in Runs /\ i \in Runs
      /\ inst[i].state \in States
      /\ Alone(r) => Fits(run[r].pc, inst[i].state)
    BY <1>0, WorkingFacts
<1>3. CASE CanTransitionTo(i, next)
  <2>1. /\ TransitionTo(i, next)
        /\ IF again THEN Goto(r, "reready")
           ELSE IF end = "drop" THEN Goto(r, end) ELSE End(r, end)
        /\ packet' = IF ~again /\ end = "answered" THEN Completed(r) ELSE packet
    BY <1>3 DEF FinishTask
  <2>2. NewState(i, next)
    BY <1>1, <2>1, TransitionMoves DEF States
  <2>3. CASE again
    <3>1. Moved(r, "reready") /\ UNCHANGED packet
      BY <1>1, <2>1, <2>3, GotoMoves
    <3> QED BY <1>0, <1>1, <2>2, <2>3, <3>1 DEF Shape, Progress, Moved, Fits, TypeOK, NewState
  <2>4. CASE ~again /\ run[r].mode = "spawn"
    <3>1. Moved(r, "drop") /\ UNCHANGED packet
      BY <1>1, <2>1, <2>4, GotoMoves
    <3>2. ~(inst[i].mode = "persistent" /\ next = "finished")
      BY <1>0, <2>4
    <3> QED BY <1>0, <1>1, <2>2, <3>1, <3>2 DEF Shape, Progress, Moved, Fits, TypeOK, NewState
  <2>5. CASE ~again /\ run[r].mode # "spawn"
    <3>1. Ended(r, "answered") /\ packet' = Completed(r)
      BY <1>1, <2>1, <2>5, EndEnds
    <3>2. /\ packet' \in [Runs -> PacketStatus]
      BY <1>1, <3>1, CompletedType
    <3>3. ~(inst[i].mode = "persistent" /\ next = "finished")
      BY <1>0, <2>5
    <3> QED BY <1>0, <1>1, <2>2, <3>1, <3>2, <3>3 DEF Shape, Progress, Ended, TypeOK, NewState
  <2> QED BY <2>3, <2>4, <2>5
<1>4. CASE ~CanTransitionTo(i, next)
  <2>1. Fails(r, "disowned") /\ UNCHANGED inst
    BY <1>4 DEF FinishTask
  <2>2. NewState(i, inst[i].state)
    BY <1>1, <2>1, SameInst
  <2>3. ~Alone(r) /\ (run[r].pc = "reready" => inst[i].state # "finished")
    BY <1>0, <1>1, <1>4, Transitions DEF Fits, CanTransitionTo
  <2>4. /\ Ended(r, "disowned") /\ packet' \in [Runs -> PacketStatus]
    BY <1>1, <2>1, FailsEnds
  <2> QED BY <1>0, <1>1, <2>1, <2>2, <2>3, <2>4 DEF Shape, Progress, Ended, TypeOK
<1> QED
    BY <1>3, <1>4

LEMMA DropShape ==
    ASSUME TypeOK, RunInv, AloneInv, NEW r \in 1..started, DropInstance(r)
    PROVE  Shape(r)
<1> DEFINE i == run[r].inst
<1>0. /\ run[r].pc = "drop" /\ UNCHANGED <<mode, inst, started, edits>>
      /\ slot' = [slot EXCEPT ![Key(r)] = 0] /\ End(r, "answered") /\ packet' = Completed(r)
    BY DEF DropInstance
<1>1. r \in Runs /\ i \in Runs /\ Key(r) \in Keys
    BY <1>0, WorkingFacts
<1>2. NewState(i, inst[i].state)
    BY <1>0, <1>1, SameInst
<1>3. Ended(r, "answered")
    BY <1>0, <1>1, EndEnds
<1>4. /\ packet' \in [Runs -> PacketStatus]
    BY <1>0, <1>1, CompletedType
<1>5. slot' \in [Keys -> 0..MaxRuns] /\ \A k \in Keys : slot'[k] \in {0, slot[k]}
    BY <1>0, <1>1, MaxRunsAssumption DEF TypeOK
<1> QED
    BY <1>0, <1>1, <1>2, <1>3, <1>4, <1>5 DEF Shape, Progress, Ended

\* What such a step preserves.
LEMMA ShapeInv ==
    ASSUME TypeOK, RunInv, AloneInv, QuietInv, ManagerErrorExplained,
           NEW r \in 1..started, Shape(r)
    PROVE  RunInv' /\ AloneInv' /\ QuietInv' /\ ManagerErrorExplained'
<1> DEFINE i == run[r].inst
           pc == run'[r].pc
           state == inst'[i].state
<1>1. /\ r \in Runs /\ i \in Runs
      /\ run[r].pc \in Working
    BY WorkingFacts DEF Shape
<1>2. /\ \A s \in Runs \ {r} : run'[s] = run[s]
      /\ \/ pc \in Working /\ Kept(r)
         \/ /\ pc \in Ends
            /\ IF pc \in {"refused", "disowned"}
               THEN /\ run'[r].inst = i /\ run'[r].mode = run[r].mode
                    /\ run'[r].shared = run[r].shared
               ELSE run'[r].inst = 0
  <2>1. CASE pc \in Working /\ Moved(r, pc)
    BY <2>1 DEF Moved, Others
  <2>2. CASE pc \in Ends /\ Ended(r, pc)
    BY <2>2 DEF Ended, Others
  <2> QED BY <2>1, <2>2 DEF Shape, Progress
<1>3. /\ \A j \in Runs : inst'[j].mode = inst[j].mode
      /\ \A j \in Runs \ {i} : inst'[j] = inst[j]
      /\ state = "none" => inst[i].state = "none"
      /\ \A k \in Keys : slot'[k] \in {0, slot[k]}
      /\ started' = started
    BY DEF Shape, NewState
<1>4. \A s \in Runs : run[s].inst # 0 => run[s].inst \in Runs
    BY MaxRunsAssumption DEF TypeOK, Run
<1>5. RunInv'
  <2>1. ASSUME NEW s \in Runs
        PROVE  /\ run'[s].pc = "none" <=> s > started'
               /\ run'[s].pc \in Going => run'[s].agent \in Agents
               /\ run'[s].pc \in {"none", "get"} => run'[s].inst = 0
               /\ run'[s].pc \in Working \cup {"refused", "disowned"} => run'[s].inst # 0
    BY <1>1, <1>2, <1>3 DEF RunInv, Kept
  <2>2. \A s \in Runs : run'[s].pc \in {"none", "get"} => s # r /\ run[s].pc \in {"none", "get"}
    BY <1>1, <1>2
  <2>3. \A s \in Runs : run'[s].inst \in {0, run[s].inst}
    BY <1>1, <1>2 DEF Kept
  <2>4. ASSUME NEW s \in Runs, run'[s].inst # 0
        PROVE  run'[run'[s].inst].pc \notin {"none", "get"}
    <3>1. run'[s].inst = run[s].inst /\ run[s].inst \in Runs
      BY <1>4, <2>3, <2>4
    <3> QED BY <2>2, <2>4, <3>1 DEF RunInv
  <2>5. ASSUME NEW k \in Keys, slot'[k] # 0
        PROVE  run'[slot'[k]].pc \notin {"none", "get"} /\ inst'[slot'[k]].state # "none"
    <3>1. slot'[k] = slot[k] /\ slot[k] \in Runs
      BY <1>3, <2>5, MaxRunsAssumption DEF TypeOK
    <3>2. run[slot[k]].pc \notin {"none", "get"} /\ inst[slot[k]].state # "none"
      BY <3>1, <2>5 DEF RunInv
    <3> QED BY <1>3, <2>2, <3>1, <3>2
  <2> QED BY <2>1, <2>4, <2>5 DEF RunInv
<1>6. AloneInv'
  <2> SUFFICES ASSUME NEW s \in Runs, run'[s].pc \in Working, ~run'[s].shared
               PROVE  /\ \A t \in Runs \ {s} : run'[t].inst = run'[s].inst => run'[t].pc \in Ends
                      /\ inst'[run'[s].inst].mode = run'[s].mode =>
                           Fits(run'[s].pc, inst'[run'[s].inst].state)
    BY DEF AloneInv, Fits
  <2>1. /\ run[s].pc \in Working /\ ~run[s].shared /\ run'[s].inst = run[s].inst
        /\ run'[s].mode = run[s].mode
    BY <1>1, <1>2 DEF Kept
  <2>2. ASSUME NEW t \in Runs \ {s}, run'[t].inst = run'[s].inst
        PROVE  run'[t].pc \in Ends
    <3>1. run[s].inst # 0
      BY <2>1 DEF RunInv
    <3>2. CASE t = r
      BY <1>1, <1>2, <2>1, <2>2, <3>1, <3>2 DEF AloneInv, Kept
    <3>3. CASE t # r
      BY <1>2, <2>1, <2>2, <3>3 DEF AloneInv
    <3> QED BY <3>2, <3>3
  <2>3. ASSUME inst'[run'[s].inst].mode = run'[s].mode
        PROVE  Fits(run'[s].pc, inst'[run'[s].inst].state)
    <3>1. CASE s = r
      BY <1>1, <1>3, <2>1, <2>3, <3>1 DEF Shape, Alone
    <3>2. CASE s # r
      <4>1. run[s].inst # i
        BY <1>1, <2>1, <3>2 DEF AloneInv
      <4>2. run[s].inst \in Runs
        BY <1>4, <2>1 DEF RunInv
      <4>3. inst'[run[s].inst] = inst[run[s].inst] /\ run'[s] = run[s]
        BY <1>2, <1>3, <3>2, <4>1, <4>2
      <4> QED BY <2>1, <2>3, <4>3 DEF AloneInv
    <3> QED BY <3>1, <3>2
  <2> QED BY <2>2, <2>3
<1>7. QuietInv'
  <2> SUFFICES ASSUME NEW j \in Runs, inst'[j].mode = "persistent", inst'[j].state = "finished"
               PROVE  \E s \in Runs : run'[s].inst = j /\ run'[s].pc = "reready"
    BY DEF QuietInv
  <2>1. CASE j = i /\ pc = "reready"
    BY <1>1, <1>2, <2>1 DEF Kept
  <2>2. CASE j # i \/ pc # "reready"
    <3>1. inst[j].mode = "persistent" /\ inst[j].state = "finished"
          /\ (j = i => run[r].pc # "reready")
      BY <1>3, <2>2 DEF Shape
    <3>2. PICK s \in Runs : run[s].inst = j /\ run[s].pc = "reready"
      BY <3>1 DEF QuietInv
    <3> QED BY <1>2, <3>1, <3>2
  <2> QED BY <2>1, <2>2
<1>8. ManagerErrorExplained'
  <2> SUFFICES ASSUME NEW s \in Runs, run'[s].pc \in {"refused", "disowned"}
               PROVE  run'[s].shared \/ inst'[run'[s].inst].mode # run'[s].mode
    BY DEF ManagerErrorExplained
  <2>1. CASE s = r
    BY <1>1, <1>2, <1>3, <2>1 DEF Shape, Alone
  <2>2. CASE s # r
    <3>1. run[s].inst \in Runs
      BY <1>2, <1>4, <2>2 DEF RunInv
    <3> QED BY <1>2, <1>3, <2>2, <3>1 DEF ManagerErrorExplained
  <2> QED BY <2>1, <2>2
<1> QED
    BY <1>5, <1>6, <1>7, <1>8

LEMMA ShapeType ==
    ASSUME TypeOK, NEW r \in 1..started, Shape(r), past' \in [Keys -> SUBSET Runs],
           due' \in [Keys -> SUBSET Runs]
    PROVE  TypeOK'
BY DEF Shape, Progress, Moved, Ended, NewState, TypeOK

-----------------------------------------------------------------------------
(* A run gets its instance.                                                 *)

Got(c, i, shared) == [c EXCEPT !.inst = i, !.shared = shared, !.pc = "look1"]
Marked(c) == [c EXCEPT !.shared = TRUE]

LEMMA GotFields ==
    ASSUME NEW c \in Run, NEW i \in 0..MaxRuns, NEW shared \in BOOLEAN
    PROVE  /\ Got(c, i, shared) \in Run /\ Got(c, i, shared).pc = "look1"
           /\ Got(c, i, shared).inst = i /\ Got(c, i, shared).shared = shared
           /\ Got(c, i, shared).mode = c.mode /\ Got(c, i, shared).agent = c.agent
BY DEF Run, Got

LEMMA MarkedFields ==
    ASSUME NEW c \in Run
    PROVE  /\ Marked(c) \in Run /\ Marked(c).pc = c.pc /\ Marked(c).inst = c.inst
           /\ Marked(c).shared /\ Marked(c).mode = c.mode /\ Marked(c).agent = c.agent
BY DEF Run, Marked

\* The instance i is the run's own, new, or the one kept under its key.
GetShape(r, i) ==
    /\ i \in Runs /\ run[r].pc = "get"
    /\ run' \in [Runs -> Run] /\ run'[r].pc = "look1" /\ run'[r].inst = i
    /\ run'[r].mode = run[r].mode /\ run'[r].agent = run[r].agent
    /\ ~run'[r].shared => \A s \in Runs \ {r} : run[s].inst = i => run[s].pc \in Ends
    /\ \A s \in Runs \ {r} :
         /\ run'[s].pc = run[s].pc /\ run'[s].inst = run[s].inst
         /\ run'[s].mode = run[s].mode /\ run'[s].agent = run[s].agent
         /\ run[s].shared => run'[s].shared
         /\ run[s].inst = i /\ run[s].pc \notin Ends => run'[s].shared
    /\ inst' \in [Runs -> Instance] /\ \A j \in Runs \ {i} : inst'[j] = inst[j]
    /\ \/ i = r /\ inst'[i].state = "initializing"
       \/ /\ i # r /\ run[r].mode = "persistent"
          /\ inst'[i].state = inst[i].state /\ inst'[i].mode = inst[i].mode
          /\ \E k \in Keys : i = slot[k]
    /\ slot' \in [Keys -> 0..MaxRuns] /\ \A k \in Keys : slot'[k] \in {i, slot[k]}
    /\ UNCHANGED <<mode, packet, started, edits>>

LEMMA GetShapes ==
    ASSUME TypeOK, RunInv, NEW r \in 1..started, getOrCreateInstance(r)
    PROVE  \E i \in Runs : GetShape(r, i)
<1> DEFINE k == Key(r)
           i == IF NeedsNewInstance(r) THEN r ELSE slot[k]
           others == Using(i) \ {r}
           shared == others # {}
           tokens == IF run[r].mode = "spawn" THEN 0 ELSE inst[i].tokens
<1>1. /\ run[r].pc = "get" /\ UNCHANGED <<mode, packet, started, edits>>
      /\ slot' = [slot EXCEPT ![k] = i]
      /\ run' = [s \in Runs |-> IF s = r THEN Got(run[r], i, shared)
                                ELSE IF s \in others THEN Marked(run[s]) ELSE run[s]]
    BY DEF getOrCreateInstance, Got, Marked
<1>2. \/ /\ i = r
         /\ inst' = [inst EXCEPT ![r] = [mode |-> run[r].mode, state |-> "initializing",
                                         tokens |-> 0]]
      \/ i # r /\ inst' = [inst EXCEPT ![i].tokens = tokens]
    BY DEF getOrCreateInstance
<1>3. r \in Runs /\ run[r] \in Run /\ \A s \in Runs : run[s] \in Run
    BY MaxRunsAssumption DEF TypeOK
<1>4. k \in Keys
  <2>1. run[r].agent \in Agents /\ run[r].task \in 0..MaxRuns
    BY <1>1, <1>3 DEF RunInv, Run
  <2> QED BY <2>1 DEF Key, Keys
<1>5. i \in Runs /\ (i # r => i = slot[k] /\ run[r].mode # "spawn")
    BY <1>3, <1>4, MaxRunsAssumption DEF NeedsNewInstance, TypeOK
<1>6. shared \in BOOLEAN
    OBVIOUS
<1>7. others = {s \in Runs \ {r} : run[s].inst = i /\ run[s].pc \notin Ends}
    BY DEF Using
<1> HIDE DEF i, others, shared, tokens
<1>8. /\ run'[r] = Got(run[r], i, shared)
      /\ \A s \in Runs \ {r} : run'[s] = IF s \in others THEN Marked(run[s]) ELSE run[s]
    BY <1>1, <1>3
<1>9. run' \in [Runs -> Run]
  <2>1. Got(run[r], i, shared) \in Run
    <3>1. i \in 0..MaxRuns
      BY <1>5, MaxRunsAssumption
    <3> QED BY <1>3, <1>6, <3>1, GotFields
  <2>2. \A s \in Runs : Marked(run[s]) \in Run
    BY <1>3, MarkedFields
  <2> QED BY <1>1, <1>3, <2>1, <2>2
<1>10. /\ run'[r].pc = "look1" /\ run'[r].inst = i /\ run'[r].mode = run[r].mode
       /\ run'[r].agent = run[r].agent /\ run'[r].shared = shared
    BY <1>3, <1>5, <1>6, <1>8, GotFields, MaxRunsAssumption
<1>11. ASSUME NEW s \in Runs \ {r}
       PROVE  /\ run'[s].pc = run[s].pc /\ run'[s].inst = run[s].inst
              /\ run'[s].mode = run[s].mode /\ run'[s].agent = run[s].agent
              /\ run[s].shared => run'[s].shared
              /\ s \in others => run'[s].shared
  <2>1. CASE s \in others
    BY <1>3, <1>8, <2>1, MarkedFields
  <2>2. CASE s \notin others
    BY <1>8, <2>2
  <2> QED BY <2>1, <2>2
<1>12. ~shared => others = {}
    BY DEF shared
<1>13. /\ inst' \in [Runs -> Instance] /\ \A j \in Runs \ {i} : inst'[j] = inst[j]
       /\ \/ i = r /\ inst'[i].state = "initializing"
          \/ /\ i # r /\ inst'[i].state = inst[i].state /\ inst'[i].mode = inst[i].mode
  <2>1. CASE i = r
    <3> DEFINE d == [mode |-> run[r].mode, state |-> "initializing", tokens |-> 0]
    <3>1. d \in Instance /\ d.state = "initializing" /\ inst' = [inst EXCEPT ![r] = d]
      BY <1>2, <1>3, <2>1 DEF Run, Instance, States
    <3> HIDE DEF d
    <3> QED BY <1>3, <2>1, <3>1 DEF TypeOK
  <2>2. CASE i # r
    <3>1. inst[i] \in Instance
      BY <1>5 DEF TypeOK
    <3>2. tokens \in Nat
      BY <3>1 DEF tokens, Instance
    <3>3. NewState(i, inst[i].state)
      BY <1>2, <1>5, <2>2, <3>2, TokensMove
    <3> QED BY <1>5, <2>2, <3>3 DEF NewState
  <2> QED BY <2>1, <2>2
<1>14. slot' \in [Keys -> 0..MaxRuns] /\ \A l \in Keys : slot'[l] \in {i, slot[l]}
    BY <1>1, <1>4, <1>5 DEF TypeOK
<1>15. i # r => run[r].mode = "persistent"
    BY <1>3, <1>5 DEF Run, Modes
<1>16. ~run'[r].shared => \A s \in Runs \ {r} : run[s].inst = i => run[s].pc \in Ends
    BY <1>7, <1>10, <1>12
<1>17. \A s \in Runs \ {r} : run[s].inst = i /\ run[s].pc \notin Ends => run'[s].shared
    BY <1>7, <1>11
<1>18. i # r => \E l \in Keys : i = slot[l]
    BY <1>4, <1>5
<1>19. GetShape(r, i)
    BY <1>1, <1>5, <1>9, <1>10, <1>11, <1>13, <1>14, <1>15, <1>16, <1>17, <1>18 DEF GetShape
<1> QED
    BY <1>5, <1>19

LEMMA GetInv ==
    ASSUME TypeOK, RunInv, AloneInv, QuietInv, ManagerErrorExplained,
           NEW r \in 1..started, NEW i \in Runs, GetShape(r, i)
    PROVE  RunInv' /\ AloneInv' /\ QuietInv' /\ ManagerErrorExplained'
<1> USE DEF GetShape
<1>1. r \in Runs /\ run[r].inst = 0 /\ r <= started
    BY MaxRunsAssumption DEF TypeOK, RunInv
<1>2. \A s \in Runs : run[s].inst \in 0..MaxRuns
    BY DEF TypeOK, Run
<1>3. i # r => inst[i].state # "none" /\ run[i].pc \notin {"none", "get"}
    BY MaxRunsAssumption DEF RunInv
<1>4. RunInv'
  <2>1. ASSUME NEW s \in Runs
        PROVE  /\ run'[s].pc = "none" <=> s > started'
               /\ run'[s].pc \in Going => run'[s].agent \in Agents
               /\ run'[s].pc \in {"none", "get"} => run'[s].inst = 0
               /\ run'[s].pc \in Working \cup {"refused", "disowned"} => run'[s].inst # 0
    <3>1. CASE s = r
      <4>1. run[r].agent \in Agents
        BY <1>1 DEF RunInv
      <4>2. started' = started /\ started \in Nat /\ i # 0
        BY MaxRunsAssumption DEF TypeOK
      <4> QED BY <1>1, <3>1, <4>1, <4>2, MaxRunsAssumption
    <3>2. CASE s # r
      BY <3>2 DEF RunInv
    <3> QED BY <3>1, <3>2
  <2>2. \A s \in Runs : run'[s].pc \in {"none", "get"} => s # r /\ run[s].pc \in {"none", "get"}
    BY <1>1
  <2>3. ASSUME NEW s \in Runs, run'[s].inst # 0
        PROVE  run'[run'[s].inst].pc \notin {"none", "get"}
    <3>1. CASE s = r
      BY <1>1, <1>3, <2>2, <3>1
    <3>2. CASE s # r
      <4>1. run'[s].inst = run[s].inst /\ run[s].inst \in Runs
        BY <1>2, <2>3, <3>2, MaxRunsAssumption
      <4> QED BY <2>2, <2>3, <4>1 DEF RunInv
    <3> QED BY <3>1, <3>2
  <2>4. ASSUME NEW k \in Keys, slot'[k] # 0
        PROVE  run'[slot'[k]].pc \notin {"none", "get"} /\ inst'[slot'[k]].state # "none"
    <3>1. CASE slot'[k] = i
      BY <1>1, <1>3, <2>2, <3>1
    <3>2. CASE slot'[k] # i
      <4>1. slot'[k] = slot[k] /\ slot[k] \in Runs
        BY <2>4, <3>2, MaxRunsAssumption DEF TypeOK
      <4>2. run[slot[k]].pc \notin {"none", "get"} /\ inst[slot[k]].state # "none"
        BY <2>4, <4>1 DEF RunInv
      <4> QED BY <2>2, <3>2, <4>1, <4>2
    <3> QED BY <3>1, <3>2
  <2> QED BY <2>1, <2>3, <2>4 DEF RunInv
<1>5. AloneInv'
  <2> SUFFICES ASSUME NEW s \in Runs, run'[s].pc \in Working, ~run'[s].shared
               PROVE  /\ \A t \in Runs \ {s} : run'[t].inst = run'[s].inst => run'[t].pc \in Ends
                      /\ inst'[run'[s].inst].mode = run'[s].mode =>
                           Fits(run'[s].pc, inst'[run'[s].inst].state)
    BY DEF AloneInv, Fits
  <2>1. CASE s = r
    <3>1. \A t \in Runs \ {s} : run'[t].inst = run'[s].inst => run'[t].pc \in Ends
      BY <2>1
    <3>2. ASSUME inst'[i].mode = run'[s].mode
          PROVE  inst'[i].state \notin {"none", "finished"}
      <4>1. CASE i = r
        BY <4>1
      <4>2. CASE i # r
        <5>1. inst[i].mode = "persistent" /\ inst[i].state # "none"
          BY <1>3, <2>1, <3>2, <4>2
        <5>2. ASSUME inst[i].state = "finished"
              PROVE  FALSE
          <6>1. PICK t \in Runs : run[t].inst = i /\ run[t].pc = "reready"
            BY <5>1, <5>2 DEF QuietInv
          <6> QED BY <2>1, <6>1
        <5> QED BY <4>2, <5>1, <5>2
      <4> QED BY <4>1, <4>2
    <3> QED BY <2>1, <3>1, <3>2 DEF Fits
  <2>2. CASE s # r
    <3>1. /\ run[s].pc \in Working /\ ~run[s].shared /\ run'[s].inst = run[s].inst
          /\ run'[s].mode = run[s].mode /\ run'[s].pc = run[s].pc /\ run[s].inst # i
      BY <2>2
    <3>2. run[s].inst \in Runs
      BY <1>2, <3>1, MaxRunsAssumption DEF RunInv
    <3>3. \A t \in Runs \ {s} : run'[t].inst = run'[s].inst => run'[t].pc \in Ends
      BY <3>1, <3>2 DEF AloneInv
    <3>4. inst'[run[s].inst] = inst[run[s].inst]
      BY <3>1, <3>2
    <3> QED BY <3>1, <3>3, <3>4 DEF AloneInv
  <2> QED BY <2>1, <2>2
<1>6. QuietInv'
  <2> SUFFICES ASSUME NEW j \in Runs, inst'[j].mode = "persistent", inst'[j].state = "finished"
               PROVE  \E s \in Runs : run'[s].inst = j /\ run'[s].pc = "reready"
    BY DEF QuietInv
  <2>1. inst[j].mode = "persistent" /\ inst[j].state = "finished"
    BY <1>1
  <2>2. PICK s \in Runs : run[s].inst = j /\ run[s].pc = "reready"
    BY <2>1 DEF QuietInv
  <2> QED BY <2>2
<1>7. ManagerErrorExplained'
  <2> SUFFICES ASSUME NEW s \in Runs, run'[s].pc \in {"refused", "disowned"}
               PROVE  run'[s].shared \/ inst'[run'[s].inst].mode # run'[s].mode
    BY DEF ManagerErrorExplained
  <2>1. s # r /\ run[s].pc \in {"refused", "disowned"} /\ run'[s].inst = run[s].inst
    OBVIOUS
  <2>2. run[s].inst \in Runs /\ run[s].inst # r
    BY <1>2, <2>1, MaxRunsAssumption DEF RunInv
  <2>3. inst'[run[s].inst].mode = inst[run[s].inst].mode
    BY <2>2
  <2> QED BY <2>1, <2>3 DEF ManagerErrorExplained
<1> QED
    BY <1>4, <1>5, <1>6, <1>7

-----------------------------------------------------------------------------
(* A run starts.                                                            *)

Asked(c, a, task) == [c EXCEPT !.pc = "get", !.agent = a, !.task = task]
Routed(c, chain, parent, m) == [c EXCEPT !.chain = chain, !.parent = parent, !.mode = m]

LEMMA AskedFields ==
    ASSUME NEW c \in Run, NEW a \in Agents, NEW task \in 0..MaxRuns
    PROVE  /\ Asked(c, a, task) \in Run /\ Asked(c, a, task).pc = "get"
           /\ Asked(c, a, task).agent = a /\ Asked(c, a, task).inst = c.inst
BY DEF Run, Asked

LEMMA RoutedFields ==
    ASSUME NEW c \in Run, NEW chain \in SUBSET Agents, NEW parent \in 0..MaxRuns,
           NEW m \in Modes
    PROVE  /\ Routed(c, chain, parent, m) \in Run /\ Routed(c, chain, parent, m).pc = c.pc
           /\ Routed(c, chain, parent, m).agent = c.agent
           /\ Routed(c, chain, parent, m).inst = c.inst
BY DEF Run, Routed

LEMMA NewRunFields ==
    ASSUME TypeOK, NEW a \in Agents, NEW task \in 0..MaxRuns, NEW chain \in SUBSET Agents,
           NEW parent \in 0..MaxRuns
    PROVE  /\ NewRun(a, task, chain, parent) \in Run
           /\ NewRun(a, task, chain, parent).pc = "get"
           /\ NewRun(a, task, chain, parent).agent = a
           /\ NewRun(a, task, chain, parent).inst = 0
<1> DEFINE b == Asked(NoRun, a, task)
           m == mode[a]
<1>1. NewRun(a, task, chain, parent) = Routed(b, chain, parent, m)
    BY DEF NewRun, Asked, Routed
<1>2. b \in Run /\ b.pc = "get" /\ b.agent = a /\ b.inst = NoRun.inst
    BY NoRunType, AskedFields
<1>3. NoRun.inst = 0 /\ m \in Modes
    BY DEF NoRun, TypeOK
<1> HIDE DEF b, m
<1> QED
    BY <1>1, <1>2, <1>3, RoutedFields

BeginShape(r) ==
    /\ r \in Runs /\ r = started + 1 /\ started' = r
    /\ run' \in [Runs -> Run] /\ Others(r)
    /\ run'[r].pc = "get" /\ run'[r].inst = 0 /\ run'[r].agent \in Agents
    /\ packet' \in [Runs -> PacketStatus]
    /\ UNCHANGED <<mode, slot, inst, past, due, edits>>

LEMMA BeginShapes ==
    ASSUME TypeOK, RunInv, SpawnFromTurn \/ SpawnFromRun \/ Dispatch
    PROVE  BeginShape(started + 1)
<1> DEFINE r == started + 1
<1> USE MaxRunsAssumption
<1>1. started \in 0..MaxRuns
    BY DEF TypeOK
<1>2. ASSUME NEW c \in Run, c.pc = "get", c.inst = 0, c.agent \in Agents, r \in Runs,
             run' = [run EXCEPT ![r] = c]
      PROVE  /\ run' \in [Runs -> Run] /\ Others(r) /\ run'[r].pc = "get"
             /\ run'[r].inst = 0 /\ run'[r].agent \in Agents
    BY <1>2 DEF TypeOK, Others
<1>3. ASSUME NEW a \in Agents, NEW p \in 0..started, SpawnAgent(a, p)
      PROVE  BeginShape(r)
  <2> DEFINE chain == IF p = 0 THEN {} ELSE run[p].chain
             task == IF p = 0 THEN 0 ELSE run[p].task
             c == NewRun(a, task, WithSpawnAncestor(chain, a), p)
  <2>1. /\ started < MaxRuns /\ run' = [run EXCEPT ![r] = c] /\ started' = r
        /\ UNCHANGED <<mode, slot, inst, past, due, packet, edits>>
    BY <1>3 DEF SpawnAgent, manager
  <2>2. r \in Runs /\ p \in 0..MaxRuns
    BY <1>1, <2>1
  <2>3. chain \in SUBSET Agents /\ task \in 0..MaxRuns
    BY <2>2 DEF TypeOK, Run
  <2> HIDE DEF chain, task
  <2>4. WithSpawnAncestor(chain, a) \in SUBSET Agents
    BY <2>3 DEF WithSpawnAncestor
  <2>5. c \in Run /\ c.pc = "get" /\ c.agent = a /\ c.inst = 0
    BY <2>2, <2>3, <2>4, NewRunFields
  <2>6. packet' \in [Runs -> PacketStatus]
    BY <2>1 DEF TypeOK
  <2> HIDE DEF c
  <2> QED BY <1>2, <2>1, <2>2, <2>5, <2>6 DEF BeginShape
<1>4. CASE Dispatch
  <2> USE DEF Dispatch
  <2>1. PICK a \in Agents :
          /\ started < MaxRuns /\ run' = [run EXCEPT ![r] = NewRun(a, r, {}, 0)]
          /\ started' = r /\ packet' = [packet EXCEPT ![r] = "running"]
          /\ UNCHANGED <<mode, slot, inst, past, due, edits>>
    BY <1>4 DEF manager
  <2> DEFINE c == NewRun(a, r, {}, 0)
  <2>2. r \in Runs /\ r \in 0..MaxRuns /\ 0 \in 0..MaxRuns /\ {} \in SUBSET Agents
    BY <1>1, <2>1
  <2>3. c \in Run /\ c.pc = "get" /\ c.agent = a /\ c.inst = 0
    BY <2>2, NewRunFields
  <2>4. packet' \in [Runs -> PacketStatus]
    BY <2>1, <2>2 DEF TypeOK, PacketStatus
  <2>5. run' = [run EXCEPT ![r] = c]
    BY <2>1
  <2> HIDE DEF c, Dispatch
  <2> QED BY <1>2, <2>1, <2>2, <2>3, <2>4, <2>5 DEF BeginShape
<1>5. SpawnFromTurn => BeginShape(r)
    BY <1>1, <1>3 DEF SpawnFromTurn
<1>6. SpawnFromRun => BeginShape(r)
    BY <1>1, <1>3 DEF SpawnFromRun
<1> QED
    BY <1>4, <1>5, <1>6

LEMMA BeginInv ==
    ASSUME TypeOK, RunInv, AloneInv, QuietInv, ManagerErrorExplained,
           NEW r, BeginShape(r)
    PROVE  /\ TypeOK' /\ RunInv' /\ AloneInv' /\ QuietInv'
           /\ ManagerErrorExplained'
<1> USE DEF BeginShape, Others
<1>1. r \in Runs /\ run[r].pc = "none" /\ r > started /\ started \in 0..MaxRuns
    BY MaxRunsAssumption DEF TypeOK, RunInv
<1>2. \A s \in Runs : run[s].inst \in 0..MaxRuns
    BY DEF TypeOK, Run
<1>3. TypeOK'
    BY DEF TypeOK
<1>4. RunInv'
  <2>1. ASSUME NEW s \in Runs
        PROVE  /\ run'[s].pc = "none" <=> s > started'
               /\ run'[s].pc \in Going => run'[s].agent \in Agents
               /\ run'[s].pc \in {"none", "get"} => run'[s].inst = 0
               /\ run'[s].pc \in Working \cup {"refused", "disowned"} => run'[s].inst # 0
    <3>1. CASE s = r
      BY <1>1, <3>1, MaxRunsAssumption
    <3>2. CASE s # r
      BY <1>1, <3>2, MaxRunsAssumption DEF RunInv
    <3> QED BY <3>1, <3>2
  <2>2. ASSUME NEW s \in Runs, run'[s].inst # 0
        PROVE  run'[run'[s].inst].pc \notin {"none", "get"}
    <3>1. s # r /\ run'[s].inst = run[s].inst /\ run[s].inst \in Runs
      BY <1>2, <2>2, MaxRunsAssumption
    <3>2. run[run[s].inst].pc \notin {"none", "get"}
      BY <2>2, <3>1 DEF RunInv
    <3>3. run[s].inst # r
      BY <1>1, <3>2
    <3> QED BY <3>1, <3>2, <3>3
  <2>3. ASSUME NEW k \in Keys, slot'[k] # 0
        PROVE  run'[slot'[k]].pc \notin {"none", "get"} /\ inst'[slot'[k]].state # "none"
    <3>1. slot'[k] = slot[k] /\ slot[k] \in Runs
      BY <2>3, MaxRunsAssumption DEF TypeOK
    <3>2. run[slot[k]].pc \notin {"none", "get"} /\ inst[slot[k]].state # "none"
      BY <2>3, <3>1 DEF RunInv
    <3>3. slot[k] # r
      BY <1>1, <3>2
    <3> QED BY <3>1, <3>2, <3>3
  <2> QED BY <2>1, <2>2, <2>3 DEF RunInv
<1>5. AloneInv'
  <2> SUFFICES ASSUME NEW s \in Runs, run'[s].pc \in Working, ~run'[s].shared
               PROVE  /\ \A t \in Runs \ {s} : run'[t].inst = run'[s].inst => run'[t].pc \in Ends
                      /\ inst'[run'[s].inst].mode = run'[s].mode =>
                           Fits(run'[s].pc, inst'[run'[s].inst].state)
    BY DEF AloneInv, Fits
  <2>1. s # r /\ run'[s] = run[s] /\ run[s].inst # 0
    BY <1>1 DEF RunInv
  <2> QED BY <1>1, <2>1 DEF AloneInv
<1>6. QuietInv'
  <2> SUFFICES ASSUME NEW j \in Runs, inst'[j].mode = "persistent", inst'[j].state = "finished"
               PROVE  \E s \in Runs : run'[s].inst = j /\ run'[s].pc = "reready"
    BY DEF QuietInv
  <2>1. PICK s \in Runs : run[s].inst = j /\ run[s].pc = "reready"
    BY DEF QuietInv
  <2> QED BY <1>1, <2>1
<1>7. ManagerErrorExplained'
  <2> SUFFICES ASSUME NEW s \in Runs, run'[s].pc \in {"refused", "disowned"}
               PROVE  run'[s].shared \/ inst'[run'[s].inst].mode # run'[s].mode
    BY DEF ManagerErrorExplained
  <2> QED BY <1>1 DEF ManagerErrorExplained
<1> QED
    BY <1>3, <1>4, <1>5, <1>6, <1>7

-----------------------------------------------------------------------------
(* A reset, and a change of a setting.                                      *)

LEMMA ResetInst ==
    ASSUME TypeOK, ResetAgent
    PROVE  /\ inst' \in [Runs -> Instance]
           /\ \A i \in Runs : inst'[i].state = inst[i].state /\ inst'[i].mode = inst[i].mode
<1>1. PICK a \in Agents : inst' = IF slot[<<a, 0>>] = 0 THEN inst
                       ELSE [inst EXCEPT ![slot[<<a, 0>>]].tokens = TokensReset(slot[<<a, 0>>])]
    BY DEF ResetAgent
<1> DEFINE i == slot[<<a, 0>>]
<1>2. <<a, 0>> \in Keys
    BY MaxRunsAssumption DEF Keys
<1>3. i = 0 \/ i \in Runs
    BY <1>2, MaxRunsAssumption DEF TypeOK
<1>4. CASE i = 0
    BY <1>1, <1>4 DEF TypeOK
<1>5. CASE i # 0
  <2>1. inst' = [inst EXCEPT ![i].tokens = 0] /\ i \in Runs
    BY <1>1, <1>3, <1>5 DEF TokensReset
  <2> HIDE DEF i
  <2>2. NewState(i, inst[i].state)
    BY <2>1, TokensMove
  <2> QED BY <2>1, <2>2 DEF NewState
<1> QED
    BY <1>4, <1>5

LEMMA OutsideInv ==
    ASSUME TypeOK, RunInv, AloneInv, QuietInv, ManagerErrorExplained,
           ResetAgent \/ ChangeMode
    PROVE  /\ TypeOK' /\ RunInv' /\ AloneInv' /\ QuietInv'
           /\ ManagerErrorExplained'
<1>1. /\ UNCHANGED <<slot, run, packet, started>>
      /\ inst' \in [Runs -> Instance]
      /\ \A i \in Runs : inst'[i].state = inst[i].state /\ inst'[i].mode = inst[i].mode
    BY ResetInst DEF ResetAgent, ChangeMode, manager, TypeOK
<1>2. /\ mode' \in [Agents -> Modes] /\ edits' \in 0..MaxEdits
      /\ past' \in [Keys -> SUBSET Runs] /\ due' \in [Keys -> SUBSET Runs]
  <2>1. edits' \in 0..MaxEdits
    BY MaxEditsAssumption DEF ResetAgent, ChangeMode, TypeOK
  <2>2. ASSUME NEW k, past' = [past EXCEPT ![k] = {}], due' = [due EXCEPT ![k] = {}]
        PROVE  past' \in [Keys -> SUBSET Runs] /\ due' \in [Keys -> SUBSET Runs]
    BY <2>2 DEF TypeOK
  <2>3. CASE ResetAgent
    BY <2>1, <2>2, <2>3 DEF ResetAgent, TypeOK
  <2>4. CASE ChangeMode
    <3>1. PICK a \in Agents :
            mode' = [mode EXCEPT ![a] = IF @ = "spawn" THEN "persistent" ELSE "spawn"]
      BY <2>4 DEF ChangeMode
    <3>2. mode' \in [Agents -> Modes]
      BY <3>1 DEF TypeOK, Modes
    <3> QED BY <2>1, <2>4, <3>2 DEF ChangeMode, manager, TypeOK
  <2> QED BY <2>3, <2>4
<1>3. TypeOK'
    BY <1>1, <1>2 DEF TypeOK
<1>4. /\ \A s \in Runs : run[s].inst # 0 => run[s].inst \in Runs
      /\ \A k \in Keys : slot[k] # 0 => slot[k] \in Runs
    BY MaxRunsAssumption DEF TypeOK, Run
<1>5. RunInv'
    BY <1>1, <1>4 DEF RunInv
<1>6. AloneInv'
  <2> SUFFICES ASSUME NEW s \in Runs, run[s].pc \in Working, ~run[s].shared
               PROVE  /\ \A t \in Runs \ {s} : run[t].inst = run[s].inst => run[t].pc \in Ends
                      /\ inst'[run[s].inst].mode = run[s].mode =>
                           Fits(run[s].pc, inst'[run[s].inst].state)
    BY <1>1 DEF AloneInv, Fits
  <2>1. run[s].inst \in Runs
    BY <1>4 DEF RunInv
  <2> QED BY <1>1, <2>1 DEF AloneInv
<1>7. QuietInv'
    BY <1>1 DEF QuietInv
<1>8. ManagerErrorExplained'
  <2> SUFFICES ASSUME NEW s \in Runs, run[s].pc \in {"refused", "disowned"}
               PROVE  run[s].shared \/ inst'[run[s].inst].mode # run[s].mode
    BY <1>1 DEF ManagerErrorExplained
  <2>1. run[s].inst \in Runs
    BY <1>4 DEF RunInv
  <2> QED BY <1>1, <2>1 DEF ManagerErrorExplained
<1> QED
    BY <1>3, <1>5, <1>6, <1>7, <1>8

-----------------------------------------------------------------------------
(* The kept exchanges.                                                      *)

LEMMA PastStep ==
    ASSUME TypeOK, NoExchangeLost, Next
    PROVE  /\ past' \in [Keys -> SUBSET Runs] /\ due' \in [Keys -> SUBSET Runs]
           /\ NoExchangeLost'
<1> DEFINE Good == /\ past' \in [Keys -> SUBSET Runs] /\ due' \in [Keys -> SUBSET Runs]
                   /\ NoExchangeLost'
<1> USE DEF TypeOK, NoExchangeLost
<1>1. (UNCHANGED <<past, due>>) => Good
    OBVIOUS
<1>2. ASSUME NEW k, past' = [past EXCEPT ![k] = {}], due' = [due EXCEPT ![k] = {}]
      PROVE  Good
    BY <1>2
<1>3. ASSUME NEW r \in Runs, NEW k,
             past' = [past EXCEPT ![k] = past[k] \cup {r}], due' = [due EXCEPT ![k] = @ \cup {r}]
      PROVE  Good
    BY <1>3
<1>4. \A r \in 1..started : r \in Runs
    BY MaxRunsAssumption
<1> HIDE DEF Good
<1>5. ASSUME NEW r \in 1..started, Step(r)
      PROVE  Good
  <2>1. CASE getOrCreateInstance(r)
    BY <1>1, <1>2, <2>1 DEF getOrCreateInstance
  <2>2. CASE LookInitializing(r) \/ LookReady(r)
    BY <1>1, <2>2 DEF LookInitializing, LookReady, manager
  <2>3. CASE Mark(r) \/ RunFails(r) \/ FinishTask(r)
    BY <1>1, <2>3 DEF Mark, RunFails, FinishTask
  <2>4. CASE RunAnswers(r)
    BY <1>1, <1>3, <1>4, <2>4 DEF RunAnswers, Appended
  <2>5. CASE DropInstance(r)
    BY <1>2, <2>5 DEF DropInstance
  <2> QED BY <1>5, <2>1, <2>2, <2>3, <2>4, <2>5 DEF Step
<1>6. SpawnFromTurn \/ SpawnFromRun \/ Dispatch => Good
    BY <1>1 DEF SpawnFromTurn, SpawnFromRun, SpawnAgent, Dispatch, manager
<1>7. ResetAgent => Good
    BY <1>2 DEF ResetAgent
<1>8. ChangeMode => Good
    BY <1>1 DEF ChangeMode, manager
<1>9. Good
    BY <1>5, <1>6, <1>7, <1>8 DEF Next
<1> QED
    BY <1>9 DEF Good

-----------------------------------------------------------------------------
(* Lifecycle: the theorems.                                                 *)

LEMMA InitIInv ==
    ASSUME Init
    PROVE  IInv
<1> USE MaxRunsAssumption, MaxEditsAssumption DEF Init
<1>1. NoInstance \in Instance /\ NoInstance.state = "none"
    BY DEF NoInstance, Instance, Modes, States
<1>2. NoRun.pc = "none" /\ NoRun.inst = 0
    BY DEF NoRun
<1>3. TypeOK
    BY <1>1, NoRunType DEF TypeOK, PacketStatus
<1>4. RunInv
    BY <1>2 DEF RunInv
<1>5. AloneInv /\ QuietInv /\ ManagerErrorExplained
    BY <1>1, <1>2 DEF AloneInv, QuietInv, ManagerErrorExplained
<1>6. NoExchangeLost
    BY DEF NoExchangeLost
<1> QED
    BY <1>3, <1>4, <1>5, <1>6 DEF IInv

LEMMA NextIInv ==
    ASSUME IInv, [Next]_vars
    PROVE  IInv'
<1> USE DEF IInv
<1>1. ASSUME Next
      PROVE  IInv'
  <2>1. /\ past' \in [Keys -> SUBSET Runs] /\ due' \in [Keys -> SUBSET Runs]
        /\ NoExchangeLost'
    BY <1>1, PastStep
  <2>2. CASE SpawnFromTurn \/ SpawnFromRun \/ Dispatch
    BY <2>1, <2>2, BeginShapes, BeginInv
  <2>3. CASE ResetAgent \/ ChangeMode
    BY <2>1, <2>3, OutsideInv
  <2>4. ASSUME NEW r \in 1..started, getOrCreateInstance(r)
        PROVE  IInv'
    <3>1. PICK i \in Runs : GetShape(r, i)
      BY <2>4, GetShapes
    <3>2. TypeOK'
      BY <2>1, <3>1 DEF GetShape, TypeOK
    <3> QED BY <2>1, <3>1, <3>2, GetInv
  <2>5. ASSUME NEW r \in 1..started, Step(r), ~getOrCreateInstance(r)
        PROVE  IInv'
    <3>1. Shape(r)
      BY <2>5, LookShape, MarkShape, FailsShape, AnswersShape, FinishShape, DropShape DEF Step
    <3> QED BY <2>1, <3>1, ShapeType, ShapeInv
  <2> QED BY <1>1, <2>2, <2>3, <2>4, <2>5 DEF Next
<1>2. CASE UNCHANGED vars
  <2> USE <1>2 DEF vars, manager
  <2>1. TypeOK' /\ RunInv'
    BY DEF TypeOK, RunInv
  <2>2. AloneInv' /\ QuietInv'
    BY DEF AloneInv, QuietInv, Fits
  <2>3. ManagerErrorExplained' /\ NoExchangeLost'
    BY DEF ManagerErrorExplained, NoExchangeLost
  <2> QED BY <2>1, <2>2, <2>3
<1> QED
    BY <1>1, <1>2

\* The invariant holds in every state of the model.
THEOREM SpecIInv == Spec => []IInv
BY InitIInv, NextIInv, PTL DEF Spec

\* Runs, instances, contexts and packets have their types.
THEOREM SpecTypeOK == Spec => []TypeOK
<1>1. IInv => TypeOK
    BY DEF IInv
<1> QED
    BY <1>1, SpecIInv, PTL

\* The bookkeeping of the manager fails a run only if another run worked on
\* the same instance meanwhile or the instance was made under another
\* lifecycle setting.
THEOREM SpecManagerErrorExplained == Spec => []ManagerErrorExplained
<1>1. IInv => ManagerErrorExplained
    BY DEF IInv
<1> QED
    BY <1>1, SpecIInv, PTL

\* An exchange that was stored is there until the context is cleared.
THEOREM SpecNoExchangeLost == Spec => []NoExchangeLost
<1>1. IInv => NoExchangeLost
    BY DEF IInv
<1> QED
    BY <1>1, SpecIInv, PTL

-----------------------------------------------------------------------------
(* SchemaGraph.  First, induction over the natural numbers, for sets.      *)

LessThan == {p \in Nat \X Nat : p[1] < p[2]}

\* Less-than on the naturals is well-founded, as a set of pairs.
LEMMA LessThanWellFounded == IsWellFoundedOn(LessThan, Nat)
BY NatLessThanWellFounded, Zenon DEF OpToRel, LessThan

\* A nonempty set of naturals has a least element.
LEMMA LeastElement ==
    ASSUME NEW S \in SUBSET Nat, S # {}
    PROVE  \E x \in S : \A y \in S : x <= y
<1>1. PICK x \in S : \A y \in S : <<y, x>> \notin LessThan
  BY LessThanWellFounded, WFMin
<1>2. ASSUME NEW y \in S
      PROVE  x <= y
  <2>1. <<y, x>> \in LessThan <=> y < x
    BY DEF LessThan
  <2> QED
    BY <1>1, <2>1
<1> QED
  BY <1>2

\* A set that contains 0 and with a number its successor contains all.
LEMMA Induction ==
    ASSUME NEW S, 0 \in S, \A n \in Nat : n \in S => n + 1 \in S
    PROVE  Nat \subseteq S
<1> SUFFICES ASSUME Nat \ S # {} PROVE FALSE
  OBVIOUS
<1>1. PICK x \in Nat \ S : \A y \in Nat \ S : x <= y
  BY LeastElement
<1>2. x # 0 /\ x - 1 \in Nat
  BY <1>1
<1>3. (x - 1) + 1 \in S
  BY <1>1, <1>2
<1> QED
  BY <1>1, <1>3

-----------------------------------------------------------------------------
(* The search of the cycle check finds what paths lead to.                 *)

\* A level of the search in E, and the one before all others.
Level(E, q) ==
    LET next == {e[2] : e \in {d \in E : d[1] \in q.queue}} \ q.visited
    IN  [visited |-> q.visited \cup next, queue |-> next]
FirstLevel(a) == [visited |-> {a}, queue |-> {a}]

\* The search in E from a, up to level m.
IsSearch(f, E, a, m) ==
    f = [n \in 0..m |-> IF n = 0 THEN FirstLevel(a) ELSE Level(E, f[n - 1])]

\* It exists for every number of levels.
LEMMA SearchExists ==
    ASSUME NEW E, NEW a, NEW n \in Nat
    PROVE  \E f : IsSearch(f, E, a, n)
<1> DEFINE S == {m \in Nat : \E f : IsSearch(f, E, a, m)}
<1>1. 0 \in S
  <2> DEFINE f == [i \in 0..0 |-> FirstLevel(a)]
  <2>1. IsSearch(f, E, a, 0)
    BY DEF IsSearch
  <2> QED
    BY <2>1
<1>2. ASSUME NEW m \in Nat, m \in S
      PROVE  m + 1 \in S
  <2>1. PICK f : IsSearch(f, E, a, m)
    BY <1>2
  <2> DEFINE last == Level(E, f[m])
             g == [i \in 0..(m + 1) |-> IF i = m + 1 THEN last ELSE f[i]]
  <2>2. (\A i \in 0..m : g[i] = f[i]) /\ g[m + 1] = last
    OBVIOUS
  <2>3. g = [i \in 0..(m + 1) |-> g[i]]
    OBVIOUS
  <2> HIDE DEF g
  <2>4. ASSUME NEW i \in 0..(m + 1)
        PROVE  g[i] = IF i = 0 THEN FirstLevel(a) ELSE Level(E, g[i - 1])
    <3>1. CASE i = m + 1
      BY <3>1, <2>2
    <3>2. CASE i \in 0..m
      <4>1. f[i] = IF i = 0 THEN FirstLevel(a) ELSE Level(E, f[i - 1])
        BY <2>1, <3>2 DEF IsSearch
      <4>2. g[i] = f[i] /\ (i # 0 => g[i - 1] = f[i - 1])
        BY <2>2, <3>2
      <4> QED
        BY <4>1, <4>2
    <3> QED
      BY <3>1, <3>2
  <2>5. IsSearch(g, E, a, m + 1)
    BY <2>3, <2>4 DEF IsSearch
  <2> QED
    BY <2>5
<1> HIDE DEF S
<1>3. n \in S
  BY <1>1, <1>2, Induction
<1> QED
  BY <1>3 DEF S

\* reachable looks at the last level of such a search.
LEMMA ReachableSearches ==
    ASSUME IsFiniteSet(Agents), NEW E, NEW a, NEW b
    PROVE  \E f : /\ IsSearch(f, E, a, Cardinality(Agents))
                  /\ reachable(E, a, b) <=> b \in f[Cardinality(Agents)].visited
<1> DEFINE n == Cardinality(Agents)
           bfs == CHOOSE f : IsSearch(f, E, a, n)
<1>1. n \in Nat
  BY FS_CardinalityType
<1>2. IsSearch(bfs, E, a, n)
  BY <1>1, SearchExists
<1>3. reachable(E, a, b) <=> b \in bfs[n].visited
  BY DEF reachable, IsSearch, Level, FirstLevel
<1> QED
  BY <1>2, <1>3

\* Level i has visited what paths lead to, except beyond its queue; and more
\* than i agents, unless the queue is empty.
Searched(q, E, a, i) ==
    /\ q.visited \subseteq Agents /\ q.queue \subseteq q.visited /\ a \in q.visited
    /\ \A V \in SUBSET Agents : a \in V /\ ClosedUnder(E, V) => q.visited \subseteq V
    /\ \A x \in q.visited \ q.queue, y \in Agents : <<x, y>> \in E => y \in q.visited
    /\ q.queue # {} => Cardinality(q.visited) > i

\* Each level follows from the one before.
LEMMA LevelSearched ==
    ASSUME IsFiniteSet(Agents), NEW E \in SUBSET (Agents \X Agents), NEW a,
           NEW i \in Nat, NEW q, Searched(q, E, a, i)
    PROVE  Searched(Level(E, q), E, a, i + 1)
<1> DEFINE next == {e[2] : e \in {d \in E : d[1] \in q.queue}} \ q.visited
           r == Level(E, q)
<1>1. r.visited = q.visited \cup next /\ r.queue = next
  BY DEF Level
<1>2. \A y : y \in next <=> /\ y \in Agents \ q.visited
                            /\ \E x \in q.queue : <<x, y>> \in E
  <2>1. ASSUME NEW y \in next
        PROVE  y \in Agents \ q.visited /\ \E x \in q.queue : <<x, y>> \in E
    <3>1. PICK e \in E : e[1] \in q.queue /\ e[2] = y
      OBVIOUS
    <3>2. e = <<e[1], e[2]>> /\ e[2] \in Agents
      OBVIOUS
    <3> QED
      BY <3>1, <3>2
  <2>2. ASSUME NEW y, y \notin q.visited, NEW x \in q.queue, <<x, y>> \in E
        PROVE  y \in next
    <3> DEFINE e == <<x, y>>
    <3>1. e \in E /\ e[1] \in q.queue /\ e[2] = y
      BY <2>2
    <3> QED
      BY <2>2, <3>1
  <2> QED
    BY <2>1, <2>2
<1> HIDE DEF next, r
<1>3. /\ r.visited \subseteq Agents /\ r.queue \subseteq r.visited /\ a \in r.visited
  BY <1>1, <1>2 DEF Searched
<1>4. ASSUME NEW V \in SUBSET Agents, a \in V, ClosedUnder(E, V)
      PROVE  r.visited \subseteq V
  <2>1. q.visited \subseteq V /\ q.queue \subseteq V
    BY <1>4 DEF Searched
  <2>2. next \subseteq V
    BY <1>2, <1>4, <2>1 DEF ClosedUnder
  <2> QED
    BY <1>1, <2>1, <2>2
<1>5. ASSUME NEW x \in r.visited \ r.queue, NEW y \in Agents, <<x, y>> \in E
      PROVE  y \in r.visited
  BY <1>1, <1>2, <1>5 DEF Searched
<1>6. ASSUME r.queue # {}
      PROVE  Cardinality(r.visited) > i + 1
  <2>1. q.queue # {} /\ r.visited # q.visited
    BY <1>1, <1>2, <1>6
  <2>2. IsFiniteSet(r.visited) /\ Cardinality(r.visited) \in Nat
    BY <1>3, FS_Subset, FS_CardinalityType
  <2>3. q.visited \in SUBSET r.visited
    BY <1>1
  <2>4. /\ Cardinality(q.visited) <= Cardinality(r.visited)
        /\ Cardinality(q.visited) # Cardinality(r.visited)
        /\ Cardinality(q.visited) \in Nat
    BY <2>1, <2>2, <2>3, FS_Subset, FS_CardinalityType
  <2>5. Cardinality(q.visited) > i
    BY <2>1 DEF Searched
  <2> QED
    BY <2>2, <2>4, <2>5
<1>7. Searched(r, E, a, i + 1)
  BY <1>3, <1>4, <1>5, <1>6 DEF Searched
<1> QED
  BY <1>7 DEF r

\* So it is for all levels.
LEMMA SearchSearched ==
    ASSUME IsFiniteSet(Agents), NEW E \in SUBSET (Agents \X Agents), NEW a \in Agents,
           NEW n \in Nat, NEW f, IsSearch(f, E, a, n)
    PROVE  Searched(f[n], E, a, n)
<1> DEFINE S == {i \in Nat : i <= n => Searched(f[i], E, a, i)}
<1>1. 0 \in S
  <2>1. f[0] = FirstLevel(a)
    BY DEF IsSearch
  <2>2. Cardinality({a}) = 1
    BY FS_Singleton
  <2>3. Searched(FirstLevel(a), E, a, 0)
    BY <2>2 DEF Searched, FirstLevel
  <2> QED
    BY <2>1, <2>3
<1>2. ASSUME NEW i \in Nat, i \in S
      PROVE  i + 1 \in S
  <2> SUFFICES ASSUME i + 1 <= n
               PROVE  Searched(f[i + 1], E, a, i + 1)
    OBVIOUS
  <2>1. Searched(f[i], E, a, i)
    BY <1>2
  <2>2. f[i + 1] = Level(E, f[i])
    BY DEF IsSearch
  <2> QED
    BY <2>1, <2>2, LevelSearched
<1> HIDE DEF S
<1>3. n \in S
  BY <1>1, <1>2, Induction
<1> QED
  BY <1>3 DEF S

\* What the search does not find lies outside of a set that no edge leaves.
LEMMA UnreachableIsApart ==
    ASSUME IsFiniteSet(Agents), NEW E \in SUBSET (Agents \X Agents),
           NEW a \in Agents, NEW b, ~reachable(E, a, b)
    PROVE  \E V \in SUBSET Agents : a \in V /\ b \notin V /\ ClosedUnder(E, V)
<1> DEFINE n == Cardinality(Agents)
<1>1. n \in Nat
  BY FS_CardinalityType
<1>2. PICK f : IsSearch(f, E, a, n) /\ b \notin f[n].visited
  BY ReachableSearches
<1>3. Searched(f[n], E, a, n)
  BY <1>1, <1>2, SearchSearched
<1>4. f[n].queue = {}
  <2>1. /\ f[n].visited \in SUBSET Agents
        /\ f[n].queue # {} => Cardinality(f[n].visited) > n
    BY <1>3 DEF Searched
  <2>2. Cardinality(f[n].visited) <= n /\ Cardinality(f[n].visited) \in Nat
    BY <2>1, FS_Subset, FS_CardinalityType
  <2> QED
    BY <1>1, <2>1, <2>2
<1>5. ClosedUnder(E, f[n].visited)
  BY <1>3, <1>4 DEF Searched, ClosedUnder
<1> QED
  BY <1>2, <1>3, <1>5 DEF Searched

\* The breadth-first search of the cycle check, which takes as many levels as
\* there are agents, is right on every graph, cycles and self-loops included:
\* it finds an agent exactly when a path leads to it.
THEOREM SearchFindsPaths ==
    ASSUME IsFiniteSet(Agents), NEW E \in SUBSET (Agents \X Agents),
           NEW a \in Agents, NEW b \in Agents
    PROVE  reachable(E, a, b) <=> PathExists(E, a, b)
<1> DEFINE n == Cardinality(Agents)
<1>1. ASSUME reachable(E, a, b)
      PROVE  PathExists(E, a, b)
  <2>1. n \in Nat
    BY FS_CardinalityType
  <2>2. PICK f : IsSearch(f, E, a, n) /\ b \in f[n].visited
    BY <1>1, ReachableSearches
  <2>3. Searched(f[n], E, a, n)
    BY <2>1, <2>2, SearchSearched
  <2> QED
    BY <2>2, <2>3 DEF Searched, PathExists
<1>2. ASSUME ~reachable(E, a, b)
      PROVE  ~PathExists(E, a, b)
  <2>1. PICK V \in SUBSET Agents : a \in V /\ b \notin V /\ ClosedUnder(E, V)
    BY <1>2, UnreachableIsApart
  <2> QED
    BY <2>1 DEF PathExists
<1> QED
  BY <1>1, <1>2

-----------------------------------------------------------------------------
(* The types.                                                              *)

RowType == [life : Lives, entry : Agents \cup {None}, chat : BOOLEAN]
RequestType ==
    [pc : RequestPCs, s : Schemas \cup {None}, id : 0..MaxRelations,
     src : Agents \cup {None}, dst : Agents \cup {None},
     named : SUBSET Fields, new : Values, snap : Values,
     rowRaced : BOOLEAN, edgeRaced : BOOLEAN]

\* TypeOK in these terms.
LEMMA TypeParts ==
    GraphTypeOK <=>
        /\ life \in [Agents -> Lives]
        /\ schema \in [Schemas -> RowType]
        /\ rels \subseteq Relation
        /\ issued \in 0..MaxRelations
        /\ sessions \subseteq Schemas
        /\ op \in [Clients -> RequestType]
        /\ ops \in 0..MaxOps
BY DEF GraphTypeOK, RowType, RequestType

\* A client that has nothing to do.
LEMMA IdleType == MaxRelations \in Nat => Idle \in RequestType
BY DEF RequestType, Idle, RequestPCs, Values, NoValues,
       HoldsRow, HoldsEdges

\* The rows.
LEMMA RowTypes ==
    ASSUME NEW l \in Lives, NEW v \in Values
    PROVE  Row(l, v) \in RowType
BY DEF Row, Values, RowType

\* What is written to a schema.
LEMMA ValueTypes ==
    ASSUME schema \in [Schemas -> RowType]
    PROVE  /\ \A s \in Schemas : ValuesOf(s) \in Values
           /\ NoValues \in Values
           /\ \A o \in RequestType : Merged(o) \in Values
           /\ \A o \in RequestType : o.src \in Agents
                => AutoEntryValues(o) \in Values
BY DEF ValuesOf, Values, NoValues, Merged,
       AutoEntryValues, RowType, RequestType

\* Where a step of one client leaves the others.
LEMMA AfterType ==
    ASSUME op \in [Clients -> RequestType], NEW c \in Clients,
           NEW next \in RequestType, NEW R, NEW E
    PROVE  AfterStep(c, next, R, E) \in [Clients -> RequestType]
<1>1. ASSUME NEW d \in Clients, NEW x \in BOOLEAN, NEW y \in BOOLEAN
      PROVE  [op[d] EXCEPT !.rowRaced = x, !.edgeRaced = y] \in RequestType
  BY DEF RequestType
<1>2. ASSUME NEW d \in Clients
      PROVE  /\ (op[d].rowRaced \/ (op[d].pc \in HoldsRow /\ op[d].s \in R)) \in BOOLEAN
             /\ (op[d].edgeRaced \/ (op[d].pc \in HoldsEdges /\ op[d].s \in E)) \in BOOLEAN
  OBVIOUS
<1>3. ASSUME NEW d \in Clients
      PROVE  AfterStep(c, next, R, E)[d] \in RequestType
  BY <1>1, <1>2 DEF AfterStep
<1> QED
  BY <1>3 DEF AfterStep

\* What such a step does to each of them.
LEMMA AfterFacts ==
    ASSUME op \in [Clients -> RequestType], NEW c \in Clients,
           NEW next, NEW R, NEW E, op' = AfterStep(c, next, R, E)
    PROVE  /\ op'[c] = next
           /\ \A d \in Clients \ {c} :
                /\ \A f \in {"pc", "s", "id", "src", "dst", "named", "new", "snap"} :
                     op'[d][f] = op[d][f]
                /\ op'[d].rowRaced <=>
                     op[d].rowRaced \/ (op[d].pc \in HoldsRow /\ op[d].s \in R)
                /\ op'[d].edgeRaced <=>
                     op[d].edgeRaced \/ (op[d].pc \in HoldsEdges /\ op[d].s \in E)
BY DEF AfterStep, RequestType

-----------------------------------------------------------------------------
(* What holds of the tables and of the requests under way.                 *)

\* Relations belong to schemas that are there.
OwnedInv == \A r \in rels : r.schema \in LiveSchemas

\* No path of other edges than id leads from dst to src: some set with dst and
\* without src is left by none of them.
Apart(s, id, src, dst) ==
    \E V \in SUBSET Agents :
        /\ dst \in V /\ src \notin V
        /\ ClosedUnder(Edges({r \in EdgesOf(s) : r.id # id}), V)

\* A request that nobody has overtaken holds the row as it is, and its edge
\* still closes no cycle.
RequestOK(o) ==
    /\ o.pc \in HoldsRow \cup HoldsEdges => o.s \in Schemas
    /\ o.pc \in {"check", "insert", "autoEntry", "rewire"} => {o.src, o.dst} \subseteq Agents
    /\ o.pc = "insert" => o.id = 0
    /\ o.pc = "check" => o.id = 0
    /\ o.pc = "autoEntry" => o.snap.entry = None
    /\ o.pc \in HoldsRow /\ ~o.rowRaced => o.snap = ValuesOf(o.s)
    /\ o.pc \in HoldsEdges /\ ~o.edgeRaced => Apart(o.s, o.id, o.src, o.dst)

RequestsOK == \A c \in Clients : RequestOK(op[c])

SchemaInv == GraphTypeOK /\ OwnedInv /\ RequestsOK /\ CheckedEdgesAcyclic

\* A step of c, to where it may be.
Moves(c) ==
    \E next \in RequestType : \E R, E : op' = AfterStep(c, next, R, E)

\* A step of c that keeps the types of the tables keeps all.
LEMMA StepType ==
    ASSUME MaxOps \in Nat, GraphTypeOK, NEW c \in Clients, Moves(c),
           ops' = ops \/ (ops < MaxOps /\ ops' = ops + 1),
           life' \in [Agents -> Lives], schema' \in [Schemas -> RowType],
           rels' \subseteq Relation, issued' \in 0..MaxRelations,
           sessions' \subseteq Schemas
    PROVE  GraphTypeOK'
<1>1. op' \in [Clients -> RequestType]
  BY TypeParts, AfterType DEF Moves
<1>2. ops' \in 0..MaxOps
  BY TypeParts
<1> QED
  BY <1>1, <1>2 DEF GraphTypeOK, RowType, RequestType

\* A relation that is inserted.
LEMMA InsertType ==
    ASSUME MaxRelations \in Nat, GraphTypeOK, NEW s \in Schemas,
           NEW a \in Agents, NEW b \in Agents, NEW checked \in BOOLEAN,
           InsertsRelation(s, a, b, checked)
    PROVE  rels' \subseteq Relation /\ issued' \in 0..MaxRelations
BY TypeParts DEF InsertsRelation, Relation, Relations

\* A step that writes a whole row.
LEMMA WriteType ==
    ASSUME MaxOps \in Nat, MaxRelations \in Nat, GraphTypeOK, NEW c \in Clients,
           NEW s \in Schemas, NEW v \in Values, WritesRow(c, s, v),
           UNCHANGED <<life, rels, issued, sessions, ops>>
    PROVE  GraphTypeOK'
<1>1. schema' = schema \/ schema' = [schema EXCEPT ![s] = Row("live", v)]
  BY DEF WritesRow
<1>2. "live" \in Lives
  BY DEF Lives
<1>3. schema' \in [Schemas -> RowType]
  BY <1>1, <1>2, RowTypes, TypeParts
<1>4. Moves(c)
  BY IdleType DEF WritesRow, Goes, Moves
<1> QED
  BY <1>3, <1>4, StepType, TypeParts

\* Every step keeps the types.
LEMMA NextType ==
    ASSUME MaxRelations \in Nat, MaxOps \in Nat, GraphTypeOK, RequestsOK,
           [GraphNext]_graphVars
    PROVE  GraphTypeOK'
<1> USE DEF Starts, StartsAndEnds, Goes, CanStart
<1>1. /\ life \in [Agents -> Lives] /\ schema \in [Schemas -> RowType]
      /\ rels \subseteq Relation /\ issued \in 0..MaxRelations
      /\ sessions \subseteq Schemas /\ op \in [Clients -> RequestType]
      /\ Idle \in RequestType
  BY TypeParts, IdleType
<1>2. Referable \subseteq Agents /\ Live \subseteq Agents
      /\ LiveSchemas \subseteq Schemas
  BY DEF Referable, ById, Live, LiveSchemas
<1>3. ASSUME NEW c \in Clients, Moves(c),
             ops' = ops \/ (ops < MaxOps /\ ops' = ops + 1),
             UNCHANGED <<life, schema, issued, sessions>>, rels' \subseteq rels
      PROVE  GraphTypeOK'
  <2>1. /\ life' \in [Agents -> Lives] /\ schema' \in [Schemas -> RowType]
        /\ rels' \subseteq Relation /\ issued' \in 0..MaxRelations
        /\ sessions' \subseteq Schemas
    BY <1>1, <1>3
  <2> QED
    BY <1>3, <2>1, StepType
<1>4. ASSUME NEW c \in Clients, NEW pc \in RequestPCs
      PROVE  [op[c] EXCEPT !.pc = pc] \in RequestType
  BY <1>1 DEF RequestType
<1>5. RequestPCs = {"check", "insert", "autoEntry", "member", "write", "rewire",
                   "idle", "clearEntries", "dropRelations", "deleteAgent"}
  BY DEF RequestPCs, HoldsRow, HoldsEdges
<1>6. ASSUME NEW c \in Clients, ReadSchema(c)
      PROVE  GraphTypeOK'
  <2>1. PICK s \in LiveSchemas, a, b \in Referable :
          Starts(c, [Idle EXCEPT !.pc = "check", !.s = s, !.src = a,
                                             !.dst = b, !.snap = ValuesOf(s)])
    BY <1>6 DEF ReadSchema
  <2>2. ValuesOf(s) \in Values
    BY <1>1, <1>2, ValueTypes
  <2>3. [Idle EXCEPT !.pc = "check", !.s = s, !.src = a, !.dst = b,
                           !.snap = ValuesOf(s)] \in RequestType
    BY <1>1, <1>2, <1>5, <2>2 DEF RequestType
  <2> QED
    BY <1>3, <1>6, <2>1, <2>3 DEF ReadSchema, Moves
<1>7. ASSUME NEW c \in Clients, CheckNoCycle(c) \/ RequireAgentInSchema(c)
      PROVE  GraphTypeOK'
  <2>1. Moves(c)
    BY <1>1, <1>4, <1>5, <1>7 DEF CheckNoCycle, RequireAgentInSchema, Moves
  <2> QED
    BY <1>3, <1>7, <2>1 DEF CheckNoCycle, RequireAgentInSchema
<1>8. ASSUME NEW c \in Clients, CreateAgentRelation(c)
      PROVE  GraphTypeOK'
  <2>1. Moves(c)
    BY <1>1, <1>4, <1>5, <1>8 DEF CreateAgentRelation, Moves
  <2>2. (~op[c].edgeRaced) \in BOOLEAN
    OBVIOUS
  <2>3. rels' \subseteq Relation /\ issued' \in 0..MaxRelations
    BY <1>1, <1>2, <1>8, <2>2, InsertType
       DEF CreateAgentRelation, RelationAllowed
  <2> QED
    BY <1>1, <1>8, <2>1, <2>3, StepType DEF CreateAgentRelation
<1>9. ASSUME NEW c \in Clients, AutoEntry(c)
      PROVE  GraphTypeOK'
  <2>1. op[c].s \in Schemas /\ op[c].src \in Agents
    BY <1>9 DEF AutoEntry, RequestsOK, RequestOK, HoldsRow
  <2>2. AutoEntryValues(op[c]) \in Values
    BY <1>1, <2>1, ValueTypes
  <2> QED
    BY <1>9, <2>1, <2>2, WriteType DEF AutoEntry
<1>10. ASSUME NEW c \in Clients, CheckUpdate(c)
       PROVE  GraphTypeOK'
  <2>1. PICK r \in rels, a, b \in Referable :
          Starts(c, [Idle EXCEPT !.pc = "rewire", !.s = r.schema,
                                             !.id = r.id, !.src = a, !.dst = b])
    BY <1>10 DEF CheckUpdate
  <2>2. r.schema \in Schemas /\ r.id \in 0..MaxRelations
    BY <1>1 DEF Relation, Relations
  <2>3. [Idle EXCEPT !.pc = "rewire", !.s = r.schema, !.id = r.id,
                           !.src = a, !.dst = b] \in RequestType
    BY <1>1, <1>2, <1>5, <2>2 DEF RequestType
  <2> QED
    BY <1>3, <1>10, <2>1, <2>3 DEF CheckUpdate, Moves
<1>11. ASSUME NEW c \in Clients, UpdateAgentRelation(c)
       PROVE  GraphTypeOK'
  <2>1. Moves(c)
    BY <1>1, <1>11 DEF UpdateAgentRelation, Moves
  <2>2. ASSUME NEW a \in Agents, NEW b \in Agents, NEW s \in Schemas,
               NEW id \in Relations, NEW checked \in BOOLEAN
        PROVE  [id |-> id, schema |-> s, source |-> a, target |-> b, checked |-> checked]
                 \in Relation
    BY DEF Relation
  <2>3. (~op[c].edgeRaced) \in BOOLEAN
    OBVIOUS
  <2>4. \A r \in rels : r.id \in Relations
    BY <1>1 DEF Relation
  <2>5. rels' \subseteq Relation
    <3> DEFINE o == op[c]
               new == [id |-> o.id, schema |-> o.s, source |-> o.src, target |-> o.dst,
                       checked |-> ~o.edgeRaced]
    <3>1. \/ rels' = rels
          \/ /\ {r \in rels : r.id = o.id} # {}
             /\ RelationAllowed(o.s, o.id, o.src, o.dst)
             /\ rels' \subseteq rels \cup {new}
      BY <1>11 DEF UpdateAgentRelation
    <3>2. ASSUME {r \in rels : r.id = o.id} # {},
                 RelationAllowed(o.s, o.id, o.src, o.dst)
          PROVE  new \in Relation
      BY <1>2, <2>2, <2>3, <2>4, <3>2 DEF RelationAllowed
    <3> QED
      BY <1>1, <3>1, <3>2
  <2> QED
    BY <1>1, <1>11, <2>1, <2>5, StepType DEF UpdateAgentRelation
<1>12. ASSUME NEW c \in Clients,
              DeleteAgentRelation(c) \/ AdminDeleteAgentRelation(c)
       PROVE  GraphTypeOK'
  BY <1>1, <1>3, <1>12
     DEF DeleteAgentRelation, AdminDeleteAgentRelation, Moves
<1>13. ASSUME NEW c \in Clients, AdminCreateAgentRelation(c)
       PROVE  GraphTypeOK'
  <2>1. rels' \subseteq Relation /\ issued' \in 0..MaxRelations
    BY <1>2, <1>13, InsertType DEF AdminCreateAgentRelation
  <2> QED
    BY <1>1, <1>13, <2>1, StepType DEF AdminCreateAgentRelation, Moves
<1>14. ASSUME NEW c \in Clients, LoadSchema(c) \/ AdminUpdateSchema(c)
       PROVE  GraphTypeOK'
  <2>1. PICK s \in LiveSchemas, q \in SchemaRequests, pc \in {"member", "write"} :
          /\ Starts(c, [Idle EXCEPT !.pc = pc, !.s = s, !.named = q.named,
                                  !.new = q.new, !.snap = ValuesOf(s)])
          /\ UNCHANGED <<life, schema, rels, issued, sessions>>
    BY <1>14 DEF LoadSchema, AdminUpdateSchema
  <2>2. ValuesOf(s) \in Values
    BY <1>1, <1>2, ValueTypes
  <2>3. q.named \subseteq Fields /\ q.new \in Values
    BY DEF SchemaRequests
  <2>4. [Idle EXCEPT !.pc = pc, !.s = s, !.named = q.named,
                           !.new = q.new, !.snap = ValuesOf(s)] \in RequestType
    BY <1>1, <1>2, <1>5, <2>2, <2>3 DEF RequestType
  <2> QED
    BY <1>3, <2>1, <2>4 DEF Moves
<1>15. ASSUME NEW c \in Clients, UpdateSchema(c)
       PROVE  GraphTypeOK'
  <2>1. op[c].s \in Schemas /\ Merged(op[c]) \in Values
    BY <1>1, <1>15, ValueTypes
       DEF UpdateSchema, RequestsOK, RequestOK, HoldsRow
  <2> QED
    BY <1>15, <2>1, WriteType DEF UpdateSchema
<1>16. ASSUME NEW c \in Clients, CreateSchema(c) \/ AdminCreateSchema(c)
       PROVE  GraphTypeOK'
  <2>1. PICK s \in Schemas, v \in Values :
          schema' = [schema EXCEPT ![s] = Row("live", v)]
    BY <1>1, <1>16, ValueTypes DEF CreateSchema, AdminCreateSchema
  <2>2. schema' \in [Schemas -> RowType]
    BY <1>1, <2>1, RowTypes DEF Lives
  <2> QED
    BY <1>1, <1>16, <2>2, StepType
       DEF CreateSchema, AdminCreateSchema, Moves
<1>17. ASSUME NEW c \in Clients, DeleteSchema(c) \/ AdminDeleteSchema(c)
       PROVE  GraphTypeOK'
  <2>1. PICK s \in Schemas : DeletesSchema(s)
    BY <1>17 DEF DeleteSchema, AdminDeleteSchema
  <2>2. schema' \in [Schemas -> RowType]
    BY <1>1, <2>1, RowTypes, ValueTypes DEF DeletesSchema, Lives
  <2>3. rels' \subseteq Relation /\ UNCHANGED <<life, issued, sessions>>
    BY <1>1, <2>1 DEF DeletesSchema
  <2> QED
    BY <1>1, <1>17, <2>2, <2>3, StepType
       DEF DeleteSchema, AdminDeleteSchema, Moves
<1>18. ASSUME NEW c \in Clients, Fork(c)
       PROVE  GraphTypeOK'
  <2>1. PICK s \in Schemas, a, b \in Agents :
          /\ \/ InsertsRelation(s, a, b, TRUE)
             \/ UNCHANGED <<rels, issued>>
          /\ life' = [x \in Agents |-> IF x \in {a, b} THEN "live" ELSE life[x]]
          /\ schema' = [schema EXCEPT ![s] = Row("live", [entry |-> a, chat |-> TRUE])]
    BY <1>18 DEF Fork
  <2>2. rels' \subseteq Relation /\ issued' \in 0..MaxRelations
    BY <1>1, <2>1, InsertType
  <2>3. life' \in [Agents -> Lives]
    BY <1>1, <2>1 DEF Lives
  <2>4. [entry |-> a, chat |-> TRUE] \in Values
    BY DEF Values
  <2>5. schema' \in [Schemas -> RowType]
    BY <1>1, <2>1, <2>4, RowTypes DEF Lives
  <2>6. /\ Moves(c) /\ sessions' \subseteq Schemas
        /\ ops < MaxOps /\ ops' = ops + 1
    BY <1>1, <1>18 DEF Fork, Moves
  <2> QED
    BY <2>2, <2>3, <2>5, <2>6, StepType
<1>19. ASSUME NEW c \in Clients, CreateAgent(c)
       PROVE  GraphTypeOK'
  <2>1. life' \in [Agents -> Lives]
    BY <1>1, <1>19 DEF CreateAgent, Lives
  <2> QED
    BY <1>1, <1>19, <2>1, StepType DEF CreateAgent, Moves
<1>20. ASSUME NEW c \in Clients, BeginDeleteAgent(c)
       PROVE  GraphTypeOK'
  <2>1. \A a \in Live :
          [Idle EXCEPT !.pc = "clearEntries", !.src = a] \in RequestType
    BY <1>1, <1>2, <1>5 DEF RequestType
  <2> QED
    BY <1>3, <1>20, <2>1 DEF BeginDeleteAgent, Moves
<1>21. ASSUME NEW c \in Clients, ClearEntries(c)
       PROVE  GraphTypeOK'
  <2>1. Moves(c)
    BY <1>4, <1>5, <1>21 DEF ClearEntries, Moves
  <2>2. \A s \in Schemas : [schema[s] EXCEPT !.entry = None] \in RowType
    BY <1>1 DEF RowType
  <2>3. schema' \in [Schemas -> RowType]
    BY <1>1, <1>21, <2>2 DEF ClearEntries
  <2> QED
    BY <1>1, <1>21, <2>1, <2>3, StepType DEF ClearEntries
<1>22. ASSUME NEW c \in Clients, DropRelations(c)
       PROVE  GraphTypeOK'
  <2>1. rels' \subseteq rels
    BY <1>22 DEF DropRelations
  <2>2. Moves(c)
    BY <1>4, <1>5, <1>22 DEF DropRelations, Moves
  <2> QED
    BY <1>3, <1>22, <2>1, <2>2 DEF DropRelations
<1>23. ASSUME NEW c \in Clients, DeleteAgent(c) \/ AdminDeleteAgent(c)
       PROVE  GraphTypeOK'
  <2>1. /\ life' \in [Agents -> Lives] /\ rels' \subseteq Relation
        /\ UNCHANGED <<schema, issued, sessions>>
    BY <1>1, <1>23
       DEF DeleteAgent, AdminDeleteAgent, DeletesAgent, Lives
  <2> QED
    BY <1>1, <1>23, <2>1, StepType DEF DeleteAgent, AdminDeleteAgent, Moves
<1>24. ASSUME \/ \E s \in Schemas : Chat(s) \/ DeleteSession(s)
              \/ UNCHANGED graphVars
       PROVE  GraphTypeOK'
  BY <1>24 DEF Chat, DeleteSession, graphVars, GraphTypeOK
<1> QED
  BY <1>6, <1>7, <1>8, <1>9, <1>10, <1>11, <1>12, <1>13, <1>14, <1>15, <1>16,
     <1>17, <1>18, <1>19, <1>20, <1>21, <1>22, <1>23, <1>24 DEF GraphNext

-----------------------------------------------------------------------------
(* Cycles.                                                                 *)

\* An edge from outside a set that no edge leaves into it closes no cycle.
LEMMA AcyclicExtends ==
    ASSUME NEW D, NEW E, Acyclic(E), NEW a, NEW b, NEW V \in SUBSET Agents,
           b \in V, a \notin V, ClosedUnder(E, V),
           \A x, y \in Agents : <<x, y>> \in D => <<x, y>> \in E \/ (x = a /\ y = b)
    PROVE  Acyclic(D)
<1> SUFFICES ASSUME NEW S \in SUBSET Agents, S # {},
                    \A x \in S : \E y \in S : <<x, y>> \in D
             PROVE  FALSE
  BY DEF Acyclic
<1>1. CASE S \cap V = {}
  <2>1. \A x \in S : \E y \in S : <<x, y>> \in E
    BY <1>1
  <2> QED
    BY <2>1 DEF Acyclic
<1>2. CASE S \cap V # {}
  <2>1. \A x \in S \cap V : \E y \in S \cap V : <<x, y>> \in E
    BY DEF ClosedUnder
  <2>2. S \cap V \in SUBSET Agents
    OBVIOUS
  <2> QED
    BY <1>2, <2>1, <2>2 DEF Acyclic
<1> QED
  BY <1>1, <1>2

\* Fewer edges have no more cycles.
LEMMA AcyclicShrinks ==
    ASSUME NEW D, NEW E, Acyclic(E), D \subseteq E
    PROVE  Acyclic(D)
BY DEF Acyclic

\* A relation between agents is an edge between agents.
LEMMA EdgeTypes ==
    ASSUME NEW R \in SUBSET Relation
    PROVE  /\ Edges(R) \in SUBSET (Agents \X Agents)
           /\ \A x, y : <<x, y>> \in Edges(R)
                <=> \E r \in R : r.source = x /\ r.target = y
BY DEF Edges, Relation

\* What the cycle check lets through is apart.
LEMMA CheckedIsApart ==
    ASSUME IsFiniteSet(Agents), GraphTypeOK, NEW s, NEW id,
           NEW a \in Agents, NEW b \in Agents, ~ClosesCycle(s, id, a, b)
    PROVE  Apart(s, id, a, b)
<1> DEFINE R == {r \in EdgesOf(s) : r.id # id}
<1>1. R \in SUBSET Relation
  BY TypeParts DEF EdgesOf
<1>2. Edges(R) \in SUBSET (Agents \X Agents)
  BY <1>1, EdgeTypes
<1>3. ~reachable(Edges(R), b, a)
  BY DEF ClosesCycle
<1>4. PICK V \in SUBSET Agents :
        b \in V /\ a \notin V /\ ClosedUnder(Edges(R), V)
  BY <1>2, <1>3, UnreachableIsApart
<1> QED
  BY <1>4 DEF Apart

\* Removing relations closes no cycle.
LEMMA RemovalAcyclic ==
    ASSUME CheckedEdgesAcyclic, rels' \subseteq rels
    PROVE  CheckedEdgesAcyclic'
<1> SUFFICES ASSUME NEW s \in Schemas
             PROVE  Acyclic(Edges({r \in EdgesOf(s)' : r.checked}))
  BY DEF CheckedEdgesAcyclic
<1> DEFINE R == {r \in EdgesOf(s) : r.checked}
           P == {r \in EdgesOf(s)' : r.checked}
<1>1. P \subseteq R
  BY DEF EdgesOf
<1>2. Acyclic(Edges(R))
  BY DEF CheckedEdgesAcyclic
<1>3. Edges(P) \subseteq Edges(R)
  BY <1>1 DEF Edges
<1> QED
  BY <1>2, <1>3, AcyclicShrinks

\* Nor does a relation that replaces those numbered id, if it is apart from
\* the others or does not count as checked.
LEMMA InsertAcyclic ==
    ASSUME GraphTypeOK, CheckedEdgesAcyclic, NEW id, NEW new \in Relation,
           rels' \subseteq {r \in rels : r.id # id} \cup {new},
           new.checked => Apart(new.schema, id, new.source, new.target)
    PROVE  CheckedEdgesAcyclic'
<1> SUFFICES ASSUME NEW s \in Schemas
             PROVE  Acyclic(Edges({r \in EdgesOf(s)' : r.checked}))
  BY DEF CheckedEdgesAcyclic
<1> DEFINE R == {r \in EdgesOf(s) : r.checked}
           Q == {r \in EdgesOf(s) : r.checked /\ r.id # id}
           P == {r \in EdgesOf(s)' : r.checked}
<1>1. Q \subseteq R /\ R \subseteq Relation
  BY TypeParts DEF EdgesOf
<1>2. P \subseteq Q \cup {new} /\ (P \subseteq Q \/ (new.checked /\ new.schema = s))
  BY DEF EdgesOf
<1>3. Acyclic(Edges(Q))
  <2>1. Acyclic(Edges(R))
    BY DEF CheckedEdgesAcyclic
  <2>2. Edges(Q) \subseteq Edges(R)
    BY <1>1 DEF Edges
  <2> QED
    BY <2>1, <2>2, AcyclicShrinks
<1>4. CASE P \subseteq Q
  <2>1. Edges(P) \subseteq Edges(Q)
    BY <1>4 DEF Edges
  <2> QED
    BY <1>3, <2>1, AcyclicShrinks
<1>5. CASE new.checked /\ new.schema = s
  <2>1. PICK V \in SUBSET Agents :
          /\ new.target \in V /\ new.source \notin V
          /\ ClosedUnder(Edges({r \in EdgesOf(s) : r.id # id}), V)
    BY <1>5 DEF Apart
  <2>2. Edges(Q) \subseteq Edges({r \in EdgesOf(s) : r.id # id})
    BY DEF Edges
  <2>3. ClosedUnder(Edges(Q), V)
    BY <2>1, <2>2 DEF ClosedUnder
  <2>4. P \in SUBSET Relation /\ Q \in SUBSET Relation
    BY <1>1, <1>2
  <2>5. ASSUME NEW x \in Agents, NEW y \in Agents, <<x, y>> \in Edges(P)
        PROVE  <<x, y>> \in Edges(Q) \/ (x = new.source /\ y = new.target)
    <3>1. PICK r \in P : r.source = x /\ r.target = y
      BY <2>4, <2>5, EdgeTypes
    <3>2. r \in Q \/ r = new
      BY <1>2
    <3>3. r \in Q => <<x, y>> \in Edges(Q)
      BY <3>1 DEF Edges
    <3> QED
      BY <3>1, <3>2, <3>3
  <2> QED
    BY <1>3, <2>1, <2>3, <2>5, AcyclicExtends
<1> QED
  BY <1>2, <1>4, <1>5

-----------------------------------------------------------------------------
(* Every step keeps the invariant.                                         *)

\* What holds of the other requests when c takes a step: only rows of R change
\* and only schemas of E get edges.
LEMMA OthersOK ==
    ASSUME GraphTypeOK, RequestsOK, NEW c \in Clients, NEW next, NEW R, NEW E,
           op' = AfterStep(c, next, R, E),
           \A s \in Schemas \ R : ValuesOf(s)' = ValuesOf(s),
           \A r \in rels' \ rels : r.schema \in E
    PROVE  \A d \in Clients \ {c} : RequestOK(op[d])'
<1> SUFFICES ASSUME NEW d \in Clients \ {c}
             PROVE  RequestOK(op[d])'
  OBVIOUS
<1>1. op \in [Clients -> RequestType]
  BY TypeParts
<1>2. /\ op'[d].pc = op[d].pc /\ op'[d].s = op[d].s /\ op'[d].id = op[d].id
      /\ op'[d].src = op[d].src /\ op'[d].dst = op[d].dst /\ op'[d].snap = op[d].snap
  BY <1>1, AfterFacts
<1>3. /\ op'[d].rowRaced <=>
           op[d].rowRaced \/ (op[d].pc \in HoldsRow /\ op[d].s \in R)
      /\ op'[d].edgeRaced <=>
           op[d].edgeRaced \/ (op[d].pc \in HoldsEdges /\ op[d].s \in E)
  BY <1>1, AfterFacts
<1>4. RequestOK(op[d])
  BY DEF RequestsOK
<1>5. op[d].pc \in HoldsRow \cup HoldsEdges => op[d].s \in Schemas
  BY <1>4 DEF RequestOK
<1>6. ASSUME op[d].pc \in HoldsRow, ~op'[d].rowRaced
      PROVE  op'[d].snap = ValuesOf(op[d].s)'
  <2>1. op[d].snap = ValuesOf(op[d].s) /\ op[d].s \in Schemas \ R
    BY <1>3, <1>4, <1>6 DEF RequestOK
  <2>2. /\ schema'[op[d].s].entry = schema[op[d].s].entry
        /\ schema'[op[d].s].chat = schema[op[d].s].chat
    BY <2>1 DEF ValuesOf
  <2> QED
    BY <1>2, <2>1, <2>2 DEF ValuesOf
<1>7. ASSUME op[d].pc \in HoldsEdges, ~op'[d].edgeRaced
      PROVE  Apart(op[d].s, op[d].id, op[d].src, op[d].dst)'
  <2>1. Apart(op[d].s, op[d].id, op[d].src, op[d].dst) /\ op[d].s \notin E
    BY <1>3, <1>4, <1>7 DEF RequestOK
  <2>2. \A r \in rels' : r.schema = op[d].s => r \in rels
    BY <2>1
  <2>3. PICK V \in SUBSET Agents :
          /\ op[d].dst \in V /\ op[d].src \notin V
          /\ ClosedUnder(
               Edges({r \in EdgesOf(op[d].s) : r.id # op[d].id}), V)
    BY <2>1 DEF Apart
  <2>4. Edges({r \in EdgesOf(op[d].s)' : r.id # op'[d].id})
          \subseteq Edges({r \in EdgesOf(op[d].s) : r.id # op[d].id})
    BY <1>2, <2>2 DEF Edges, EdgesOf
  <2>5. ClosedUnder(
          Edges({r \in EdgesOf(op[d].s)' : r.id # op'[d].id}), V)
    BY <2>3, <2>4 DEF ClosedUnder
  <2> QED
    BY <1>2, <2>3, <2>5 DEF Apart
<1> QED
  BY <1>2, <1>4, <1>6, <1>7 DEF RequestOK

\* The same with c, which has to be looked at by itself.
LEMMA StepOK ==
    ASSUME GraphTypeOK, RequestsOK, NEW c \in Clients, NEW next, NEW R, NEW E,
           op' = AfterStep(c, next, R, E),
           \A s \in Schemas \ R : ValuesOf(s)' = ValuesOf(s),
           \A r \in rels' \ rels : r.schema \in E,
           next.pc \notin HoldsRow \cup HoldsEdges \/ RequestOK(op[c])'
    PROVE  RequestsOK'
<1>1. op'[c] = next
  BY TypeParts, AfterFacts
<1>2. RequestOK(op[c])'
  <2>1. {"check", "insert", "autoEntry", "rewire"}
          \subseteq HoldsRow \cup HoldsEdges
    BY DEF HoldsRow, HoldsEdges
  <2> QED
    BY <1>1, <2>1 DEF RequestOK, HoldsRow, HoldsEdges
<1> QED
  BY <1>2, OthersOK DEF RequestsOK

\* A step that leaves the rows alone and adds no relation.
LEMMA QuietStep ==
    ASSUME SchemaInv, NEW c \in Clients, NEW next,
           op' = AfterStep(c, next, {}, {}), schema' = schema, rels' \subseteq rels,
           next.pc \notin HoldsRow \cup HoldsEdges \/ RequestOK(op[c])'
    PROVE  OwnedInv' /\ RequestsOK' /\ CheckedEdgesAcyclic'
<1>1. \A s \in Schemas : ValuesOf(s)' = ValuesOf(s)
  BY DEF ValuesOf
<1>2. RequestsOK'
  BY <1>1, StepOK DEF SchemaInv
<1>3. OwnedInv'
  BY DEF SchemaInv, OwnedInv, LiveSchemas
<1> QED
  BY <1>2, <1>3, RemovalAcyclic DEF SchemaInv

\* A step that writes rows of schemas in R and adds no relation.
LEMMA RowStep ==
    ASSUME SchemaInv, NEW c \in Clients, NEW next, NEW R,
           op' = AfterStep(c, next, R, {}), rels' \subseteq rels,
           \A s \in Schemas \ R : schema'[s] = schema[s],
           \A s \in Schemas : schema[s].life = "live" => schema'[s].life = "live"
                                                         \/ EdgesOf(s)' = {},
           next.pc \notin HoldsRow \cup HoldsEdges
    PROVE  OwnedInv' /\ RequestsOK' /\ CheckedEdgesAcyclic'
<1>1. \A s \in Schemas \ R : ValuesOf(s)' = ValuesOf(s)
  BY DEF ValuesOf
<1>2. RequestsOK'
  BY <1>1, StepOK DEF SchemaInv
<1>3. OwnedInv'
  BY DEF SchemaInv, OwnedInv, LiveSchemas, EdgesOf
<1> QED
  BY <1>2, <1>3, RemovalAcyclic DEF SchemaInv

\* A step that adds a relation, in place of those numbered id.
LEMMA InsertStep ==
    ASSUME SchemaInv, NEW c \in Clients, NEW next, NEW R, NEW new \in Relation, NEW id,
           op' = AfterStep(c, next, R, {new.schema}),
           rels' \subseteq {r \in rels : r.id # id} \cup {new},
           \A s \in Schemas \ R : schema'[s] = schema[s],
           \A s \in Schemas : schema[s].life = "live" => schema'[s].life = "live",
           schema'[new.schema].life = "live",
           new.checked => Apart(new.schema, id, new.source, new.target),
           next.pc \notin HoldsRow \cup HoldsEdges \/ RequestOK(op[c])'
    PROVE  OwnedInv' /\ RequestsOK' /\ CheckedEdgesAcyclic'
<1>1. \A s \in Schemas \ R : ValuesOf(s)' = ValuesOf(s)
  BY DEF ValuesOf
<1>2. \A r \in rels' \ rels : r.schema \in {new.schema}
  OBVIOUS
<1>3. RequestsOK'
  BY <1>1, <1>2, StepOK DEF SchemaInv
<1>4. OwnedInv'
  <2>1. new.schema \in Schemas
    BY DEF Relation
  <2> QED
    BY <2>1 DEF SchemaInv, OwnedInv, LiveSchemas
<1>5. CheckedEdgesAcyclic'
  BY InsertAcyclic DEF SchemaInv
<1> QED
  BY <1>3, <1>4, <1>5

\* Relations are inserted and rewired.
LEMMA RelationSteps ==
    ASSUME IsFiniteSet(Agents), MaxRelations \in Nat, SchemaInv, NEW c \in Clients,
           \/ CreateAgentRelation(c) \/ UpdateAgentRelation(c)
           \/ AdminCreateAgentRelation(c) \/ Fork(c)
    PROVE  OwnedInv' /\ RequestsOK' /\ CheckedEdgesAcyclic'
<1>1. /\ GraphTypeOK /\ RequestOK(op[c])
      /\ op \in [Clients -> RequestType] /\ schema \in [Schemas -> RowType]
      /\ rels \subseteq Relation /\ issued \in 0..MaxRelations
  BY TypeParts DEF SchemaInv, RequestsOK
<1>2. Live \subseteq Agents /\ Referable \subseteq Agents
      /\ \A s \in LiveSchemas : s \in Schemas /\ schema[s].life = "live"
  BY DEF Live, Referable, ById, LiveSchemas
<1>3. \A r \in rels : r.id # 0
  BY <1>1 DEF Relation, Relations
<1>4. ASSUME NEW s \in Schemas, NEW a \in Agents, NEW b \in Agents,
             NEW id \in Relations, NEW checked \in BOOLEAN
      PROVE  [id |-> id, schema |-> s, source |-> a, target |-> b, checked |-> checked]
               \in Relation
  BY DEF Relation
<1>5. ASSUME NEW s \in Schemas, NEW a \in Agents, NEW b \in Agents,
             NEW checked \in BOOLEAN, InsertsRelation(s, a, b, checked)
      PROVE  \E new \in Relation :
               /\ new.schema = s /\ new.source = a /\ new.target = b
               /\ new.checked = checked
               /\ rels' = {r \in rels : r.id # 0} \cup {new}
  <2>1. issued + 1 \in Relations
    BY <1>1, <1>5 DEF InsertsRelation, Relations
  <2> QED
    BY <1>3, <1>4, <1>5, <2>1 DEF InsertsRelation
<1>6. CASE CreateAgentRelation(c)
  <2> DEFINE o == op[c]
             next == IF o.snap.entry = None THEN [o EXCEPT !.pc = "autoEntry"] ELSE Idle
  <2>1. /\ o.pc = "insert" /\ schema' = schema
        /\ \/ /\ RelationAllowed(o.s, 0, o.src, o.dst)
              /\ InsertsRelation(o.s, o.src, o.dst, ~o.edgeRaced)
              /\ op' = AfterStep(c, next, {}, {o.s})
           \/ op' = AfterStep(c, Idle, {}, {}) /\ rels' = rels
    BY <1>6 DEF CreateAgentRelation, Goes
  <2>2. CASE op' = AfterStep(c, Idle, {}, {}) /\ rels' = rels
    BY <2>1, <2>2, QuietStep DEF Idle, HoldsRow, HoldsEdges
  <2>3. CASE /\ RelationAllowed(o.s, 0, o.src, o.dst)
             /\ InsertsRelation(o.s, o.src, o.dst, ~o.edgeRaced)
             /\ op' = AfterStep(c, next, {}, {o.s})
    <3>1. o.s \in LiveSchemas /\ o.src \in Agents /\ o.dst \in Agents
      BY <1>2, <2>3 DEF RelationAllowed
    <3>2. (~o.edgeRaced) \in BOOLEAN
      OBVIOUS
    <3> DEFINE new == [id |-> issued + 1, schema |-> o.s, source |-> o.src,
                       target |-> o.dst, checked |-> ~o.edgeRaced]
    <3>3. new \in Relation
      <4>1. issued + 1 \in Relations /\ o.s \in Schemas
        BY <1>1, <1>2, <2>3, <3>1 DEF InsertsRelation, Relations
      <4> QED
        BY <1>4, <3>1, <3>2, <4>1
    <3>7. rels' \subseteq {r \in rels : r.id # 0} \cup {new}
      BY <1>3, <2>3 DEF InsertsRelation
    <3>4. new.checked => Apart(new.schema, 0, new.source, new.target)
      BY <1>1, <2>1 DEF RequestOK, HoldsEdges
    <3>5. next.pc \notin HoldsRow \cup HoldsEdges \/ RequestOK(op[c])'
      <4>1. CASE o.snap.entry # None
        BY <4>1 DEF Idle, HoldsRow, HoldsEdges
      <4>2. CASE o.snap.entry = None
        <5>1. op'[c] = [o EXCEPT !.pc = "autoEntry"]
          BY <1>1, <2>3, <4>2, AfterFacts
        <5>2. /\ op'[c].pc = "autoEntry" /\ op'[c].s = op[c].s /\ op'[c].snap = op[c].snap
              /\ op'[c].src = op[c].src /\ op'[c].dst = op[c].dst
              /\ op'[c].rowRaced = op[c].rowRaced
          <6>1. o \in RequestType
            BY <1>1
          <6> QED
            BY <5>1, <6>1 DEF RequestType
        <5>3. /\ schema'[op[c].s].entry = schema[op[c].s].entry
              /\ schema'[op[c].s].chat = schema[op[c].s].chat
          BY <2>1
        <5>4. ~op[c].rowRaced => op[c].snap = ValuesOf(op[c].s)
          BY <1>1, <2>1 DEF RequestOK, HoldsRow
        <5>5. ~op'[c].rowRaced => op'[c].snap = ValuesOf(op[c].s)'
          BY <5>2, <5>3, <5>4 DEF ValuesOf
        <5> QED
          BY <1>2, <3>1, <4>2, <5>2, <5>5 DEF RequestOK, HoldsEdges
      <4> QED
        BY <4>1, <4>2
    <3>6. schema[new.schema].life = "live" /\ op' = AfterStep(c, next, {}, {new.schema})
      BY <1>2, <2>3, <3>1
    <3> HIDE DEF next, new
    <3> QED
      BY <2>1, <3>3, <3>4, <3>5, <3>6, <3>7, InsertStep
  <2> QED
    BY <2>1, <2>2, <2>3
<1>7. CASE UpdateAgentRelation(c)
  <2> DEFINE o == op[c]
             new == [id |-> o.id, schema |-> o.s, source |-> o.src, target |-> o.dst,
                     checked |-> ~o.edgeRaced]
  <2>1. /\ o.pc = "rewire" /\ schema' = schema
        /\ \/ /\ {r \in rels : r.id = o.id} # {}
              /\ RelationAllowed(o.s, o.id, o.src, o.dst)
              /\ rels' = (rels \ {r \in rels : r.id = o.id}) \cup {new}
              /\ op' = AfterStep(c, Idle, {}, {o.s})
           \/ op' = AfterStep(c, Idle, {}, {}) /\ rels' = rels
    BY <1>7 DEF UpdateAgentRelation, Goes
  <2>2. CASE op' = AfterStep(c, Idle, {}, {}) /\ rels' = rels
    BY <2>1, <2>2, QuietStep DEF Idle, HoldsRow, HoldsEdges
  <2>3. CASE /\ {r \in rels : r.id = o.id} # {}
             /\ RelationAllowed(o.s, o.id, o.src, o.dst)
             /\ rels' = (rels \ {r \in rels : r.id = o.id}) \cup {new}
             /\ op' = AfterStep(c, Idle, {}, {o.s})
    <3>1. o.s \in LiveSchemas /\ o.src \in Agents /\ o.dst \in Agents
      BY <1>2, <2>3 DEF RelationAllowed
    <3>2. o.id \in Relations
      BY <1>1, <2>3 DEF Relation
    <3>3. (~o.edgeRaced) \in BOOLEAN
      OBVIOUS
    <3>4. new \in Relation
      BY <1>2, <1>4, <3>1, <3>2, <3>3
    <3>5. new.checked => Apart(new.schema, o.id, new.source, new.target)
      BY <1>1, <2>1 DEF RequestOK, HoldsEdges
    <3>6. rels' \subseteq {r \in rels : r.id # o.id} \cup {new}
      BY <2>3
    <3>7. new.schema = o.s /\ schema[new.schema].life = "live"
      BY <1>2, <3>1
    <3>8. Idle.pc \notin HoldsRow \cup HoldsEdges
      BY DEF Idle, HoldsRow, HoldsEdges
    <3>9. op' = AfterStep(c, Idle, {}, {new.schema})
      BY <2>3, <3>7
    <3> HIDE DEF new
    <3> QED
      BY <2>1, <3>4, <3>5, <3>6, <3>7, <3>8, <3>9, InsertStep
  <2> QED
    BY <2>1, <2>2, <2>3
<1>8. CASE AdminCreateAgentRelation(c)
  <2>1. PICK s \in LiveSchemas, a, b \in Referable :
          /\ InsertsRelation(s, a, b, FALSE) /\ schema' = schema
          /\ op' = AfterStep(c, Idle, {}, {s})
    BY <1>8 DEF AdminCreateAgentRelation, StartsAndEnds
  <2>2. PICK new \in Relation :
          new.schema = s /\ ~new.checked /\ rels' = {r \in rels : r.id # 0} \cup {new}
    BY <1>2, <1>5, <2>1
  <2>3. Idle.pc \notin HoldsRow \cup HoldsEdges
    BY DEF Idle, HoldsRow, HoldsEdges
  <2>4. schema[new.schema].life = "live"
    BY <1>2, <2>2
  <2> QED
    BY <2>1, <2>2, <2>3, <2>4, InsertStep
<1>9. CASE Fork(c)
  <2>1. PICK s \in Schemas, a, b \in Agents :
          /\ schema[s].life = "fresh"
          /\ \/ a # b /\ InsertsRelation(s, a, b, TRUE)
             \/ rels' = rels
          /\ schema' = [schema EXCEPT ![s] = Row("live", [entry |-> a, chat |-> TRUE])]
          /\ op' = AfterStep(c, Idle, {s}, {s})
    BY <1>9 DEF Fork, StartsAndEnds
  <2>2. /\ \A t \in Schemas \ {s} : schema'[t] = schema[t]
        /\ schema'[s].life = "live"
    BY <1>1, <2>1 DEF Row
  <2>3. Idle.pc \notin HoldsRow \cup HoldsEdges
    BY DEF Idle, HoldsRow, HoldsEdges
  <2>4. EdgesOf(s) = {}
    BY <2>1 DEF SchemaInv, OwnedInv, LiveSchemas, EdgesOf
  <2>5. CASE a # b /\ InsertsRelation(s, a, b, TRUE)
    <3> DEFINE new == [id |-> issued + 1, schema |-> s, source |-> a, target |-> b,
                       checked |-> TRUE]
    <3>1. new \in Relation
      <4>1. issued + 1 \in Relations
        BY <1>1, <2>5 DEF InsertsRelation, Relations
      <4> QED
        BY <1>4, <4>1
    <3>2. rels' \subseteq {r \in rels : r.id # 0} \cup {new}
      BY <1>3, <2>5 DEF InsertsRelation
    <3>3. ClosedUnder(Edges({r \in EdgesOf(s) : r.id # 0}), {b})
      BY <2>4 DEF ClosedUnder, Edges
    <3>4. Apart(new.schema, 0, new.source, new.target)
      BY <2>5, <3>3 DEF Apart
    <3>5. /\ op' = AfterStep(c, Idle, {s}, {new.schema})
          /\ schema'[new.schema].life = "live"
      BY <2>1, <2>2
    <3>6. \A t \in Schemas : schema[t].life = "live" => schema'[t].life = "live"
      BY <2>2
    <3> HIDE DEF new
    <3> QED
      BY <2>2, <2>3, <3>1, <3>2, <3>4, <3>5, <3>6, InsertStep
  <2>6. CASE rels' = rels
    <3>1. RequestsOK'
      <4>1. \A t \in Schemas \ {s} : ValuesOf(t)' = ValuesOf(t)
        BY <2>2 DEF ValuesOf
      <4> QED
        BY <1>1, <2>1, <2>3, <2>6, <4>1, StepOK DEF SchemaInv
    <3>2. OwnedInv'
      BY <2>2, <2>6 DEF SchemaInv, OwnedInv, LiveSchemas
    <3> QED
      BY <2>6, <3>1, <3>2, RemovalAcyclic DEF SchemaInv
  <2> QED
    BY <2>1, <2>5, <2>6
<1> QED
  BY <1>6, <1>7, <1>8, <1>9

\* Requests read what they go on with, or check it.
LEMMA ReadSteps ==
    ASSUME IsFiniteSet(Agents), MaxRelations \in Nat, SchemaInv, NEW c \in Clients,
           \/ ReadSchema(c) \/ CheckNoCycle(c) \/ CheckUpdate(c)
           \/ LoadSchema(c) \/ AdminUpdateSchema(c)
           \/ RequireAgentInSchema(c)
    PROVE  OwnedInv' /\ RequestsOK' /\ CheckedEdgesAcyclic'
<1>1. /\ GraphTypeOK /\ RequestOK(op[c]) /\ op[c] \in RequestType
      /\ op \in [Clients -> RequestType] /\ schema \in [Schemas -> RowType]
      /\ rels \subseteq Relation /\ Idle \in RequestType
  BY TypeParts, IdleType DEF SchemaInv, RequestsOK
<1>2. LiveSchemas \subseteq Schemas /\ Referable \subseteq Agents
  BY DEF Live, Referable, ById, LiveSchemas
<1>3. schema' = schema /\ rels' = rels
  BY DEF ReadSchema, CheckNoCycle, CheckUpdate, LoadSchema,
         AdminUpdateSchema, RequireAgentInSchema
<1>5. ASSUME NEW next, Goes(c, next),
             next.pc \notin HoldsRow \cup HoldsEdges \/ RequestOK(next)
      PROVE  OwnedInv' /\ RequestsOK' /\ CheckedEdgesAcyclic'
  <2>1. op' = AfterStep(c, next, {}, {}) /\ op'[c] = next
    BY <1>1, <1>5, AfterFacts DEF Goes
  <2>2. RequestOK(next) => RequestOK(op[c])'
    <3>1. next.s \in Schemas => /\ schema'[next.s].entry = schema[next.s].entry
                                /\ schema'[next.s].chat = schema[next.s].chat
      BY <1>3
    <3>2. Apart(next.s, next.id, next.src, next.dst)
            => Apart(op[c].s, op[c].id, op[c].src, op[c].dst)'
      BY <1>3, <2>1 DEF Apart, EdgesOf
    <3> QED
      BY <2>1, <3>1, <3>2 DEF RequestOK, ValuesOf
  <2> QED
    BY <1>3, <1>5, <2>1, <2>2, QuietStep
<1>6. Idle.pc \notin HoldsRow \cup HoldsEdges
  BY DEF Idle, HoldsRow, HoldsEdges
<1>7. CASE ReadSchema(c)
  <2>1. PICK s \in LiveSchemas, a, b \in Referable :
          Goes(c, [Idle EXCEPT !.pc = "check", !.s = s, !.src = a,
                                           !.dst = b, !.snap = ValuesOf(s)])
    BY <1>7 DEF ReadSchema, Starts
  <2> DEFINE next == [Idle EXCEPT !.pc = "check", !.s = s, !.src = a,
                                        !.dst = b, !.snap = ValuesOf(s)]
  <2>2. /\ next.pc = "check" /\ next.s = s /\ next.src = a /\ next.dst = b
        /\ next.id = 0 /\ next.snap = ValuesOf(s)
    BY DEF Idle
  <2> HIDE DEF next
  <2>3. RequestOK(next)
    BY <1>2, <2>2 DEF RequestOK, HoldsEdges
  <2>4. Goes(c, next)
    BY <2>1 DEF next
  <2> QED
    BY <1>5, <2>3, <2>4
<1>8. CASE CheckNoCycle(c)
  <2> DEFINE next == [op[c] EXCEPT !.pc = "insert"]
  <2>1. /\ op[c].pc = "check"
        /\ \/ Goes(c, Idle)
           \/ Goes(c, next) /\ ~ClosesCycle(op[c].s, 0, op[c].src, op[c].dst)
    BY <1>8 DEF CheckNoCycle
  <2>2. /\ next.pc = "insert" /\ next.s = op[c].s /\ next.src = op[c].src
        /\ next.dst = op[c].dst /\ next.id = op[c].id /\ next.snap = op[c].snap
        /\ next.rowRaced = op[c].rowRaced
    BY <1>1 DEF RequestType
  <2>3. /\ op[c].src \in Agents /\ op[c].dst \in Agents /\ op[c].id = 0
        /\ op[c].s \in Schemas
        /\ ~op[c].rowRaced => op[c].snap = ValuesOf(op[c].s)
    BY <1>1, <2>1 DEF RequestOK, HoldsRow
  <2>4. ASSUME ~ClosesCycle(op[c].s, 0, op[c].src, op[c].dst)
        PROVE  RequestOK(next)
    <3>1. Apart(op[c].s, 0, op[c].src, op[c].dst)
      BY <1>1, <2>3, <2>4, CheckedIsApart
    <3> HIDE DEF next
    <3> QED
      BY <2>2, <2>3, <3>1 DEF RequestOK
  <2> HIDE DEF next
  <2> QED
    BY <1>5, <1>6, <2>1, <2>4
<1>9. CASE CheckUpdate(c)
  <2>1. PICK r \in rels, a, b \in Referable :
          /\ ~ClosesCycle(r.schema, r.id, a, b)
          /\ Goes(c, [Idle EXCEPT !.pc = "rewire", !.s = r.schema,
                                              !.id = r.id, !.src = a, !.dst = b])
    BY <1>9 DEF CheckUpdate, Starts
  <2> DEFINE next == [Idle EXCEPT !.pc = "rewire", !.s = r.schema,
                                        !.id = r.id, !.src = a, !.dst = b]
  <2>2. /\ next.pc = "rewire" /\ next.s = r.schema /\ next.src = a /\ next.dst = b
        /\ next.id = r.id
    BY DEF Idle
  <2>3. r.schema \in Schemas
    BY <1>1 DEF Relation
  <2>4. Apart(r.schema, r.id, a, b)
    BY <1>1, <1>2, <2>1, CheckedIsApart
  <2>5. Goes(c, next)
    BY <2>1
  <2> HIDE DEF next
  <2>6. RequestOK(next)
    BY <1>2, <2>2, <2>3, <2>4 DEF RequestOK, HoldsRow
  <2> QED
    BY <1>5, <2>5, <2>6
<1>10. CASE LoadSchema(c) \/ AdminUpdateSchema(c)
  <2>1. PICK s \in LiveSchemas, q \in SchemaRequests, pc \in {"member", "write"} :
          Goes(c, [Idle EXCEPT !.pc = pc, !.s = s, !.named = q.named,
                             !.new = q.new, !.snap = ValuesOf(s)])
    BY <1>10 DEF LoadSchema, AdminUpdateSchema, Starts
  <2> DEFINE next == [Idle EXCEPT !.pc = pc, !.s = s, !.named = q.named,
                          !.new = q.new, !.snap = ValuesOf(s)]
  <2>2. next.pc = pc /\ next.s = s /\ next.snap = ValuesOf(s)
    BY DEF Idle
  <2>3. Goes(c, next)
    BY <2>1
  <2> HIDE DEF next
  <2>4. RequestOK(next)
    BY <1>2, <2>2 DEF RequestOK, HoldsEdges
  <2> QED
    BY <1>5, <2>3, <2>4
<1>11. CASE RequireAgentInSchema(c)
  <2> DEFINE next == [op[c] EXCEPT !.pc = "write"]
  <2>1. op[c].pc = "member" /\ (Goes(c, Idle) \/ Goes(c, next))
    BY <1>11 DEF RequireAgentInSchema
  <2>2. /\ next.pc = "write" /\ next.s = op[c].s /\ next.snap = op[c].snap
        /\ next.rowRaced = op[c].rowRaced
    BY <1>1 DEF RequestType
  <2>3. /\ op[c].s \in Schemas
        /\ ~op[c].rowRaced => op[c].snap = ValuesOf(op[c].s)
    BY <1>1, <2>1 DEF RequestOK, HoldsRow
  <2> HIDE DEF next
  <2>4. RequestOK(next)
    BY <2>2, <2>3 DEF RequestOK, HoldsEdges
  <2> QED
    BY <1>5, <1>6, <2>1, <2>4
<1> QED
  BY <1>7, <1>8, <1>9, <1>10, <1>11

\* Rows are written, and rows of agents and relations go.
LEMMA RowSteps ==
    ASSUME SchemaInv, NEW c \in Clients,
           \/ AutoEntry(c) \/ UpdateSchema(c)
           \/ CreateSchema(c) \/ AdminCreateSchema(c)
           \/ DeleteSchema(c) \/ AdminDeleteSchema(c)
           \/ ClearEntries(c)
    PROVE  OwnedInv' /\ RequestsOK' /\ CheckedEdgesAcyclic'
<1> USE DEF LiveSchemas
<1>1. /\ op \in [Clients -> RequestType] /\ schema \in [Schemas -> RowType]
      /\ op[c] \in RequestType
  BY TypeParts DEF SchemaInv
<1>2. Idle.pc \notin HoldsRow \cup HoldsEdges
  BY DEF Idle, HoldsRow, HoldsEdges
<1>3. ASSUME NEW s \in Schemas, NEW v,
             schema' = [schema EXCEPT ![s] = Row("live", v)],
             op' = AfterStep(c, Idle, {s}, {}), rels' = rels
      PROVE  OwnedInv' /\ RequestsOK' /\ CheckedEdgesAcyclic'
  <2>1. /\ \A t \in Schemas \ {s} : schema'[t] = schema[t]
        /\ \A t \in Schemas : schema[t].life = "live" => schema'[t].life = "live"
    BY <1>1, <1>3 DEF Row
  <2> QED
    BY <1>2, <1>3, <2>1, RowStep
<1>4. CASE AutoEntry(c) \/ UpdateSchema(c)
  <2>1. /\ rels' = rels
        /\ \/ \E s \in Schemas, v \in {AutoEntryValues(op[c]), Merged(op[c])} :
                /\ schema' = [schema EXCEPT ![s] = Row("live", v)]
                /\ op' = AfterStep(c, Idle, {s}, {})
           \/ op' = AfterStep(c, Idle, {}, {}) /\ schema' = schema
    BY <1>4 DEF AutoEntry, UpdateSchema, WritesRow, Goes
  <2> QED
    BY <1>2, <1>3, <2>1, QuietStep
<1>5. CASE CreateSchema(c) \/ AdminCreateSchema(c)
  BY <1>3, <1>5 DEF CreateSchema, AdminCreateSchema, StartsAndEnds
<1>6. CASE DeleteSchema(c) \/ AdminDeleteSchema(c)
  <2>1. PICK s \in Schemas :
          DeletesSchema(s) /\ op' = AfterStep(c, Idle, {s}, {})
    BY <1>6 DEF DeleteSchema, AdminDeleteSchema, StartsAndEnds
  <2>2. /\ \A t \in Schemas \ {s} : schema'[t] = schema[t]
        /\ rels' \subseteq rels /\ EdgesOf(s)' = {}
    BY <1>1, <2>1 DEF DeletesSchema, EdgesOf
  <2>3. \A t \in Schemas : schema[t].life = "live"
          => schema'[t].life = "live" \/ EdgesOf(t)' = {}
    BY <2>2 DEF EdgesOf
  <2> QED
    BY <1>2, <2>1, <2>2, <2>3, RowStep
<1>7. CASE ClearEntries(c)
  <2> DEFINE next == [op[c] EXCEPT !.pc = "dropRelations"]
             mine == {s \in LiveSchemas : schema[s].entry = op[c].src}
  <2>1. next.pc \notin HoldsRow \cup HoldsEdges
    BY <1>1 DEF RequestType, HoldsRow, HoldsEdges
  <2>2. /\ rels' = rels
        /\ \/ /\ schema' = [s \in Schemas |-> IF s \in mine
                              THEN [schema[s] EXCEPT !.entry = None] ELSE schema[s]]
              /\ op' = AfterStep(c, next, mine, {})
           \/ op' = AfterStep(c, next, {}, {}) /\ schema' = schema
    BY <1>7 DEF ClearEntries, Goes
  <2>3. CASE /\ schema' = [s \in Schemas |-> IF s \in mine
                             THEN [schema[s] EXCEPT !.entry = None] ELSE schema[s]]
             /\ op' = AfterStep(c, next, mine, {})
    <3>1. /\ \A t \in Schemas \ mine : schema'[t] = schema[t]
          /\ \A t \in Schemas : schema[t].life = "live" => schema'[t].life = "live"
      BY <1>1, <2>3 DEF RowType
    <3> HIDE DEF next, mine
    <3> QED
      BY <2>1, <2>2, <2>3, <3>1, RowStep
  <2> HIDE DEF next, mine
  <2> QED
    BY <2>1, <2>2, <2>3, QuietStep
<1> QED
  BY <1>4, <1>5, <1>6, <1>7

\* Agents come and go, and relations go.
LEMMA AgentSteps ==
    ASSUME SchemaInv, NEW c \in Clients,
           \/ DeleteAgentRelation(c) \/ AdminDeleteAgentRelation(c)
           \/ CreateAgent(c) \/ BeginDeleteAgent(c)
           \/ DropRelations(c) \/ DeleteAgent(c) \/ AdminDeleteAgent(c)
    PROVE  OwnedInv' /\ RequestsOK' /\ CheckedEdgesAcyclic'
<1>1. op[c] \in RequestType
  BY TypeParts DEF SchemaInv
<1>2. /\ [op[c] EXCEPT !.pc = "deleteAgent"].pc \notin HoldsRow \cup HoldsEdges
      /\ Idle.pc \notin HoldsRow \cup HoldsEdges
      /\ \A a \in Agents : [Idle EXCEPT !.pc = "clearEntries", !.src = a].pc
                             \notin HoldsRow \cup HoldsEdges
  BY <1>1 DEF RequestType, Idle, HoldsRow, HoldsEdges
<1>3. \E next :
        /\ op' = AfterStep(c, next, {}, {})
        /\ next.pc \notin HoldsRow \cup HoldsEdges
  BY <1>2 DEF DeleteAgentRelation, AdminDeleteAgentRelation,
              CreateAgent, BeginDeleteAgent, DropRelations,
              DeleteAgent, AdminDeleteAgent, Starts,
              StartsAndEnds, Goes, Live
<1>4. schema' = schema /\ rels' \subseteq rels
  BY DEF DeleteAgentRelation, AdminDeleteAgentRelation,
         CreateAgent, BeginDeleteAgent, DropRelations,
         DeleteAgent, AdminDeleteAgent, DeletesAgent
<1> QED
  BY <1>3, <1>4, QuietStep

-----------------------------------------------------------------------------
(* SchemaGraph: the invariant.                                             *)

\* At the start there are no relations and nobody runs a request.
LEMMA InitSchemaInv ==
    ASSUME First \in Schemas, MaxRelations \in Nat, MaxOps \in Nat, GraphInit
    PROVE  SchemaInv
<1>1. Idle \in RequestType /\ NoValues \in Values
  BY IdleType DEF NoValues, Values
<1>2. \A s \in Schemas :
        Row(IF s = First THEN "live" ELSE "fresh", NoValues) \in RowType
  BY <1>1, RowTypes DEF Lives
<1>3. GraphTypeOK
  BY <1>1, <1>2, TypeParts DEF GraphInit, Lives
<1>4. RequestsOK
  BY DEF GraphInit, RequestsOK, RequestOK, Idle, HoldsRow, HoldsEdges
<1>5. CheckedEdgesAcyclic
  BY DEF GraphInit, CheckedEdgesAcyclic, Acyclic, Edges, EdgesOf
<1> QED
  BY <1>3, <1>4, <1>5 DEF SchemaInv, OwnedInv, GraphInit

\* Every step keeps the invariant.
LEMMA NextSchemaInv ==
    ASSUME IsFiniteSet(Agents), MaxRelations \in Nat, MaxOps \in Nat,
           SchemaInv, [GraphNext]_graphVars
    PROVE  SchemaInv'
<1>1. GraphTypeOK'
  BY NextType DEF SchemaInv
<1>2. ASSUME \/ \E s \in Schemas : Chat(s) \/ DeleteSession(s)
             \/ UNCHANGED graphVars
      PROVE  OwnedInv' /\ RequestsOK' /\ CheckedEdgesAcyclic'
  <2>1. schema' = schema /\ rels' = rels /\ op' = op
    BY <1>2 DEF Chat, DeleteSession, graphVars
  <2>2. OwnedInv' /\ CheckedEdgesAcyclic'
    BY <2>1, RemovalAcyclic DEF SchemaInv, OwnedInv, LiveSchemas
  <2>3. RequestsOK'
    BY <2>1 DEF SchemaInv, RequestsOK, RequestOK, ValuesOf, Apart, EdgesOf
  <2> QED
    BY <2>2, <2>3
<1>3. OwnedInv' /\ RequestsOK' /\ CheckedEdgesAcyclic'
  BY <1>2, ReadSteps, RelationSteps, RowSteps, AgentSteps DEF GraphNext
<1> QED
  BY <1>1, <1>3 DEF SchemaInv

\* The invariant holds in every reachable state.
THEOREM SpecSchemaInv == GraphSpec => []SchemaInv
<1>1. GraphInit => SchemaInv
  BY InitSchemaInv, FirstAssumption, MaxRelationsAssumption, MaxOpsAssumption
<1>2. SchemaInv /\ [GraphNext]_graphVars => SchemaInv'
  BY NextSchemaInv, FiniteAssumption, MaxRelationsAssumption, MaxOpsAssumption
<1> QED
  BY <1>1, <1>2, PTL DEF GraphSpec

\* A step that changes a field of a schema that is there before and after is
\* that of a request that may.
LEMMA NextFieldsKept ==
    ASSUME SchemaInv, GraphNext, NEW s \in Schemas, NEW f \in Fields,
           schema[s].life = "live", schema'[s].life = "live", schema'[s][f] # schema[s][f]
    PROVE  \E c \in Clients : op'[c] # op[c] /\ MayChange(c, s, f)
<1>1. /\ op \in [Clients -> RequestType] /\ schema \in [Schemas -> RowType]
      /\ \A c \in Clients : RequestOK(op[c]) /\ op[c] \in RequestType
  BY TypeParts DEF SchemaInv, RequestsOK
<1>2. f = "entry" \/ f = "chat"
  BY DEF Fields
<1>3. PICK c \in Clients :
        \/ AutoEntry(c) \/ UpdateSchema(c) \/ CreateSchema(c)
        \/ AdminCreateSchema(c) \/ DeleteSchema(c)
        \/ AdminDeleteSchema(c) \/ Fork(c) \/ ClearEntries(c)
  BY DEF GraphNext, ReadSchema, CheckNoCycle, CreateAgentRelation,
         CheckUpdate, UpdateAgentRelation, DeleteAgentRelation,
         AdminCreateAgentRelation, AdminDeleteAgentRelation,
         LoadSchema, RequireAgentInSchema, AdminUpdateSchema,
         CreateAgent, BeginDeleteAgent, DropRelations,
         DeleteAgent, AdminDeleteAgent, DeletesAgent,
         Chat, DeleteSession
<1>4. CASE AutoEntry(c) \/ UpdateSchema(c)
  <2>1. PICK v :
          /\ \/ op[c].pc = "autoEntry" /\ v = AutoEntryValues(op[c])
             \/ op[c].pc = "write" /\ v = Merged(op[c])
          /\ schema' = [schema EXCEPT ![op[c].s] = Row("live", v)]
          /\ op' = AfterStep(c, Idle, {op[c].s}, {})
    BY <1>4 DEF AutoEntry, UpdateSchema, WritesRow
  <2>2. op[c].s = s /\ schema'[s] = Row("live", v)
    BY <1>1, <2>1
  <2>3. op'[c] # op[c]
    <3>1. \E R : op' = AfterStep(c, Idle, R, {})
      BY <2>1
    <3>2. op'[c] = Idle
      BY <1>1, <3>1, AfterFacts
    <3> QED
      BY <2>1, <3>2 DEF Idle
  <2>4. op[c].rowRaced \/ /\ op[c].snap.entry = schema[s].entry
                          /\ op[c].snap.chat = schema[s].chat
    <3>1. op[c].pc \in HoldsRow
      BY <2>1 DEF HoldsRow
    <3>2. ~op[c].rowRaced => op[c].snap = ValuesOf(op[c].s)
      BY <1>1, <3>1 DEF RequestOK
    <3> QED
      BY <2>2, <3>2 DEF ValuesOf
  <2>5. schema'[s].entry = v.entry /\ schema'[s].chat = v.chat
    BY <2>2 DEF Row
  <2>6. CASE op[c].pc = "autoEntry" /\ v = AutoEntryValues(op[c])
    <3>1. op[c].snap.entry = None
      BY <1>1, <2>6 DEF RequestOK
    <3>2. v.chat = op[c].snap.chat
      BY <1>1, <2>6 DEF AutoEntryValues, RequestType, Values
    <3> QED
      BY <1>2, <2>2, <2>3, <2>4, <2>5, <2>6, <3>1, <3>2 DEF MayChange
  <2>7. CASE op[c].pc = "write" /\ v = Merged(op[c])
    <3>1. f \in op[c].named \/ op[c].rowRaced
      BY <1>2, <2>4, <2>5, <2>7 DEF Merged
    <3> QED
      BY <2>2, <2>3, <2>7, <3>1 DEF MayChange
  <2> QED
    BY <2>1, <2>6, <2>7
<1>5. CASE \/ CreateSchema(c) \/ AdminCreateSchema(c) \/ DeleteSchema(c)
           \/ AdminDeleteSchema(c) \/ Fork(c)
  <2>1. PICK t \in Schemas :
          /\ \A u \in Schemas \ {t} : schema'[u] = schema[u]
          /\ schema[t].life = "fresh" \/ schema'[t].life = "gone"
    <3>1. \E t \in Schemas, l \in {"live", "gone"} : \E v :
            /\ schema' = [schema EXCEPT ![t] = Row(l, v)]
            /\ schema[t].life = "fresh" \/ l = "gone"
      BY <1>5 DEF CreateSchema, AdminCreateSchema, DeleteSchema,
                  AdminDeleteSchema, DeletesSchema, Fork
    <3> QED
      BY <1>1, <3>1 DEF Row
  <2> QED
    BY <2>1
<1>6. CASE ClearEntries(c)
  <2>1. f = "entry" /\ schema[s].entry = op[c].src
    BY <1>1, <1>2, <1>6 DEF ClearEntries, RowType
  <2>2. op'[c].pc # "clearEntries" /\ op[c].pc = "clearEntries"
    <3>1. \E R : op' = AfterStep(c, [op[c] EXCEPT !.pc = "dropRelations"], R, {})
      BY <1>6 DEF ClearEntries, Goes
    <3>2. op'[c] = [op[c] EXCEPT !.pc = "dropRelations"]
      BY <1>1, <3>1, AfterFacts
    <3> QED
      BY <1>1, <1>6, <3>2 DEF ClearEntries, RequestType
  <2> QED
    BY <2>1, <2>2 DEF MayChange
<1> QED
  BY <1>3, <1>4, <1>5, <1>6

-----------------------------------------------------------------------------
(* SchemaGraph: the theorems.                                              *)

\* The tables and the requests keep their types.
THEOREM SpecGraphTypeOK == GraphSpec => []GraphTypeOK
<1>1. SchemaInv => GraphTypeOK
  BY DEF SchemaInv
<1> QED
  BY <1>1, SpecSchemaInv, PTL

\* However the requests of the clients interleave, the relations whose cycle
\* check no other write has overtaken close no cycle of delegation.
THEOREM SpecCheckedEdgesAcyclic == GraphSpec => []CheckedEdgesAcyclic
<1>1. SchemaInv => CheckedEdgesAcyclic
  BY DEF SchemaInv
<1> QED
  BY <1>1, SpecSchemaInv, PTL

\* The whole-row updates of a schema put back what nobody asked to change,
\* except over a write they have not seen.
THEOREM SpecUnnamedFieldsKept == GraphSpec => UnnamedFieldsKept
<1>1. SchemaInv /\ [GraphNext]_graphVars =>
        [\A s \in Schemas, f \in Fields :
           /\ schema[s].life = "live" /\ schema'[s].life = "live"
           /\ schema'[s][f] # schema[s][f]
           => \E c \in Clients : op'[c] # op[c] /\ MayChange(c, s, f)]_graphVars
  BY NextFieldsKept
<1> QED
  BY <1>1, SpecSchemaInv, PTL DEF GraphSpec, UnnamedFieldsKept
=============================================================================
