--------------------------- MODULE CircuitBreaker ---------------------------
(***************************************************************************)
(* The circuit breaker of service/resilience/circuit_breaker.go, the       *)
(* registry that hands breakers out by resource name, and the tool wrapper *)
(* that brackets every MCP call with AllowRequest and RecordSuccess or     *)
(* RecordFailure.  One resource name is modelled: breakers of different    *)
(* names share nothing.                                                    *)
(*                                                                         *)
(* Every method holds cb.mu for its whole body, so it is one step.  The    *)
(* tool call between AllowRequest and Record* holds no lock: other calls,  *)
(* clock ticks and a Reset of the registry happen in between.              *)
(*                                                                         *)
(* Time is kept as ages.  The code compares a timestamp with the clock     *)
(* only in time.Since(openedAt) >= ResetInterval and t.After(now - window),*)
(* so an age can stop growing once it reaches the constant it is compared  *)
(* with.                                                                   *)
(***************************************************************************)
EXTENDS Integers, Sequences, FiniteSets

CONSTANTS
    Callers,            \* goroutines that run wrapped MCP tools
    FailureThreshold,   \* config.FailureThreshold (default 3)
    FailureWindow,      \* config.FailureWindow, in ticks
    ResetInterval,      \* config.ResetInterval, in ticks
    MaxBreakers         \* bound: breaker objects ever created for the name

ASSUME ThresholdAssumption == FailureThreshold \in Nat \ {0}
ASSUME WindowAssumption == FailureWindow \in Nat \ {0}
ASSUME ResetAssumption == ResetInterval \in Nat \ {0}
ASSUME BreakersAssumption == MaxBreakers \in Nat \ {0}

Breakers == 1..MaxBreakers
NoBreaker == 0

CircuitClosed == "closed"
CircuitOpen == "open"
CircuitHalfOpen == "half_open"

VARIABLES
    state,              \* state[b]: cb.state
    failures,           \* failures[b]: ages of the failures in cb.failures
    openedAge,          \* openedAge[b]: time.Since(cb.openedAt)
    failureCountAtOpen, \* failureCountAtOpen[b]
    registered,         \* CircuitBreakerRegistry.breakers[name], or NoBreaker
    created,            \* breaker objects created so far
    pc,                 \* pc[c]: where caller c is in InvokableRun
    held,               \* held[c]: the breaker the caller's wrapper captured
    recent              \* history: last FailureThreshold outcomes on b

breakerVars == <<state, failures, openedAge, failureCountAtOpen>>
vars == <<breakerVars, registered, created, pc, held, recent>>

Outcome == [ok : BOOLEAN, age : 0..FailureWindow]

TypeOK ==
    /\ state \in [Breakers -> {CircuitClosed, CircuitOpen, CircuitHalfOpen}]
    /\ failures \in [Breakers -> Seq(0..FailureWindow)]
    /\ openedAge \in [Breakers -> 0..ResetInterval]
    /\ failureCountAtOpen \in [Breakers -> 0..FailureThreshold]
    /\ registered \in Breakers \cup {NoBreaker}
    /\ created \in 0..MaxBreakers
    /\ pc \in [Callers -> {"unresolved", "ready", "calling"}]
    /\ held \in [Callers -> Breakers \cup {NoBreaker}]
    /\ recent \in [Breakers -> Seq(Outcome)]

Init ==
    /\ state = [b \in Breakers |-> CircuitClosed]
    /\ failures = [b \in Breakers |-> <<>>]
    /\ openedAge = [b \in Breakers |-> 0]
    /\ failureCountAtOpen = [b \in Breakers |-> 0]
    /\ registered = NoBreaker
    /\ created = 0
    /\ pc = [c \in Callers |-> "unresolved"]
    /\ held = [c \in Callers |-> NoBreaker]
    /\ recent = [b \in Breakers |-> <<>>]

-----------------------------------------------------------------------------
(* The registry. *)

\* CircuitBreakerRegistry.Get while the caller's tools are resolved: the
\* registered breaker, or a new one.
Get(c) ==
    /\ pc[c] = "unresolved"
    /\ \/ /\ registered # NoBreaker
          /\ held' = [held EXCEPT ![c] = registered]
          /\ UNCHANGED <<registered, created>>
       \/ /\ registered = NoBreaker
          /\ created < MaxBreakers
          /\ created' = created + 1
          /\ registered' = created + 1
          /\ held' = [held EXCEPT ![c] = created + 1]
    /\ pc' = [pc EXCEPT ![c] = "ready"]
    /\ UNCHANGED <<breakerVars, recent>>

\* CircuitBreakerRegistry.Reset: the name is forgotten, wrappers that hold
\* the old breaker keep it.
Reset ==
    /\ registered # NoBreaker
    /\ registered' = NoBreaker
    /\ UNCHANGED <<breakerVars, created, pc, held, recent>>

\* The turn that resolved the tool ends and its wrapper is dropped.
DropTool(c) ==
    /\ pc[c] = "ready"
    /\ pc' = [pc EXCEPT ![c] = "unresolved"]
    /\ held' = [held EXCEPT ![c] = NoBreaker]
    /\ UNCHANGED <<breakerVars, registered, created, recent>>

-----------------------------------------------------------------------------
(* The breaker. *)

\* currentState: the effective state.  Callers store it back.
CurrentState(b) ==
    IF state[b] = CircuitOpen /\ openedAge[b] >= ResetInterval
      THEN CircuitHalfOpen
      ELSE state[b]

\* Mutant of Rejected: a rejected request restarts the reset interval.
RejectedExtends(c) ==
    /\ pc[c] = "ready"
    /\ CurrentState(held[c]) = CircuitOpen
    /\ openedAge' = [openedAge EXCEPT ![held[c]] = 0]
    /\ UNCHANGED <<state, failures, failureCountAtOpen, registered, created,
                   pc, held, recent>>

\* AllowRequest returns the "circuit breaker open" error: InvokableRun
\* returns it as [UNAVAILABLE] and nothing has changed.
Rejected(c) ==
    /\ pc[c] = "ready"
    /\ CurrentState(held[c]) = CircuitOpen
    /\ UNCHANGED vars

\* AllowRequest returns nil, in the closed or the half-open state.
Admitted(c) ==
    LET b == held[c] IN
    /\ pc[c] = "ready"
    /\ CurrentState(b) # CircuitOpen
    /\ state' = [state EXCEPT ![b] = CurrentState(b)]
    /\ pc' = [pc EXCEPT ![c] = "calling"]
    /\ UNCHANGED <<failures, openedAge, failureCountAtOpen, registered,
                   created, held, recent>>

AllowRequest(c) == Rejected(c) \/ Admitted(c)

\* The history of b after one more outcome: only the last FailureThreshold.
Remember(b, ok) ==
    LET all == Append(recent[b], [ok |-> ok, age |-> 0])
    IN  IF Len(all) > FailureThreshold THEN Tail(all) ELSE all

\* Mutant of AfterSuccess: any success closes the circuit.
AfterSuccessAlways(s) == CircuitClosed

\* The state RecordSuccess leaves behind.
AfterSuccess(s) == IF s = CircuitHalfOpen THEN CircuitClosed ELSE s

\* RecordSuccess after the tool returned without an error.
RecordSuccess(c) ==
    LET b == held[c] IN
    /\ pc[c] = "calling"
    /\ state' = [state EXCEPT ![b] = AfterSuccess(@)]
    /\ failures' = [failures EXCEPT ![b] = <<>>]
    /\ pc' = [pc EXCEPT ![c] = "ready"]
    /\ recent' = [recent EXCEPT ![b] = Remember(b, TRUE)]
    /\ UNCHANGED <<openedAge, failureCountAtOpen, registered, created, held>>

\* The failures of b that are at least `window' old.  cb.failures is in the
\* order of time, so they are a prefix of it.
Expired(b, window) ==
    Cardinality({i \in 1..Len(failures[b]) : failures[b][i] >= window})

\* Mutants of Pruned: no pruning, and a window one tick too short.
PrunedNone(b) == failures[b]
PrunedShort(b) ==
    SubSeq(failures[b], Expired(b, FailureWindow - 1) + 1, Len(failures[b]))

\* What RecordFailure keeps of cb.failures: those after now - FailureWindow.
Pruned(b) ==
    SubSeq(failures[b], Expired(b, FailureWindow) + 1, Len(failures[b]))

\* The transition to open, shared by the two places RecordFailure makes it.
TripOpen(b, count) ==
    /\ state' = [state EXCEPT ![b] = CircuitOpen]
    /\ openedAge' = [openedAge EXCEPT ![b] = 0]
    /\ failureCountAtOpen' = [failureCountAtOpen EXCEPT ![b] = count]

\* RecordFailure's test of the half-open state, on the stored state.
ProbeFailed(b) == state[b] = CircuitHalfOpen

\* Mutant of ReachesThreshold: one failure too late.
ExceedsThreshold(fs) == Len(fs) > FailureThreshold

ReachesThreshold(fs) == Len(fs) >= FailureThreshold

\* RecordFailure after the tool failed or timed out.
RecordFailure(c) ==
    LET b == held[c]
        counted == Append(Pruned(b), 0)
    IN
    /\ pc[c] = "calling"
    /\ \/ /\ ProbeFailed(b)
          /\ TripOpen(b, 1)
          /\ UNCHANGED failures
       \/ /\ ~ProbeFailed(b)
          /\ ReachesThreshold(counted)
          /\ TripOpen(b, Len(counted))
          /\ failures' = [failures EXCEPT ![b] = <<>>]
       \/ /\ ~ProbeFailed(b)
          /\ ~ReachesThreshold(counted)
          /\ failures' = [failures EXCEPT ![b] = counted]
          /\ UNCHANGED <<state, openedAge, failureCountAtOpen>>
    /\ pc' = [pc EXCEPT ![c] = "ready"]
    /\ recent' = [recent EXCEPT ![b] = Remember(b, FALSE)]
    /\ UNCHANGED <<registered, created, held>>

\* State, called by Snapshots for the dashboard: it too stores the state
\* that currentState computed.
Observe ==
    /\ registered # NoBreaker
    /\ state' = [state EXCEPT ![registered] = CurrentState(registered)]
    /\ UNCHANGED <<failures, openedAge, failureCountAtOpen, registered,
                   created, pc, held, recent>>

Older(age, limit) == IF age < limit THEN age + 1 ELSE age

\* The clock advances by one tick.
Tick ==
    /\ failures' = [b \in Breakers |->
                     [i \in 1..Len(failures[b]) |->
                        Older(failures[b][i], FailureWindow)]]
    /\ openedAge' = [b \in Breakers |->
                      IF state[b] = CircuitOpen
                        THEN Older(openedAge[b], ResetInterval)
                        ELSE openedAge[b]]
    /\ recent' = [b \in Breakers |->
                   [i \in 1..Len(recent[b]) |->
                      [recent[b][i] EXCEPT !.age = Older(@, FailureWindow)]]]
    /\ UNCHANGED <<state, failureCountAtOpen, registered, created, pc, held>>

Next ==
    \/ \E c \in Callers :
         \/ Get(c) \/ DropTool(c)
         \/ AllowRequest(c)
         \/ RecordSuccess(c) \/ RecordFailure(c)
    \/ Reset
    \/ Observe
    \/ Tick

\* Only the clock is sure to move: a tool call may never return.
Spec == Init /\ [][Next]_vars /\ WF_vars(Tick)

-----------------------------------------------------------------------------
(* Properties. *)

\* The last FailureThreshold outcomes on b are failures inside the window.
Streak(b) ==
    /\ Len(recent[b]) = FailureThreshold
    /\ \A i \in 1..FailureThreshold :
         ~recent[b][i].ok /\ recent[b][i].age < FailureWindow

\* RecordFailure keeps fewer failures than the threshold, in the order they
\* happened: a breaker can neither miss its threshold nor hoard failures.
FailuresBelowThreshold ==
    \A b \in Breakers :
        /\ Len(failures[b]) < FailureThreshold
        /\ \A i, j \in 1..Len(failures[b]) :
             i < j => failures[b][i] >= failures[b][j]

\* AC-RESIL-09, first half: a breaker that is still closed has not just seen
\* a run of FailureThreshold consecutive failures inside the window, however
\* the calls of several callers and the clock interleave.
ClosedHasNoStreak ==
    \A b \in Breakers : state[b] = CircuitClosed => ~Streak(b)

\* AC-RESIL-09, second half: the circuit leaves the closed state only for the
\* open state and only because of such a run.
OpensOnlyOnStreak ==
    [][\A b \in Breakers :
          state[b] = CircuitClosed /\ state'[b] # CircuitClosed
            => state'[b] = CircuitOpen /\ Streak(b)']_vars

\* AC-RESIL-10 and AC-RESIL-11: an open circuit is never closed directly, in
\* particular not by the late success of a call admitted before it opened.
OpenNeverClosesDirectly ==
    [][\A b \in Breakers : state[b] = CircuitOpen
                             => state'[b] # CircuitClosed]_vars

\* An open circuit becomes ready to probe: late failures of calls that were
\* admitted earlier may postpone it, but not for ever, whatever the callers do.
OpenEventuallyProbes ==
    \A b \in Breakers :
        state[b] = CircuitOpen ~> CurrentState(b) # CircuitOpen
=============================================================================
