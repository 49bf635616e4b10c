------------------------ MODULE CircuitBreaker_proofs ------------------------
(* Proofs about CircuitBreaker, for every number of callers and every       *)
(* positive threshold, window, reset interval and number of breakers.       *)
EXTENDS CircuitBreaker, FiniteSetTheorems, SequenceTheorems, TLAPS

\* A caller that is past Get holds a breaker.
HeldInv == \A c \in Callers : pc[c] # "unresolved" => held[c] \in Breakers

\* The inductive invariant.
IInv == TypeOK /\ HeldInv /\ FailuresBelowThreshold

\* The number of expired failures is at most the number of failures.
LEMMA ExpiredBound ==
    ASSUME TypeOK, NEW b \in Breakers, NEW w \in Int
    PROVE  Expired(b, w) \in 0..Len(failures[b])
<1> DEFINE n == Len(failures[b])
           E == {i \in 1..n : failures[b][i] >= w}
<1>1. n \in Nat
  BY DEF TypeOK
<1>2. IsFiniteSet(1..n) /\ Cardinality(1..n) = n
  BY <1>1, FS_Interval
<1>3. IsFiniteSet(E) /\ Cardinality(E) <= Cardinality(1..n)
  BY <1>2, FS_Subset
<1>4. Cardinality(E) \in Nat
  BY <1>3, FS_CardinalityType
<1> QED
  BY <1>1, <1>2, <1>3, <1>4 DEF Expired

\* What Pruned returns: a suffix of the failures.
LEMMA PrunedSuffix ==
    ASSUME TypeOK, NEW b \in Breakers
    PROVE  \E k \in 0..Len(failures[b]) :
              /\ k = Expired(b, FailureWindow)
              /\ Pruned(b) \in Seq(0..FailureWindow)
              /\ Len(Pruned(b)) = Len(failures[b]) - k
              /\ \A i \in 1..Len(Pruned(b)) : Pruned(b)[i] = failures[b][i + k]
<1>1. Expired(b, FailureWindow) \in 0..Len(failures[b])
  BY ExpiredBound, WindowAssumption
<1>2. failures[b] \in Seq(0..FailureWindow)
  BY DEF TypeOK
<1> DEFINE k == Expired(b, FailureWindow)
           f == failures[b]
<1>3. k + 1 \in Int /\ Len(f) \in Int /\ k \in Nat /\ k <= Len(f)
  BY <1>1, <1>2
<1>4. \A i \in (k + 1)..Len(f) : f[i] \in 0..FailureWindow
  <2> TAKE i \in (k + 1)..Len(f)
  <2>1. i \in 1..Len(f)
    BY <1>3
  <2> QED
    BY <2>1, <1>2, ElementOfSeq
<1> HIDE DEF k, f
<1>5. /\ SubSeq(f, k + 1, Len(f)) \in Seq(0..FailureWindow)
      /\ Len(SubSeq(f, k + 1, Len(f)))
           = IF k + 1 <= Len(f) THEN Len(f) - (k + 1) + 1 ELSE 0
      /\ \A i \in 1..(Len(f) - (k + 1) + 1) :
            SubSeq(f, k + 1, Len(f))[i] = f[k + 1 + i - 1]
  BY <1>3, <1>4, SubSeqProperties
<1>6. Len(SubSeq(f, k + 1, Len(f))) = Len(f) - k
  BY <1>3, <1>5
<1>7. \A i \in 1..(Len(f) - k) : SubSeq(f, k + 1, Len(f))[i] = f[i + k]
  <2> TAKE i \in 1..(Len(f) - k)
  <2>1. k + 1 + i - 1 = i + k /\ Len(f) - (k + 1) + 1 = Len(f) - k
    BY <1>3
  <2> QED
    BY <2>1, <1>5
<1> QED
  BY <1>1, <1>5, <1>6, <1>7 DEF Pruned, k, f

\* The conclusions RecordFailure needs about the list it counts.
LEMMA CountedFacts ==
    ASSUME IInv, NEW b \in Breakers
    PROVE  LET counted == Append(Pruned(b), 0) IN
           /\ counted \in Seq(0..FailureWindow)
           /\ Len(counted) \in 1..FailureThreshold
           /\ \A i, j \in 1..Len(counted) : i < j => counted[i] >= counted[j]
<1>1. PICK k \in 0..Len(failures[b]) :
              /\ Pruned(b) \in Seq(0..FailureWindow)
              /\ Len(Pruned(b)) = Len(failures[b]) - k
              /\ \A i \in 1..Len(Pruned(b)) : Pruned(b)[i] = failures[b][i + k]
  BY PrunedSuffix DEF IInv
<1>2. /\ failures[b] \in Seq(0..FailureWindow)
      /\ Len(failures[b]) \in Nat
      /\ Len(failures[b]) < FailureThreshold
      /\ \A i, j \in 1..Len(failures[b]) :
            i < j => failures[b][i] >= failures[b][j]
  BY DEF IInv, TypeOK, FailuresBelowThreshold
<1> DEFINE p == Pruned(b)
           c == Append(p, 0)
<1>3. p \in Seq(0..FailureWindow) /\ Len(p) \in Nat /\ Len(p) < FailureThreshold
  BY <1>1, <1>2, ThresholdAssumption
<1>4. /\ c \in Seq(0..FailureWindow)
      /\ Len(c) = Len(p) + 1
      /\ \A i \in 1..Len(p) : c[i] = p[i]
      /\ c[Len(p) + 1] = 0
  BY <1>3, WindowAssumption
<1>5. \A i, j \in 1..Len(p) : i < j => p[i] >= p[j]
  <2> TAKE i, j \in 1..Len(p)
  <2>1. i + k \in 1..Len(failures[b]) /\ j + k \in 1..Len(failures[b])
    BY <1>1, <1>2
  <2> QED
    BY <2>1, <1>1, <1>2
<1>6. \A i \in 1..Len(p) : p[i] \in 0..FailureWindow
  BY <1>3, ElementOfSeq
<1>7. ASSUME NEW i \in 1..Len(c), NEW j \in 1..Len(c), i < j
      PROVE  c[i] >= c[j]
  <2>1. i \in 1..Len(p)
    BY <1>3, <1>4, <1>7
  <2>2. CASE j \in 1..Len(p)
    BY <2>1, <2>2, <1>4, <1>5, <1>7
  <2>3. CASE j = Len(p) + 1
    BY <2>1, <2>3, <1>4, <1>6, WindowAssumption
  <2> QED
    BY <2>2, <2>3, <1>3, <1>4
<1> HIDE DEF p, c
<1>8. Len(c) \in 1..FailureThreshold
  BY <1>3, <1>4, ThresholdAssumption
<1> QED
  BY <1>4, <1>7, <1>8 DEF c, p

\* The state RecordSuccess leaves is a circuit state.
LEMMA AfterSuccessType ==
    ASSUME NEW s \in {CircuitClosed, CircuitOpen, CircuitHalfOpen}
    PROVE  AfterSuccess(s) \in {CircuitClosed, CircuitOpen, CircuitHalfOpen}
BY DEF AfterSuccess

\* currentState returns a circuit state, and closes nothing.
LEMMA CurrentStateType ==
    ASSUME TypeOK, NEW b \in Breakers
    PROVE  /\ CurrentState(b) \in {CircuitClosed, CircuitOpen, CircuitHalfOpen}
           /\ state[b] = CircuitOpen => CurrentState(b) # CircuitClosed
BY DEF CurrentState, TypeOK, CircuitOpen, CircuitClosed, CircuitHalfOpen

\* The remembered history is a sequence of outcomes.
LEMMA RememberType ==
    ASSUME TypeOK, NEW b \in Breakers, NEW ok \in BOOLEAN
    PROVE  Remember(b, ok) \in Seq(Outcome)
<1> DEFINE o == [ok |-> ok, age |-> 0]
           all == Append(recent[b], o)
<1>1. o \in Outcome
  BY WindowAssumption DEF Outcome
<1>2. recent[b] \in Seq(Outcome)
  BY DEF TypeOK
<1> HIDE DEF o
<1>3. all \in Seq(Outcome) /\ all # <<>>
  BY <1>1, <1>2
<1>4. Tail(all) \in Seq(Outcome)
  BY <1>3
<1> QED
  BY <1>3, <1>4 DEF Remember, o

\* An age that grows by one tick stays within its limit and keeps its order.
LEMMA OlderFacts ==
    ASSUME NEW limit \in Nat, NEW x \in 0..limit, NEW y \in 0..limit, x >= y
    PROVE  /\ Older(x, limit) \in 0..limit
           /\ Older(x, limit) >= Older(y, limit)
BY DEF Older

\* The initial state satisfies the invariant.
LEMMA InitIInv == Init => IInv
BY ThresholdAssumption, WindowAssumption, ResetAssumption, BreakersAssumption
   DEF Init, IInv, TypeOK, HeldInv, FailuresBelowThreshold, Breakers,
       NoBreaker, CircuitClosed, CircuitOpen, CircuitHalfOpen

\* Tripping the circuit keeps the breaker's fields in their types.
LEMMA TripOpenType ==
    ASSUME TypeOK, NEW b \in Breakers, NEW n \in 0..FailureThreshold,
           TripOpen(b, n)
    PROVE  /\ state' \in [Breakers -> {CircuitClosed, CircuitOpen, CircuitHalfOpen}]
           /\ openedAge' \in [Breakers -> 0..ResetInterval]
           /\ failureCountAtOpen' \in [Breakers -> 0..FailureThreshold]
<1>1. 0 \in 0..ResetInterval
  BY ResetAssumption
<1> QED
  BY <1>1 DEF TypeOK, TripOpen

\* A recorded failure preserves the invariant.
LEMMA RecordFailureIInv ==
    ASSUME IInv, NEW c \in Callers, RecordFailure(c)
    PROVE  IInv'
<1> DEFINE b == held[c]
           counted == Append(Pruned(b), 0)
<1>1. b \in Breakers
  BY DEF IInv, TypeOK, HeldInv, RecordFailure
<1>2. /\ counted \in Seq(0..FailureWindow)
      /\ Len(counted) \in 1..FailureThreshold
      /\ \A i, j \in 1..Len(counted) : i < j => counted[i] >= counted[j]
  BY <1>1, CountedFacts
<1>3. Remember(b, FALSE) \in Seq(Outcome)
  BY <1>1, RememberType DEF IInv
<1>4. /\ pc' \in [Callers -> {"unresolved", "ready", "calling"}]
      /\ recent' \in [Breakers -> Seq(Outcome)]
      /\ HeldInv'
  BY <1>1, <1>3 DEF IInv, TypeOK, HeldInv, RecordFailure
<1> HIDE DEF counted, b
<1>5. CASE ProbeFailed(b) /\ TripOpen(b, 1) /\ UNCHANGED failures
  <2>1. /\ state' \in [Breakers -> {CircuitClosed, CircuitOpen, CircuitHalfOpen}]
        /\ openedAge' \in [Breakers -> 0..ResetInterval]
        /\ failureCountAtOpen' \in [Breakers -> 0..FailureThreshold]
    BY <1>1, <1>5, TripOpenType, ThresholdAssumption DEF IInv
  <2>2. TypeOK'
    BY <2>1, <1>4, <1>5 DEF IInv, TypeOK, RecordFailure
  <2> QED
    BY <2>2, <1>4, <1>5 DEF IInv, FailuresBelowThreshold
<1>6. CASE TripOpen(b, Len(counted)) /\ failures' = [failures EXCEPT ![b] = <<>>]
  <2>1. /\ state' \in [Breakers -> {CircuitClosed, CircuitOpen, CircuitHalfOpen}]
        /\ openedAge' \in [Breakers -> 0..ResetInterval]
        /\ failureCountAtOpen' \in [Breakers -> 0..FailureThreshold]
    BY <1>1, <1>2, <1>6, TripOpenType, ThresholdAssumption DEF IInv
  <2>2. failures' \in [Breakers -> Seq(0..FailureWindow)]
    BY <1>1, <1>6 DEF IInv, TypeOK
  <2>3. TypeOK'
    BY <2>1, <2>2, <1>4 DEF IInv, TypeOK, RecordFailure
  <2>4. FailuresBelowThreshold'
    BY <1>1, <1>6, ThresholdAssumption DEF IInv, TypeOK, FailuresBelowThreshold
  <2> QED
    BY <2>3, <2>4, <1>4 DEF IInv
<1>7. CASE /\ ~ReachesThreshold(counted)
           /\ failures' = [failures EXCEPT ![b] = counted]
           /\ UNCHANGED <<state, openedAge, failureCountAtOpen>>
  <2>1. Len(counted) < FailureThreshold
    BY <1>2, <1>7, ThresholdAssumption DEF ReachesThreshold
  <2>2. failures' \in [Breakers -> Seq(0..FailureWindow)]
    BY <1>1, <1>2, <1>7 DEF IInv, TypeOK
  <2>3. TypeOK'
    BY <1>4, <1>7, <2>2 DEF IInv, TypeOK, RecordFailure
  <2>4. FailuresBelowThreshold'
    BY <1>1, <1>2, <1>7, <2>1 DEF IInv, TypeOK, FailuresBelowThreshold
  <2> QED
    BY <1>4, <2>3, <2>4 DEF IInv
<1> QED
  BY <1>5, <1>6, <1>7 DEF RecordFailure, b, counted

\* A clock tick preserves the invariant.
LEMMA TickIInv ==
    ASSUME IInv, Tick
    PROVE  IInv'
<1>1. failures' \in [Breakers -> Seq(0..FailureWindow)]
  <2> SUFFICES ASSUME NEW b \in Breakers
               PROVE  failures'[b] \in Seq(0..FailureWindow)
    BY DEF Tick
  <2>1. failures[b] \in Seq(0..FailureWindow) /\ Len(failures[b]) \in Nat
    BY DEF IInv, TypeOK
  <2>2. \A i \in 1..Len(failures[b]) :
          Older(failures[b][i], FailureWindow) \in 0..FailureWindow
    <3> TAKE i \in 1..Len(failures[b])
    <3>1. failures[b][i] \in 0..FailureWindow
      BY <2>1, ElementOfSeq
    <3> QED
      BY <3>1, WindowAssumption DEF Older
  <2> QED
    BY <2>1, <2>2 DEF Tick
<1>2. recent' \in [Breakers -> Seq(Outcome)]
  <2> SUFFICES ASSUME NEW b \in Breakers
               PROVE  recent'[b] \in Seq(Outcome)
    BY DEF Tick
  <2>1. recent[b] \in Seq(Outcome) /\ Len(recent[b]) \in Nat
    BY DEF IInv, TypeOK
  <2>2. ASSUME NEW i \in 1..Len(recent[b])
        PROVE  [recent[b][i] EXCEPT !.age = Older(@, FailureWindow)] \in Outcome
    <3>1. recent[b][i] \in Outcome
      BY <2>1, ElementOfSeq
    <3>2. Older(recent[b][i].age, FailureWindow) \in 0..FailureWindow
      <4>1. recent[b][i].age \in 0..FailureWindow
        BY <3>1 DEF Outcome
      <4> QED
        BY <4>1, WindowAssumption DEF Older
    <3> QED
      BY <3>1, <3>2 DEF Outcome
  <2> QED
    BY <2>1, <2>2 DEF Tick
<1>3. openedAge' \in [Breakers -> 0..ResetInterval]
  BY ResetAssumption, OlderFacts DEF IInv, TypeOK, Tick
<1>4. FailuresBelowThreshold'
  <2> SUFFICES ASSUME NEW b \in Breakers
               PROVE  /\ Len(failures'[b]) < FailureThreshold
                      /\ \A i, j \in 1..Len(failures'[b]) :
                           i < j => failures'[b][i] >= failures'[b][j]
    BY DEF FailuresBelowThreshold
  <2>1. failures[b] \in Seq(0..FailureWindow) /\ Len(failures[b]) \in Nat
    BY DEF IInv, TypeOK
  <2>2. /\ Len(failures[b]) < FailureThreshold
        /\ \A i, j \in 1..Len(failures[b]) :
              i < j => failures[b][i] >= failures[b][j]
    BY DEF IInv, FailuresBelowThreshold
  <2>3. /\ Len(failures'[b]) = Len(failures[b])
        /\ \A i \in 1..Len(failures[b]) :
              failures'[b][i] = Older(failures[b][i], FailureWindow)
    BY <2>1 DEF Tick
  <2>4. \A i \in 1..Len(failures[b]) : failures[b][i] \in 0..FailureWindow
    BY <2>1, ElementOfSeq
  <2> QED
    BY <2>1, <2>2, <2>3, <2>4, OlderFacts, WindowAssumption
<1> QED
  BY <1>1, <1>2, <1>3, <1>4 DEF IInv, TypeOK, HeldInv, Tick

\* Every step preserves the invariant.
LEMMA NextIInv ==
    ASSUME IInv, [Next]_vars
    PROVE  IInv'
<1>1. ASSUME NEW c \in Callers, Get(c)
      PROVE  IInv'
  <2>1. /\ registered' \in Breakers
        /\ created' \in 0..MaxBreakers
        /\ held' = [held EXCEPT ![c] = registered']
    <3>1. registered \in Breakers \cup {NoBreaker} /\ created \in 0..MaxBreakers
      BY DEF IInv, TypeOK
    <3>2. CASE registered # NoBreaker
      BY <1>1, <3>1, <3>2 DEF Get
    <3>3. CASE registered = NoBreaker
      <4>1. /\ created < MaxBreakers
            /\ created' = created + 1
            /\ registered' = created + 1
            /\ held' = [held EXCEPT ![c] = created + 1]
        BY <1>1, <3>3 DEF Get
      <4> QED
        BY <4>1, <3>1, BreakersAssumption DEF Breakers
    <3> QED
      BY <3>2, <3>3
  <2>2. TypeOK'
    BY <1>1, <2>1 DEF IInv, TypeOK, Get, breakerVars
  <2>3. HeldInv'
    BY <1>1, <2>1 DEF IInv, TypeOK, HeldInv, Get
  <2>4. FailuresBelowThreshold'
    BY <1>1 DEF IInv, FailuresBelowThreshold, Get, breakerVars
  <2> QED
    BY <2>2, <2>3, <2>4 DEF IInv
<1>2. ASSUME NEW c \in Callers, DropTool(c)
      PROVE  IInv'
  BY <1>2 DEF IInv, TypeOK, HeldInv, FailuresBelowThreshold, DropTool,
              breakerVars, NoBreaker
<1>3. ASSUME NEW c \in Callers, Rejected(c)
      PROVE  IInv'
  BY <1>3 DEF IInv, TypeOK, HeldInv, FailuresBelowThreshold, Rejected, vars,
              breakerVars
<1>4. ASSUME NEW c \in Callers, Admitted(c)
      PROVE  IInv'
  <2>1. held[c] \in Breakers
    BY <1>4 DEF IInv, HeldInv, TypeOK, Admitted
  <2>2. CurrentState(held[c]) \in {CircuitClosed, CircuitHalfOpen}
    BY <1>4, <2>1, CurrentStateType DEF IInv, Admitted
  <2> QED
    BY <1>4, <2>1, <2>2
       DEF IInv, TypeOK, HeldInv, FailuresBelowThreshold, Admitted
<1>5. ASSUME NEW c \in Callers, RecordSuccess(c)
      PROVE  IInv'
  <2>1. held[c] \in Breakers
    BY <1>5 DEF IInv, HeldInv, TypeOK, RecordSuccess
  <2>2. AfterSuccess(state[held[c]])
          \in {CircuitClosed, CircuitOpen, CircuitHalfOpen}
    BY <2>1, AfterSuccessType DEF IInv, TypeOK
  <2>3. Remember(held[c], TRUE) \in Seq(Outcome)
    BY <2>1, RememberType DEF IInv
  <2>4. failures' \in [Breakers -> Seq(0..FailureWindow)]
    BY <1>5, <2>1 DEF IInv, TypeOK, RecordSuccess
  <2>5. TypeOK'
    BY <1>5, <2>1, <2>2, <2>3, <2>4 DEF IInv, TypeOK, RecordSuccess
  <2>6. FailuresBelowThreshold'
    BY <1>5, <2>1, ThresholdAssumption
       DEF IInv, TypeOK, FailuresBelowThreshold, RecordSuccess
  <2>7. HeldInv'
    BY <1>5 DEF IInv, TypeOK, HeldInv, RecordSuccess
  <2> QED
    BY <2>5, <2>6, <2>7 DEF IInv
<1>6. ASSUME NEW c \in Callers, RecordFailure(c)
      PROVE  IInv'
  BY <1>6, RecordFailureIInv
<1>7. CASE Reset
  BY <1>7 DEF IInv, TypeOK, HeldInv, FailuresBelowThreshold, Reset,
              breakerVars, NoBreaker
<1>8. CASE Observe
  <2>1. registered \in Breakers
    BY <1>8 DEF IInv, TypeOK, Observe
  <2>2. CurrentState(registered)
          \in {CircuitClosed, CircuitOpen, CircuitHalfOpen}
    BY <2>1, CurrentStateType DEF IInv
  <2> QED
    BY <1>8, <2>1, <2>2
       DEF IInv, TypeOK, HeldInv, FailuresBelowThreshold, Observe
<1>9. CASE Tick
  BY <1>9, TickIInv
<1>10. CASE UNCHANGED vars
  BY <1>10 DEF IInv, TypeOK, HeldInv, FailuresBelowThreshold, vars,
               breakerVars
<1> QED
  BY <1>1, <1>2, <1>3, <1>4, <1>5, <1>6, <1>7, <1>8, <1>9, <1>10
     DEF Next, AllowRequest

\* The invariant holds throughout.
THEOREM SpecIInv == Spec => []IInv
<1>1. IInv /\ [Next]_vars => IInv'
  BY NextIInv
<1> QED
  BY InitIInv, <1>1, PTL DEF Spec

\* Type correctness: no interleaving of callers, resets and ticks takes a
\* breaker or a caller out of its type.
THEOREM SpecTypeOK == Spec => []TypeOK
<1>1. IInv => TypeOK
  BY DEF IInv
<1> QED
  BY SpecIInv, <1>1, PTL

\* RecordFailure never hoards failures: a breaker keeps fewer than
\* FailureThreshold, in the order they happened.
THEOREM SpecFailuresBelowThreshold == Spec => []FailuresBelowThreshold
<1>1. IInv => FailuresBelowThreshold
  BY DEF IInv
<1> QED
  BY SpecIInv, <1>1, PTL

\* A late success never closes an open circuit: open leads to closed only
\* through half-open.
THEOREM SpecOpenNeverClosesDirectly == Spec => OpenNeverClosesDirectly
<1> DEFINE A == \A b \in Breakers : state[b] = CircuitOpen
                                      => state'[b] # CircuitClosed
<1>1. IInv /\ [Next]_vars => A
  <2> SUFFICES ASSUME IInv, [Next]_vars, NEW b \in Breakers,
                      state[b] = CircuitOpen
               PROVE  state'[b] # CircuitClosed
    OBVIOUS
  <2>1. state[b] # CircuitClosed /\ CircuitHalfOpen # CircuitClosed
    BY DEF CircuitOpen, CircuitClosed, CircuitHalfOpen
  <2>2. CurrentState(b) # CircuitClosed
    BY CurrentStateType DEF IInv
  <2>3. AfterSuccess(state[b]) # CircuitClosed
    BY <2>1 DEF AfterSuccess, CircuitOpen, CircuitHalfOpen
  <2>4. state \in [Breakers -> {CircuitClosed, CircuitOpen, CircuitHalfOpen}]
    BY DEF IInv, TypeOK
  <2>5. CASE UNCHANGED state
    BY <2>1, <2>5
  <2>6. ASSUME NEW c \in Callers, Admitted(c)
        PROVE  state'[b] # CircuitClosed
    BY <2>1, <2>2, <2>4, <2>6 DEF Admitted
  <2>7. ASSUME NEW c \in Callers, RecordSuccess(c)
        PROVE  state'[b] # CircuitClosed
    BY <2>1, <2>3, <2>4, <2>7 DEF RecordSuccess
  <2>8. ASSUME NEW c \in Callers, RecordFailure(c)
        PROVE  state'[b] # CircuitClosed
    BY <2>1, <2>4, <2>8 DEF RecordFailure, TripOpen, CircuitOpen, CircuitClosed
  <2>9. CASE Observe
    BY <2>1, <2>2, <2>4, <2>9 DEF Observe
  <2> QED
    BY <2>5, <2>6, <2>7, <2>8, <2>9
       DEF Next, AllowRequest, Get, DropTool, Rejected, Reset, Tick, vars,
           breakerVars
<1> QED
  BY SpecIInv, <1>1, PTL DEF Spec, OpenNeverClosesDirectly

-----------------------------------------------------------------------------
(* The failures a closed breaker counts are the end of its history: the      *)
(* circuit opens exactly on a run of FailureThreshold failures.              *)

FromEnd(s, k) == s[Len(s) - k]

\* What ends a run of failures: a success, or a failure out of the window.
Ends(o) == o.ok \/ o.age >= FailureWindow

\* The failures fs are the last outcomes of the history rs, up to the one that
\* ends the run.
Tracks(fs, rs) ==
    /\ Len(fs) <= Len(rs)
    /\ \A k \in 0..(Len(fs) - 1) :
          ~FromEnd(rs, k).ok /\ FromEnd(rs, k).age = FromEnd(fs, k)
    /\ Len(fs) < Len(rs) => Ends(FromEnd(rs, Len(fs)))

\* A closed breaker counts the run of failures its history ends with.
HistoryInv ==
    \A b \in Breakers :
        /\ Len(recent[b]) <= FailureThreshold
        /\ state[b] = CircuitClosed => Tracks(failures[b], recent[b])

\* The expired failures are the first ones: they are in the order of time.
LEMMA ExpiredPrefix ==
    ASSUME IInv, NEW b \in Breakers
    PROVE  \A i \in 1..Len(failures[b]) :
              failures[b][i] >= FailureWindow <=> i <= Expired(b, FailureWindow)
<1> DEFINE n == Len(failures[b])
           E == {i \in 1..n : failures[b][i] >= FailureWindow}
           e == Cardinality(E)
<1>1. /\ n \in Nat
      /\ \A i \in 1..n : failures[b][i] \in 0..FailureWindow
      /\ \A i, j \in 1..n : i < j => failures[b][i] >= failures[b][j]
  <2>1. failures[b] \in Seq(0..FailureWindow)
    BY DEF IInv, TypeOK
  <2>2. n \in Nat /\ \A i \in 1..n : failures[b][i] \in 0..FailureWindow
    <3>1. n \in Nat
      BY <2>1
    <3> QED
      BY <2>1, <3>1, ElementOfSeq
  <2> QED
    BY <2>2 DEF IInv, FailuresBelowThreshold
<1>2. IsFiniteSet(1..n) /\ E \subseteq 1..n
  BY <1>1, FS_Interval
<1>3. IsFiniteSet(E) /\ e \in Nat
  BY <1>2, FS_Subset, FS_CardinalityType
<1>4. ASSUME NEW i \in E
      PROVE  1..i \subseteq E
  BY <1>1, WindowAssumption
<1>5. ASSUME NEW i \in E
      PROVE  i <= e
  <2>1. i \in Nat /\ IsFiniteSet(1..i) /\ Cardinality(1..i) = i
    BY <1>1, FS_Interval
  <2>2. Cardinality(1..i) <= e
    BY <1>3, <1>4, <1>5, FS_Subset
  <2> QED
    BY <2>1, <2>2
<1>6. ASSUME NEW i \in 1..n, i \notin E
      PROVE  i > e
  <2>1. E \subseteq 1..(i - 1)
    <3> SUFFICES ASSUME NEW j \in E
                 PROVE  j < i
      BY <1>1
    <3> QED
      BY <1>1, <1>4, <1>6, WindowAssumption
  <2>2. i - 1 \in Nat /\ IsFiniteSet(1..(i - 1)) /\ Cardinality(1..(i - 1)) = i - 1
    <3>1. i - 1 \in Nat /\ (i - 1) - 1 + 1 = i - 1
      BY <1>1
    <3>2. \A j \in Nat : IsFiniteSet(1..j) /\ Cardinality(1..j) = j
      BY FS_Interval
    <3> QED
      BY <3>1, <3>2
  <2>3. e <= i - 1
    BY <2>1, <2>2, FS_Subset
  <2> QED
    BY <1>1, <1>3, <2>3
<1> QED
  BY <1>1, <1>3, <1>5, <1>6 DEF Expired

\* The history after one more outcome, counted from its end.
LEMMA RememberFacts ==
    ASSUME IInv, HistoryInv, NEW b \in Breakers, NEW ok \in BOOLEAN
    PROVE  LET rs == recent[b]
               rr == Remember(b, ok)
           IN  /\ Len(rr) = IF Len(rs) = FailureThreshold
                            THEN FailureThreshold ELSE Len(rs) + 1
               /\ FromEnd(rr, 0) = [ok |-> ok, age |-> 0]
               /\ \A k \in 1..(Len(rr) - 1) : FromEnd(rr, k) = FromEnd(rs, k - 1)
<1> DEFINE rs == recent[b]
           o == [ok |-> ok, age |-> 0]
           all == Append(rs, o)
           n == Len(rs)
<1>1. o \in Outcome
  BY WindowAssumption DEF Outcome
<1>2. rs \in Seq(Outcome) /\ n \in Nat /\ n <= FailureThreshold
  BY DEF IInv, TypeOK, HistoryInv
<1> HIDE DEF o, rs
<1>3. /\ all \in Seq(Outcome) /\ all # <<>>
      /\ Len(all) = n + 1
      /\ \A i \in 1..n : all[i] = rs[i]
      /\ all[n + 1] = o
  BY <1>1, <1>2, AppendProperties
<1> HIDE DEF all
<1>4. CASE n = FailureThreshold
  <2>1. Remember(b, ok) = Tail(all)
    BY <1>3, <1>4, ThresholdAssumption DEF Remember, all, o, rs
  <2>2. /\ Len(Tail(all)) = n
        /\ \A i \in 1..n : Tail(all)[i] = all[i + 1]
    BY <1>2, <1>3, HeadTailProperties
  <2>3. FromEnd(Tail(all), 0) = o
    BY <1>2, <1>3, <1>4, <2>2, ThresholdAssumption DEF FromEnd
  <2>4. \A k \in 1..(n - 1) : FromEnd(Tail(all), k) = FromEnd(rs, k - 1)
    <3> TAKE k \in 1..(n - 1)
    <3>1. /\ n - k \in 1..n /\ n - k + 1 \in 1..n /\ n - (k - 1) = n - k + 1
      BY <1>2
    <3> QED
      BY <3>1, <2>2, <1>3 DEF FromEnd
  <2> QED
    BY <2>1, <2>2, <2>3, <2>4, <1>4 DEF o, rs
<1>5. CASE n < FailureThreshold
  <2>1. Remember(b, ok) = all
    BY <1>2, <1>3, <1>5, ThresholdAssumption DEF Remember, all, o, rs
  <2>2. FromEnd(all, 0) = o
    BY <1>2, <1>3 DEF FromEnd
  <2>3. \A k \in 1..n : FromEnd(all, k) = FromEnd(rs, k - 1)
    <3> TAKE k \in 1..n
    <3>1. n + 1 - k \in 1..n /\ n - (k - 1) = n + 1 - k
      BY <1>2
    <3> QED
      BY <3>1, <1>3 DEF FromEnd
  <2> QED
    BY <2>1, <2>2, <2>3, <1>2, <1>3, <1>5, ThresholdAssumption DEF o, rs
<1> QED
  BY <1>2, <1>4, <1>5, ThresholdAssumption

\* The history stays within its bound and ends with the new outcome.
LEMMA RememberLast ==
    ASSUME IInv, HistoryInv, NEW b \in Breakers, NEW ok \in BOOLEAN
    PROVE  /\ Len(Remember(b, ok)) \in 1..FailureThreshold
           /\ FromEnd(Remember(b, ok), 0) = [ok |-> ok, age |-> 0]
<1>1. Len(recent[b]) \in Nat /\ Len(recent[b]) <= FailureThreshold
  BY DEF IInv, TypeOK, HistoryInv
<1>2. /\ Len(Remember(b, ok)) = IF Len(recent[b]) = FailureThreshold
                                THEN FailureThreshold ELSE Len(recent[b]) + 1
      /\ FromEnd(Remember(b, ok), 0) = [ok |-> ok, age |-> 0]
  BY RememberFacts
<1> QED
  BY <1>1, <1>2, ThresholdAssumption

\* A failure is appended to both; what RecordFailure prunes are failures that
\* end the run.
LEMMA TracksFailure ==
    ASSUME IInv, HistoryInv, NEW b \in Breakers, Tracks(failures[b], recent[b])
    PROVE  LET counted == Append(Pruned(b), 0)
               rr == Remember(b, FALSE)
           IN  /\ Tracks(counted, rr)
               /\ \A k \in 0..(Len(counted) - 1) : ~Ends(FromEnd(rr, k))
<1> DEFINE fs == failures[b]
           rs == recent[b]
           p == Pruned(b)
           counted == Append(p, 0)
           rr == Remember(b, FALSE)
           n == Len(fs)
           m == Len(rs)
<1>1. PICK x \in 0..n :
              /\ x = Expired(b, FailureWindow)
              /\ p \in Seq(0..FailureWindow)
              /\ Len(p) = n - x
              /\ \A i \in 1..Len(p) : p[i] = fs[i + x]
  BY PrunedSuffix DEF IInv
<1>2. /\ fs \in Seq(0..FailureWindow) /\ n \in Nat /\ n < FailureThreshold
      /\ m \in Nat /\ m <= FailureThreshold
  BY DEF IInv, TypeOK, FailuresBelowThreshold, HistoryInv
<1>3. \A i \in 1..n : fs[i] >= FailureWindow <=> i <= x
  BY <1>1, ExpiredPrefix
<1>4. /\ Len(rr) = IF m = FailureThreshold THEN FailureThreshold ELSE m + 1
      /\ FromEnd(rr, 0) = [ok |-> FALSE, age |-> 0]
      /\ \A k \in 1..(Len(rr) - 1) : FromEnd(rr, k) = FromEnd(rs, k - 1)
  BY RememberFacts
<1>5. /\ n <= m
      /\ \A k \in 0..(n - 1) :
            ~FromEnd(rs, k).ok /\ FromEnd(rs, k).age = FromEnd(fs, k)
      /\ n < m => Ends(FromEnd(rs, n))
  BY DEF Tracks
<1>6. \A i \in 1..n : fs[i] \in 0..FailureWindow
  BY <1>2, ElementOfSeq
<1> HIDE DEF fs, rs, p, rr
<1>7. /\ Len(counted) = n - x + 1
      /\ FromEnd(counted, 0) = 0
      /\ \A k \in 1..(n - x) : FromEnd(counted, k) = FromEnd(fs, k - 1)
  <2>1. /\ Len(counted) = Len(p) + 1
        /\ \A i \in 1..Len(p) : counted[i] = p[i]
        /\ counted[Len(p) + 1] = 0
    BY <1>1, WindowAssumption
  <2> HIDE DEF counted
  <2>2. FromEnd(counted, 0) = 0
    BY <1>1, <1>2, <2>1 DEF FromEnd
  <2>3. ASSUME NEW k \in 1..(n - x)
        PROVE  FromEnd(counted, k) = FromEnd(fs, k - 1)
    <3>1. /\ Len(counted) - k \in 1..Len(p)
          /\ (Len(counted) - k) + x = n - (k - 1)
      BY <1>1, <1>2, <2>1
    <3>2. counted[Len(counted) - k] = p[Len(counted) - k]
      BY <3>1, <2>1
    <3>3. p[Len(counted) - k] = fs[(Len(counted) - k) + x]
      BY <3>1, <1>1
    <3> QED
      BY <3>1, <3>2, <3>3 DEF FromEnd
  <2> QED
    BY <1>1, <2>1, <2>2, <2>3
<1> HIDE DEF counted
<1>8. Len(counted) <= Len(rr)
  BY <1>1, <1>2, <1>4, <1>5, <1>7
<1>9. ASSUME NEW k \in 0..(Len(counted) - 1)
      PROVE  /\ ~FromEnd(rr, k).ok
             /\ FromEnd(rr, k).age = FromEnd(counted, k)
             /\ FromEnd(rr, k).age < FailureWindow
  <2>1. CASE k = 0
    BY <2>1, <1>4, <1>7, WindowAssumption
  <2>2. CASE k \in 1..(n - x)
    <3>1. k \in Int /\ x \in Int /\ 1 <= k /\ k <= n - x /\ 0 <= x /\ x <= n
      BY <2>2, <1>1, <1>2
    <3>2. Len(rr) \in Int /\ n - x + 1 <= Len(rr)
      BY <1>2, <1>4, <1>7, <1>8, ThresholdAssumption
    <3>3. /\ k - 1 \in 0..(n - 1) /\ k \in 1..(Len(rr) - 1)
          /\ n - (k - 1) \in 1..n /\ ~(n - (k - 1) <= x)
      BY <3>1, <3>2, <1>2
    <3>4. FromEnd(rr, k) = FromEnd(rs, k - 1)
      BY <3>3, <1>4
    <3>5. FromEnd(fs, k - 1) \in 0..FailureWindow /\ ~(FromEnd(fs, k - 1) >= FailureWindow)
      BY <3>3, <1>3, <1>6 DEF FromEnd
    <3>6. FromEnd(fs, k - 1) < FailureWindow
      BY <3>5, WindowAssumption
    <3> QED
      BY <3>3, <3>4, <3>6, <2>2, <1>5, <1>7
  <2> QED
    BY <2>1, <2>2, <1>1, <1>2, <1>7
<1>10. ASSUME Len(counted) < Len(rr)
       PROVE  Ends(FromEnd(rr, Len(counted)))
  <2>1. /\ Len(counted) \in 1..(Len(rr) - 1)
        /\ FromEnd(rr, Len(counted)) = FromEnd(rs, n - x)
    <3>1. Len(counted) \in 1..(Len(rr) - 1) /\ Len(counted) - 1 = n - x
      BY <1>1, <1>2, <1>4, <1>7, <1>10, ThresholdAssumption
    <3> QED
      BY <3>1, <1>4
  <2>2. CASE x = 0
    <3>1. n < m
      BY <2>1, <2>2, <1>2, <1>4, <1>5, <1>7
    <3> QED
      BY <3>1, <2>1, <2>2, <1>2, <1>5
  <2>3. CASE x > 0
    <3>1. n - x \in 0..(n - 1) /\ n - (n - x) = x /\ x \in 1..n
      BY <2>3, <1>1, <1>2
    <3>2. FromEnd(rs, n - x).age = fs[x]
      BY <3>1, <1>5 DEF FromEnd
    <3> QED
      BY <2>1, <3>1, <3>2, <1>3 DEF Ends
  <2> QED
    BY <2>2, <2>3, <1>1
<1>11. ASSUME NEW k \in 0..(Len(counted) - 1)
       PROVE  ~Ends(FromEnd(rr, k))
  <2>1. FromEnd(rr, k).age = FromEnd(counted, k) /\ FromEnd(rr, k).age < FailureWindow
    BY <1>9
  <2>2. counted \in Seq(0..FailureWindow) /\ Len(counted) - k \in 1..Len(counted)
    <3>1. counted \in Seq(0..FailureWindow)
      BY CountedFacts DEF counted, p
    <3> QED
      BY <3>1
  <2>3. FromEnd(counted, k) \in 0..FailureWindow
    BY <2>2, ElementOfSeq DEF FromEnd
  <2> QED
    BY <1>9, <2>1, <2>3, WindowAssumption DEF Ends
<1> QED
  BY <1>8, <1>9, <1>10, <1>11 DEF Tracks, counted, rr, p

\* A tick makes the failures and their outcomes older by the same amount.
LEMMA TracksTick ==
    ASSUME IInv, Tick, NEW b \in Breakers, Tracks(failures[b], recent[b])
    PROVE  Tracks(failures'[b], recent'[b])
<1> DEFINE fs == failures[b]
           rs == recent[b]
           ff == failures'[b]
           rr == recent'[b]
           n == Len(fs)
           m == Len(rs)
<1>1. fs \in Seq(0..FailureWindow) /\ n \in Nat /\ rs \in Seq(Outcome) /\ m \in Nat
  BY DEF IInv, TypeOK
<1>2. /\ Len(ff) = n /\ \A i \in 1..n : ff[i] = Older(fs[i], FailureWindow)
      /\ Len(rr) = m
      /\ \A i \in 1..m : rr[i] = [rs[i] EXCEPT !.age = Older(@, FailureWindow)]
  BY <1>1 DEF Tick
<1>3. /\ n <= m
      /\ \A k \in 0..(n - 1) :
            ~FromEnd(rs, k).ok /\ FromEnd(rs, k).age = FromEnd(fs, k)
      /\ n < m => Ends(FromEnd(rs, n))
  BY DEF Tracks
<1>4. \A i \in 1..m : rs[i] \in Outcome
  BY <1>1, ElementOfSeq
<1> HIDE DEF fs, rs, ff, rr
<1>5. ASSUME NEW k \in 0..(m - 1)
      PROVE  /\ FromEnd(rr, k).ok = FromEnd(rs, k).ok
             /\ FromEnd(rr, k).age = Older(FromEnd(rs, k).age, FailureWindow)
  <2>1. m - k \in 1..m
    BY <1>1
  <2>2. FromEnd(rr, k) = [FromEnd(rs, k) EXCEPT !.age = Older(@, FailureWindow)]
    BY <2>1, <1>2 DEF FromEnd
  <2>3. FromEnd(rs, k) \in Outcome
    BY <2>1, <1>4 DEF FromEnd
  <2> QED
    BY <2>2, <2>3 DEF Outcome
<1>6. ASSUME NEW k \in 0..(n - 1)
      PROVE  ~FromEnd(rr, k).ok /\ FromEnd(rr, k).age = FromEnd(ff, k)
  <2>1. k \in 0..(m - 1) /\ n - k \in 1..n
    BY <1>1, <1>3
  <2>2. FromEnd(ff, k) = Older(FromEnd(fs, k), FailureWindow)
    BY <2>1, <1>2 DEF FromEnd
  <2> QED
    BY <2>1, <2>2, <1>3, <1>5
<1>7. ASSUME n < m
      PROVE  Ends(FromEnd(rr, n))
  <2>1. n \in 0..(m - 1) /\ m - n \in 1..m
    BY <1>1, <1>7
  <2>2. FromEnd(rs, n).age \in 0..FailureWindow
    <3>1. FromEnd(rs, n) \in Outcome
      BY <2>1, <1>4 DEF FromEnd
    <3> QED
      BY <3>1 DEF Outcome
  <2>3. /\ FromEnd(rr, n).ok = FromEnd(rs, n).ok
        /\ FromEnd(rr, n).age = Older(FromEnd(rs, n).age, FailureWindow)
    BY <2>1, <1>5
  <2>4. FromEnd(rs, n).age >= FailureWindow =>
          Older(FromEnd(rs, n).age, FailureWindow) >= FailureWindow
    BY <2>2, WindowAssumption DEF Older
  <2> QED
    BY <2>3, <2>4, <1>3, <1>7 DEF Ends
<1> QED
  BY <1>2, <1>3, <1>6, <1>7 DEF Tracks, ff, rr

\* A step that adds no outcome and closes no breaker keeps HistoryInv.
LEMMA HistoryFrame ==
    ASSUME HistoryInv, UNCHANGED <<failures, recent>>,
           \A b \in Breakers :
               state'[b] = CircuitClosed => state[b] = CircuitClosed
    PROVE  HistoryInv'
BY DEF HistoryInv, Tracks, FromEnd, Ends

\* A success ends the run, and RecordSuccess forgets the failures.
LEMMA RecordSuccessHistory ==
    ASSUME IInv, HistoryInv, NEW c \in Callers, RecordSuccess(c)
    PROVE  HistoryInv'
<1> DEFINE b == held[c]
           rr == Remember(b, TRUE)
<1>1. b \in Breakers
  BY DEF IInv, HeldInv, TypeOK, RecordSuccess
<1>2. /\ recent' = [recent EXCEPT ![b] = rr]
      /\ failures' = [failures EXCEPT ![b] = <<>>]
      /\ state' = [state EXCEPT ![b] = AfterSuccess(@)]
  BY DEF RecordSuccess
<1>3. /\ Len(rr) \in 1..FailureThreshold
      /\ FromEnd(rr, 0) = [ok |-> TRUE, age |-> 0]
  BY <1>1, RememberLast
<1> HIDE DEF rr, b
<1>4. Tracks(<<>>, rr)
  BY <1>3 DEF Tracks, Ends
<1>5. ASSUME NEW d \in Breakers
      PROVE  /\ Len(recent'[d]) <= FailureThreshold
             /\ state'[d] = CircuitClosed => Tracks(failures'[d], recent'[d])
  <2>1. CASE d = b
    BY <1>1, <1>2, <1>3, <1>4, <2>1, ThresholdAssumption DEF IInv, TypeOK
  <2>2. CASE d # b
    <3>1. recent'[d] = recent[d] /\ failures'[d] = failures[d] /\ state'[d] = state[d]
      BY <1>1, <1>2, <2>2 DEF IInv, TypeOK
    <3> QED
      BY <3>1 DEF HistoryInv
  <2> QED
    BY <2>1, <2>2
<1>6. \A d \in Breakers :
        /\ Len(recent'[d]) <= FailureThreshold
        /\ state'[d] = CircuitClosed => Tracks(failures'[d], recent'[d])
  BY <1>5
<1> QED
  BY <1>6 DEF HistoryInv, Tracks, FromEnd, Ends

\* A failure that does not open the circuit makes the counted run longer.
LEMMA RecordFailureHistory ==
    ASSUME IInv, HistoryInv, NEW c \in Callers, RecordFailure(c)
    PROVE  HistoryInv'
<1> DEFINE b == held[c]
           counted == Append(Pruned(b), 0)
           rr == Remember(b, FALSE)
<1>1. b \in Breakers
  BY DEF IInv, HeldInv, TypeOK, RecordFailure
<1>2. /\ recent' = [recent EXCEPT ![b] = rr]
      /\ \A d \in Breakers : d # b => failures'[d] = failures[d] /\ state'[d] = state[d]
      /\ \/ state'[b] = CircuitOpen
         \/ state'[b] = state[b] /\ failures'[b] = counted
  <2>1. recent' = [recent EXCEPT ![b] = rr]
    BY DEF RecordFailure
  <2>2. CASE /\ state' = [state EXCEPT ![b] = CircuitOpen]
             /\ \E f : failures' = [failures EXCEPT ![b] = f]
    BY <1>1, <2>1, <2>2 DEF IInv, TypeOK
  <2>3. CASE state' = state /\ failures' = [failures EXCEPT ![b] = counted]
    BY <1>1, <2>1, <2>3 DEF IInv, TypeOK
  <2>4. UNCHANGED failures => failures' = [failures EXCEPT ![b] = failures[b]]
    BY <1>1 DEF IInv, TypeOK
  <2> QED
    BY <2>2, <2>3, <2>4 DEF RecordFailure, TripOpen
<1>3. Len(rr) \in 1..FailureThreshold
  BY <1>1, RememberLast
<1>4. state[b] = CircuitClosed => Tracks(counted, rr)
  BY <1>1, TracksFailure DEF HistoryInv
<1> HIDE DEF counted, rr, b
<1>5. ASSUME NEW d \in Breakers
      PROVE  /\ Len(recent'[d]) <= FailureThreshold
             /\ state'[d] = CircuitClosed => Tracks(failures'[d], recent'[d])
  <2>1. CASE d = b
    <3>1. recent'[b] = rr
      BY <1>1, <1>2 DEF IInv, TypeOK
    <3>2. CASE state'[b] = CircuitOpen
      BY <3>1, <3>2, <2>1, <1>3, ThresholdAssumption DEF CircuitOpen, CircuitClosed
    <3>3. CASE state'[b] = state[b] /\ failures'[b] = counted
      BY <3>1, <3>3, <2>1, <1>3, <1>4, ThresholdAssumption
    <3> QED
      BY <3>2, <3>3, <1>2
  <2>2. CASE d # b
    <3>1. recent'[d] = recent[d] /\ failures'[d] = failures[d] /\ state'[d] = state[d]
      BY <1>1, <1>2, <2>2 DEF IInv, TypeOK
    <3> QED
      BY <3>1 DEF HistoryInv
  <2> QED
    BY <2>1, <2>2
<1>6. \A d \in Breakers :
        /\ Len(recent'[d]) <= FailureThreshold
        /\ state'[d] = CircuitClosed => Tracks(failures'[d], recent'[d])
  BY <1>5
<1> QED
  BY <1>6 DEF HistoryInv, Tracks, FromEnd, Ends

\* Time changes neither the lengths nor who is closed.
LEMMA TickHistory ==
    ASSUME IInv, HistoryInv, Tick
    PROVE  HistoryInv'
<1>1. ASSUME NEW b \in Breakers
      PROVE  /\ Len(recent'[b]) <= FailureThreshold
             /\ state'[b] = CircuitClosed => Tracks(failures'[b], recent'[b])
  <2>1. recent[b] \in Seq(Outcome) /\ Len(recent[b]) \in Nat
    BY DEF IInv, TypeOK
  <2>2. Len(recent'[b]) = Len(recent[b]) /\ state'[b] = state[b]
    BY <2>1 DEF Tick
  <2> QED
    BY <2>2, TracksTick DEF HistoryInv
<1>2. \A b \in Breakers :
        /\ Len(recent'[b]) <= FailureThreshold
        /\ state'[b] = CircuitClosed => Tracks(failures'[b], recent'[b])
  BY <1>1
<1> QED
  BY <1>2 DEF HistoryInv, Tracks, FromEnd, Ends

\* Every step preserves HistoryInv.
LEMMA NextHistory ==
    ASSUME IInv, HistoryInv, [Next]_vars
    PROVE  HistoryInv'
<1>1. state \in [Breakers -> {CircuitClosed, CircuitOpen, CircuitHalfOpen}]
  BY DEF IInv, TypeOK
<1>2. ASSUME NEW c \in Callers, Admitted(c)
      PROVE  HistoryInv'
  <2>1. \A b \in Breakers :
           state'[b] = CircuitClosed => state[b] = CircuitClosed
    <3> SUFFICES ASSUME NEW b \in Breakers, state'[b] = CircuitClosed
                 PROVE  state[b] = CircuitClosed
      OBVIOUS
    <3> QED
      BY <1>1, <1>2 DEF Admitted, CurrentState, CircuitClosed, CircuitHalfOpen
  <2> QED
    BY <1>2, <2>1, HistoryFrame DEF Admitted
<1>3. CASE Observe
  <2>1. \A b \in Breakers :
           state'[b] = CircuitClosed => state[b] = CircuitClosed
    <3> SUFFICES ASSUME NEW b \in Breakers, state'[b] = CircuitClosed
                 PROVE  state[b] = CircuitClosed
      OBVIOUS
    <3> QED
      BY <1>1, <1>3 DEF Observe, CurrentState, CircuitClosed, CircuitHalfOpen
  <2> QED
    BY <1>3, <2>1, HistoryFrame DEF Observe
<1>4. ASSUME UNCHANGED breakerVars, UNCHANGED recent
      PROVE  HistoryInv'
  BY <1>4, HistoryFrame DEF breakerVars
<1> QED
  BY <1>2, <1>3, <1>4, RecordSuccessHistory, RecordFailureHistory, TickHistory
     DEF Next, AllowRequest, Get, DropTool, Rejected, Reset, vars

\* Nothing has happened yet.
LEMMA InitHistory == Init => HistoryInv
BY ThresholdAssumption DEF Init, HistoryInv, Tracks

\* The counted failures are the end of the history throughout.
THEOREM SpecHistoryInv == Spec => [](IInv /\ HistoryInv)
<1>1. IInv /\ HistoryInv /\ [Next]_vars => IInv' /\ HistoryInv'
  BY NextIInv, NextHistory
<1> QED
  BY InitIInv, InitHistory, <1>1, PTL DEF Spec

\* AC-RESIL-09, first half: a closed breaker has not just seen FailureThreshold
\* failures in a row inside the window.
THEOREM SpecClosedHasNoStreak == Spec => []ClosedHasNoStreak
<1>1. IInv /\ HistoryInv => ClosedHasNoStreak
  <2> SUFFICES ASSUME IInv, HistoryInv, NEW b \in Breakers,
                      state[b] = CircuitClosed, Streak(b)
               PROVE  FALSE
    BY DEF ClosedHasNoStreak
  <2> DEFINE n == Len(failures[b])
  <2>1. n \in Nat /\ n < FailureThreshold
    BY DEF IInv, TypeOK, FailuresBelowThreshold
  <2>2. /\ Len(recent[b]) = FailureThreshold
        /\ \A i \in 1..FailureThreshold :
              ~recent[b][i].ok /\ recent[b][i].age < FailureWindow
    BY DEF Streak
  <2>3. Ends(recent[b][FailureThreshold - n])
    BY <2>1, <2>2 DEF HistoryInv, Tracks, FromEnd
  <2>4. FailureThreshold - n \in 1..FailureThreshold
    BY <2>1, ThresholdAssumption
  <2>5. recent[b][FailureThreshold - n].age \in 0..FailureWindow
    <3>1. recent[b] \in Seq(Outcome)
      BY DEF IInv, TypeOK
    <3>2. recent[b][FailureThreshold - n] \in Outcome
      BY <3>1, <2>2, <2>4, ElementOfSeq
    <3> QED
      BY <3>2 DEF Outcome
  <2> QED
    BY <2>2, <2>3, <2>4, <2>5, WindowAssumption DEF Ends
<1> QED
  BY SpecHistoryInv, <1>1, PTL

\* AC-RESIL-09, second half: the circuit leaves the closed state only for the
\* open state and only because of such a run.
THEOREM SpecOpensOnlyOnStreak == Spec => OpensOnlyOnStreak
<1> DEFINE A == \A b \in Breakers :
                   state[b] = CircuitClosed /\ state'[b] # CircuitClosed
                     => state'[b] = CircuitOpen /\ Streak(b)'
<1>1. IInv /\ HistoryInv /\ [Next]_vars => A
  <2> SUFFICES ASSUME IInv, HistoryInv, [Next]_vars, NEW b \in Breakers,
                      state[b] = CircuitClosed, state'[b] # CircuitClosed
               PROVE  state'[b] = CircuitOpen /\ Streak(b)'
    OBVIOUS
  <2>1. state \in [Breakers -> {CircuitClosed, CircuitOpen, CircuitHalfOpen}]
    BY DEF IInv, TypeOK
  <2>2. CurrentState(b) = CircuitClosed /\ AfterSuccess(state[b]) = CircuitClosed
    BY DEF CurrentState, AfterSuccess, CircuitClosed, CircuitOpen, CircuitHalfOpen
  <2>3. PICK c \in Callers : RecordFailure(c)
    <3>1. ~UNCHANGED state
      OBVIOUS
    <3>2. ~Observe
      BY <2>1, <2>2 DEF Observe
    <3>3. ASSUME NEW c \in Callers
          PROVE  ~Admitted(c) /\ ~RecordSuccess(c)
      BY <2>1, <2>2 DEF Admitted, RecordSuccess
    <3> QED
      BY <3>1, <3>2, <3>3
         DEF Next, AllowRequest, Get, DropTool, Rejected, Reset, Tick, vars,
             breakerVars
  <2> DEFINE counted == Append(Pruned(b), 0)
             rr == Remember(b, FALSE)
  <2>4. held[c] = b
    BY <2>1, <2>3 DEF RecordFailure, TripOpen
  <2>5. /\ state'[b] = CircuitOpen
        /\ ReachesThreshold(counted)
        /\ recent'[b] = rr
    BY <2>1, <2>3, <2>4
       DEF RecordFailure, TripOpen, ProbeFailed, CircuitClosed, CircuitHalfOpen,
           IInv, TypeOK
  <2>6. /\ Tracks(counted, rr)
        /\ \A k \in 0..(Len(counted) - 1) : ~Ends(FromEnd(rr, k))
    BY TracksFailure DEF HistoryInv
  <2>7. Len(counted) = FailureThreshold
    <3>1. Len(counted) \in 1..FailureThreshold
      BY CountedFacts
    <3> QED
      BY <3>1, <2>5, ThresholdAssumption DEF ReachesThreshold
  <2>8. rr \in Seq(Outcome) /\ Len(rr) = FailureThreshold
    <3>1. rr \in Seq(Outcome)
      BY RememberType DEF IInv
    <3>2. Len(rr) \in 1..FailureThreshold
      BY RememberLast
    <3> HIDE DEF rr, counted
    <3> QED
      BY <3>1, <3>2, <2>6, <2>7, ThresholdAssumption DEF Tracks
  <2> HIDE DEF rr, counted
  <2>9. ASSUME NEW i \in 1..FailureThreshold
        PROVE  ~rr[i].ok /\ rr[i].age < FailureWindow
    <3>1. /\ FailureThreshold - i \in 0..(FailureThreshold - 1)
          /\ FailureThreshold - (FailureThreshold - i) = i
      BY ThresholdAssumption
    <3>2. ~Ends(rr[i])
      BY <3>1, <2>6, <2>7, <2>8 DEF FromEnd
    <3>3. rr[i] \in Outcome
      BY <2>8, ElementOfSeq
    <3>4. rr[i].age \in 0..FailureWindow
      BY <3>3 DEF Outcome
    <3> QED
      BY <3>2, <3>4, WindowAssumption DEF Ends
  <2> QED
    BY <2>5, <2>8, <2>9 DEF Streak
<1> QED
  BY SpecHistoryInv, <1>1, PTL DEF Spec, OpensOnlyOnStreak
=============================================================================
