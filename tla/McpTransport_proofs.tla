------------------------ MODULE McpTransport_proofs ------------------------
(***************************************************************************)
(* Proofs about McpTransport for any number of tool calls, reconnection    *)
(* attempts and connections: the types, that at most one connection lives, *)
(* that a request is run a second time only if the server refused it after *)
(* the first, and that Close settles what is pending.                      *)
(***************************************************************************)
EXTENDS McpTransport, TLAPS

\* A connection has a reader once it is open, and only then is there a
\* current endpointReady channel.
ReaderInv ==
    \A k \in Conns :
        /\ stream[k] \in {"none", "dialing"} => reader[k] = "none"
        /\ reader[k] # "none" => ready \in Conns

\* Until Start has its stream nothing else runs.
StartInv ==
    /\ client \in {"new", "dial"} =>
         /\ rec = NoReconnect
         /\ \A k \in Conns : reader[k] = "none"
         /\ \A r \in Requests : call[r] = "idle"
    /\ client = "new" => Live = {}
    /\ client = "dial" => cancelFn = 1 /\ stream[1] = "dialing"

\* Whoever reconnects waits for it, and works on the connection of t.cancel.
OwnerInv ==
    /\ rec.owner \in Requests => call[rec.owner] = "reconnect"
    /\ rec.owner \in Conns => reader[rec.owner] = "reconnect"
    /\ rec.pc = "none" => rec = NoReconnect
    /\ rec.pc \in {"dialing", "await"} => rec.conn \in Conns /\ rec.conn = cancelFn
    /\ rec.pc = "dialing" => stream[rec.conn] = "dialing"

\* Only the connection of t.cancel may live, and none when a new one is made.
LiveInv ==
    /\ Live \subseteq {cancelFn}
    /\ rec.pc = "dial" => Live = {}

\* The server has not run r, or once and then answered with a session error.
Refused(r) == executed[r] = 0 \/ (executed[r] = 1 /\ r \in misled)

\* How often the server has run a request, by where the request is.
RunInv ==
    \A r \in Requests :
        /\ executed[r] > 1 => r \in misled
        /\ call[r] = "idle" => try[r] = 1
        /\ call[r] \in {"idle", "register", "url", "post"} /\ try[r] = 1 =>
             executed[r] = 0
        /\ call[r] \in {"register", "url", "post", "reconnect"} => Refused(r)
        /\ call[r] = "cleanup" /\ out[r] = "session" /\ try[r] = 1 => Refused(r)
        /\ call[r] \in {"wait", "ok"} => executed[r] >= 1
        /\ call[r] = "cleanup" /\ out[r] = "ok" => executed[r] >= 1

\* A request between its registration and its deferred delete is pending, or
\* its channel has been settled.
ChanInv ==
    /\ closed => pending = {}
    /\ \A r \in pending : chan[r] # "closed"
    /\ \A r \in Requests :
         call[r] \in {"url", "post", "wait"} =>
             r \in pending \/ chan[r] \in {"closed", "full"}

\* A response to r may exist: r was posted, and not refused for its session.
Answerable(r) ==
    \/ call[r] \in {"wait", "ok", "nil", "failed"}
    \/ call[r] = "cleanup" /\ out[r] # "session"

\* The server's one response to a request is in one place: on a stream, in the
\* hands of a reader, or in the channel.
AnswerInv ==
    /\ sending = NoOne
    /\ \A r \in Requests :
         /\ chan[r] = "full" => Answerable(r)
         /\ \A k \in Conns :
              /\ r \in inbox[k] =>
                   /\ Answerable(r) /\ chan[r] # "full"
                   /\ \A j \in Conns : r \in inbox[j] => j = k
                   /\ \A j \in Conns : ~(reader[j] = "message" /\ line[j] = r)
              /\ reader[k] = "message" /\ line[k] = r =>
                   /\ Answerable(r) /\ chan[r] # "full"
                   /\ \A j \in Conns : reader[j] = "message" /\ line[j] = r => j = k

IInv ==
    /\ TypeOK /\ ReaderInv /\ StartInv /\ OwnerInv /\ LiveInv
    /\ RunInv /\ ChanInv /\ AnswerInv

\* The two assumptions about the constants, as the proofs use them.
LEMMA Constants ==
    /\ Initialize \in Requests /\ ToolsList \in Requests
    /\ NoOne \notin Requests /\ NoOne \notin Conns
    /\ Requests \cap Conns = {} /\ NoConn \notin Conns /\ NoConn \notin Requests
    /\ MaxAttempts \in Nat /\ MaxAttempts > 0
    /\ 1 \in Conns /\ Conns \subseteq Nat
BY RequestsAssumption, BoundsAssumption DEF Requests, Conns, NoConn

\* The updates of the running reconnect keep its type.
LEMMA RecUpdates ==
    ASSUME NEW c \in Reconnects
    PROVE  /\ [c EXCEPT !.pc = "teardown"] \in Reconnects
           /\ [c EXCEPT !.pc = "await"] \in Reconnects
           /\ \A k \in Conns : [c EXCEPT !.pc = "dialing", !.conn = k] \in Reconnects
           /\ \A n \in 0..MaxAttempts :
                /\ [c EXCEPT !.pc = "dial", !.attempt = n] \in Reconnects
                /\ [c EXCEPT !.pc = "dial", !.attempt = n, !.conn = NoConn] \in Reconnects
BY DEF Reconnects

\* No reconnect has the type of one.
LEMMA NoReconnectType == NoReconnect \in Reconnects
BY Constants DEF NoReconnect, Reconnects

\* Initially nothing runs, and there is no connection.
LEMMA InitIInv == Init => IInv
<1> SUFFICES ASSUME Init PROVE IInv
    OBVIOUS
<1> USE Constants DEF Init
<1>1. TypeOK
  <2>1. rec \in Reconnects
    BY NoReconnectType
  <2>2. closed \in BOOLEAN /\ {messageURL, ready, cancelFn} \subseteq Conns \cup {NoConn}
    OBVIOUS
  <2>3. inbox \in [Conns -> SUBSET (Requests \cup {Endpoint})]
    OBVIOUS
  <2> QED BY <2>1, <2>2, <2>3 DEF TypeOK
<1>2. ReaderInv /\ StartInv /\ OwnerInv
    BY DEF ReaderInv, StartInv, OwnerInv, Live, NoReconnect
<1>3. LiveInv /\ RunInv /\ ChanInv
    BY DEF LiveInv, Live, RunInv, Refused, ChanInv, NoReconnect
<1>4. AnswerInv
    BY DEF AnswerInv, Endpoint
<1> QED
    BY <1>1, <1>2, <1>3, <1>4 DEF IInv

-----------------------------------------------------------------------------
\* A step keeps the types.
LEMMA TypeOKStep ==
    ASSUME IInv, Next
    PROVE  TypeOK'
<1> USE DEF IInv, Unaffected, connVars, callVars
<1>1. ASSUME StartDial PROVE TypeOK'
    BY <1>1, Constants DEF TypeOK, StartDial, Dial
<1>2. ASSUME StartConnected PROVE TypeOK'
    BY <1>2, Constants DEF TypeOK, StartConnected, Connected
<1>3. ASSUME StartDialFails PROVE TypeOK'
    BY <1>3, Constants DEF TypeOK, StartDialFails, DialFails
<1>4. ASSUME StartReady PROVE TypeOK'
    BY <1>4 DEF TypeOK, StartReady
<1>5. ASSUME StartTimeout PROVE TypeOK'
    BY <1>5 DEF TypeOK, StartTimeout
<1>6. ASSUME ConnectStep PROVE TypeOK'
    BY <1>6 DEF TypeOK, ConnectStep
<1>7. ASSUME Close PROVE TypeOK'
    BY <1>7 DEF TypeOK, Close, PendingAfterClose
<1>8. ASSUME NEW r \in Requests, Send(r) PROVE TypeOK'
    BY <1>8 DEF TypeOK, Send
<1>9. ASSUME NEW r \in Requests, Register(r) PROVE TypeOK'
    BY <1>9 DEF TypeOK, Register, RefusesWhenClosed
<1>10. ASSUME NEW r \in Requests, GetMessageURL(r) PROVE TypeOK'
    BY <1>10 DEF TypeOK, GetMessageURL, Returning
<1>11. ASSUME NEW r \in Requests, PostAccepted(r) PROVE TypeOK'
    BY <1>11 DEF TypeOK, RunInv, Refused, PostAccepted, Returning
<1>12. ASSUME NEW r \in Requests, PostRejected(r) PROVE TypeOK'
    BY <1>12 DEF TypeOK, PostRejected, Returning
<1>13. ASSUME NEW r \in Requests, Receive(r) PROVE TypeOK'
    BY <1>13 DEF TypeOK, Receive, Returning
<1>14. ASSUME NEW r \in Requests, WaitTimeout(r) PROVE TypeOK'
    BY <1>14 DEF TypeOK, WaitTimeout, Returning
<1>15. ASSUME NEW r \in Requests, Cleanup(r) PROVE TypeOK'
    BY <1>15 DEF TypeOK, Cleanup, isSessionError
<1>16. ASSUME NEW k \in Conns, Scan(k) PROVE TypeOK'
    BY <1>16 DEF TypeOK, Scan
<1>17. ASSUME NEW k \in Conns, ReaderReturns(k) PROVE TypeOK'
    BY <1>17 DEF TypeOK, ReaderReturns
<1>18. ASSUME NEW k \in Conns, ReaderDropped(k) PROVE TypeOK'
    BY <1>18 DEF TypeOK, ReaderDropped
<1>19. ASSUME NEW k \in Conns, SetMessageURL(k) PROVE TypeOK'
    BY <1>19 DEF TypeOK, SetMessageURL
<1>20. ASSUME NEW k \in Conns, SignalReady(k) PROVE TypeOK'
  <2>1. readyClosed \subseteq Conns /\ ready \in Conns
    BY <1>20 DEF SignalReady, TypeOK, ReaderInv
  <2>2. readyClosed' \subseteq Conns
    BY <1>20, <2>1 DEF SignalReady
  <2>3. reader' \in [Conns -> {"none", "scan", "endpoint", "signal", "message",
                               "sending", "reconnect", "exit"}]
    BY <1>20 DEF SignalReady, TypeOK
  <2> QED BY <1>20, <2>2, <2>3 DEF SignalReady, TypeOK
<1>21. ASSUME NEW k \in Conns, Deliver(k) PROVE TypeOK'
    BY <1>21 DEF TypeOK, Deliver, ChannelCapacity
<1>22. ASSUME NEW k \in Conns, StreamEnds(k) PROVE TypeOK'
    BY <1>22 DEF TypeOK, StreamEnds
<1>23. ASSUME NEW o \in Requests \cup Conns, ReconnectLock(o) PROVE TypeOK'
  <2>1. rec' \in Reconnects
    <3>1. rec' = [owner |-> o, pc |-> "check", attempt |-> 0, conn |-> NoConn]
      BY <1>23 DEF ReconnectLock, NoReconnect
    <3> QED BY <3>1, Constants DEF Reconnects
  <2> QED BY <1>23, <2>1 DEF ReconnectLock, TypeOK
<1>24. ASSUME ReconnectCheck PROVE TypeOK'
  <2>1. rec' \in Reconnects
    <3>1. CASE rec' = NoReconnect
      BY <3>1, NoReconnectType
    <3>2. CASE rec' = [rec EXCEPT !.pc = "teardown"]
      BY <3>2, RecUpdates DEF TypeOK
    <3> QED BY <1>24, <3>1, <3>2 DEF ReconnectCheck, ReconnectReturns
  <2> QED BY <1>24, <2>1 DEF ReconnectCheck, ReconnectReturns, TypeOK
<1>25. ASSUME ReconnectTeardown PROVE TypeOK'
  <2>1. /\ cancelled \subseteq Conns /\ cancelFn \in Conns \cup {NoConn}
        /\ rec \in Reconnects
    BY DEF TypeOK
  <2>2. cancelled' \subseteq Conns
    BY <1>25, <2>1 DEF ReconnectTeardown, TornDown
  <2>3. rec' \in Reconnects
    <3>1. 1 \in 0..MaxAttempts
      BY Constants
    <3> QED BY <1>25, <2>1, <3>1, RecUpdates DEF ReconnectTeardown
  <2> QED BY <1>25, <2>2, <2>3 DEF ReconnectTeardown, TypeOK
<1>26. ASSUME ReconnectDial PROVE TypeOK'
  <2>1. PICK k \in Conns : Dial(k) /\ rec' = [rec EXCEPT !.pc = "dialing", !.conn = k]
    BY <1>26 DEF ReconnectDial, Unused
  <2>2. rec' \in Reconnects
    <3>1. rec \in Reconnects
      BY DEF TypeOK
    <3> QED BY <2>1, <3>1, RecUpdates
  <2> QED BY <1>26, <2>1, <2>2 DEF ReconnectDial, Dial, TypeOK
<1>27. ASSUME ReconnectConnected PROVE TypeOK'
  <2>1. rec' \in Reconnects
    BY <1>27, RecUpdates DEF ReconnectConnected, TypeOK
  <2>2. rec.conn \in Conns
    BY <1>27 DEF ReconnectConnected, OwnerInv
  <2> QED BY <1>27, <2>1, <2>2 DEF ReconnectConnected, Connected, TypeOK
<1>28. ASSUME ReconnectReady PROVE TypeOK'
  <2>1. rec' \in Reconnects
    BY <1>28, NoReconnectType DEF ReconnectReady, ReconnectReturns
  <2> QED BY <1>28, <2>1 DEF ReconnectReady, ReconnectReturns, TypeOK
<1>29. ASSUME AttemptFails PROVE TypeOK'
  <2>1. rec \in Reconnects /\ cancelled \subseteq Conns
    BY DEF TypeOK
  <2>2. rec' \in Reconnects
    <3>1. CASE /\ AttemptsLeft
               /\ rec' = [rec EXCEPT !.pc = "dial", !.attempt = @ + 1, !.conn = NoConn]
      <4>1. rec.attempt + 1 \in 0..MaxAttempts
        BY <2>1, <3>1, Constants DEF AttemptsLeft, Reconnects
      <4> QED BY <2>1, <3>1, <4>1, RecUpdates
    <3>2. CASE rec' = NoReconnect
      BY <3>2, NoReconnectType
    <3> QED BY <1>29, <3>1, <3>2 DEF AttemptFails, ReconnectReturns
  <2>3. cancelled' \subseteq Conns
    <3>1. rec.conn \in Conns \cup {NoConn}
      BY <2>1 DEF Reconnects
    <3> QED BY <1>29, <2>1, <3>1 DEF AttemptFails, AttemptCancelled
  <2> QED BY <1>29, <2>2, <2>3 DEF AttemptFails, OwnerInv, TypeOK, ReconnectReturns
<1> QED
    BY <1>1, <1>2, <1>3, <1>4, <1>5, <1>6, <1>7, <1>8, <1>9, <1>10, <1>11, <1>12,
       <1>13, <1>14, <1>15, <1>16, <1>17, <1>18, <1>19, <1>20, <1>21, <1>22, <1>23,
       <1>24, <1>25, <1>26, <1>27, <1>28, <1>29
       DEF Next, Start, SendStep, ReaderStep, Reconnect

\* Connected starts the reader when it opens the stream and makes the channel.
LEMMA ReaderInvStep ==
    ASSUME IInv, Next
    PROVE  ReaderInv'
<1> USE DEF IInv, Unaffected, connVars, callVars
<1>1. ASSUME StartDial PROVE ReaderInv'
    BY <1>1, Constants
       DEF TypeOK, ReaderInv, StartInv, OwnerInv, StartDial, Dial, NoReconnect
<1>2. ASSUME StartConnected PROVE ReaderInv'
    BY <1>2, Constants
       DEF TypeOK, ReaderInv, StartInv, OwnerInv, StartConnected, Connected,
          NoReconnect
<1>3. ASSUME StartDialFails PROVE ReaderInv'
    BY <1>3, Constants
       DEF TypeOK, ReaderInv, StartInv, OwnerInv, StartDialFails, DialFails,
          NoReconnect
<1>4. ASSUME NEW r \in Requests, Receive(r) PROVE ReaderInv'
    BY <1>4, Constants
       DEF TypeOK, ReaderInv, StartInv, OwnerInv, Receive, Returning, NoReconnect
<1>5. ASSUME NEW k \in Conns, Scan(k) PROVE ReaderInv'
    BY <1>5, Constants DEF TypeOK, ReaderInv, StartInv, OwnerInv, Scan, NoReconnect
<1>6. ASSUME NEW k \in Conns, ReaderReturns(k) PROVE ReaderInv'
    BY <1>6, Constants
       DEF TypeOK, ReaderInv, StartInv, OwnerInv, ReaderReturns, NoReconnect
<1>7. ASSUME NEW k \in Conns, ReaderDropped(k) PROVE ReaderInv'
    BY <1>7, Constants
       DEF TypeOK, ReaderInv, StartInv, OwnerInv, ReaderDropped, NoReconnect
<1>8. ASSUME NEW k \in Conns, SetMessageURL(k) PROVE ReaderInv'
    BY <1>8, Constants
       DEF TypeOK, ReaderInv, StartInv, OwnerInv, SetMessageURL, NoReconnect
<1>9. ASSUME NEW k \in Conns, SignalReady(k) PROVE ReaderInv'
    BY <1>9, Constants
       DEF TypeOK, ReaderInv, StartInv, OwnerInv, SignalReady, NoReconnect
<1>10. ASSUME NEW k \in Conns, Deliver(k) PROVE ReaderInv'
    BY <1>10, Constants
       DEF TypeOK, ReaderInv, StartInv, OwnerInv, Deliver, ChannelCapacity,
          NoReconnect
<1>11. ASSUME NEW k \in Conns, StreamEnds(k) PROVE ReaderInv'
    BY <1>11, Constants
       DEF TypeOK, ReaderInv, StartInv, OwnerInv, StreamEnds, NoReconnect
<1>12. ASSUME ReconnectCheck PROVE ReaderInv'
    BY <1>12, Constants
       DEF TypeOK, ReaderInv, StartInv, OwnerInv, ReconnectCheck, ReconnectReturns,
          NoReconnect
<1>13. ASSUME ReconnectDial PROVE ReaderInv'
    BY <1>13, Constants
       DEF TypeOK, ReaderInv, StartInv, OwnerInv, ReconnectDial, Dial, Unused,
          NoReconnect
<1>14. ASSUME ReconnectConnected PROVE ReaderInv'
    BY <1>14, Constants
       DEF TypeOK, ReaderInv, StartInv, OwnerInv, ReconnectConnected, Connected,
          NoReconnect
<1>15. ASSUME ReconnectReady PROVE ReaderInv'
    BY <1>15, Constants
       DEF TypeOK, ReaderInv, StartInv, OwnerInv, ReconnectReady, ReconnectReturns,
          NoReconnect
<1>16. ASSUME AttemptFails PROVE ReaderInv'
    BY <1>16, Constants
       DEF TypeOK, ReaderInv, StartInv, OwnerInv, AttemptFails, ReconnectReturns,
          AttemptCancelled, AttemptsLeft, Unused, NoReconnect
<1>17. CASE UNCHANGED <<stream, reader, ready>>
    BY <1>17 DEF ReaderInv
<1> QED
    BY <1>1, <1>2, <1>3, <1>4, <1>5, <1>6, <1>7, <1>8, <1>9, <1>10, <1>11, <1>12,
       <1>13, <1>14, <1>15, <1>16, <1>17
       DEF Next, Start, SendStep, ReaderStep, Reconnect, StartReady, StartTimeout,
          ConnectStep, Close, Send, Register, GetMessageURL, PostAccepted,
          PostRejected, WaitTimeout, Cleanup, ReconnectLock, ReconnectTeardown

\* Start is over for good once it is over, and before that only its steps are
\* enabled.
LEMMA StartInvStep ==
    ASSUME IInv, Next
    PROVE  StartInv'
<1> USE DEF IInv, NoReconnect, Unaffected, connVars, callVars
<1>1. ASSUME StartDial PROVE StartInv'
    BY <1>1, Constants DEF TypeOK, StartInv, Live, StartDial, Dial
<1>2. ASSUME StartConnected PROVE StartInv'
    BY <1>2 DEF StartInv, StartConnected
<1>3. ASSUME StartDialFails PROVE StartInv'
    BY <1>3 DEF StartInv, StartDialFails
<1>4. CASE client \notin {"new", "dial"} /\ client' \notin {"new", "dial"}
    BY <1>4 DEF StartInv
<1>5. ASSUME NEW k \in Conns, StreamEnds(k) PROVE StartInv'
    BY <1>5, Constants DEF StartInv, TypeOK, Live, StreamEnds
<1>6. ASSUME client \in {"new", "dial"}, ~Start, \A k \in Conns : ~StreamEnds(k)
      PROVE  FALSE
  <2>1. \A k \in Conns : ~ReaderStep(k)
    BY <1>6 DEF StartInv, ReaderStep, Scan, ReaderReturns, ReaderDropped, SetMessageURL,
                SignalReady, Deliver
  <2>2. \A r \in Requests : ~Send(r) /\ ~SendStep(r)
    BY <1>6 DEF StartInv, Send, SendStep, Register, GetMessageURL, PostAccepted,
                PostRejected, Receive, WaitTimeout, Cleanup
  <2>3. \A o \in Requests \cup Conns : ~ReconnectLock(o)
    BY <1>6 DEF StartInv, ReconnectLock
  <2>4. rec.pc = "none"
    BY <1>6 DEF StartInv
  <2>5. ~Reconnect
    BY <2>4 DEF Reconnect, ReconnectCheck, ReconnectTeardown, ReconnectDial,
                ReconnectConnected, ReconnectReady, AttemptFails
  <2> QED BY <1>6, <2>1, <2>2, <2>3, <2>5 DEF Next, ConnectStep, Close
<1> QED
    BY <1>1, <1>2, <1>3, <1>4, <1>5, <1>6
       DEF Next, Start, StartReady, StartTimeout, ConnectStep, Close, Send, SendStep,
          Register, GetMessageURL, PostAccepted, PostRejected, Receive, WaitTimeout,
          Cleanup, ReaderStep, Scan, ReaderReturns, ReaderDropped, SetMessageURL,
          SignalReady, Deliver, StreamEnds, ReconnectLock, Reconnect, ReconnectCheck,
          ReconnectTeardown, ReconnectDial, ReconnectConnected, ReconnectReady,
          AttemptFails, ReconnectReturns

\* Nobody else moves the one who reconnects, and only Dial changes t.cancel.
LEMMA OwnerInvStep ==
    ASSUME IInv, Next
    PROVE  OwnerInv'
<1> USE DEF IInv, Unaffected, connVars, callVars
<1>1. ASSUME StartDial PROVE OwnerInv'
    BY <1>1, Constants
       DEF TypeOK, OwnerInv, StartInv, ReaderInv, StartDial, Dial, NoReconnect
<1>2. ASSUME StartConnected PROVE OwnerInv'
    BY <1>2, Constants
       DEF TypeOK, OwnerInv, StartInv, ReaderInv, StartConnected, Connected,
          NoReconnect
<1>3. ASSUME StartDialFails PROVE OwnerInv'
    BY <1>3, Constants
       DEF TypeOK, OwnerInv, StartInv, ReaderInv, StartDialFails, DialFails,
          NoReconnect
<1>4. ASSUME NEW r \in Requests, Send(r) PROVE OwnerInv'
    BY <1>4, Constants DEF TypeOK, OwnerInv, StartInv, ReaderInv, Send, NoReconnect
<1>5. ASSUME NEW r \in Requests, Register(r) PROVE OwnerInv'
    BY <1>5, Constants
       DEF TypeOK, OwnerInv, StartInv, ReaderInv, Register, RefusesWhenClosed,
          NoReconnect
<1>6. ASSUME NEW r \in Requests, GetMessageURL(r) PROVE OwnerInv'
    BY <1>6, Constants
       DEF TypeOK, OwnerInv, StartInv, ReaderInv, GetMessageURL, Returning,
          NoReconnect
<1>7. ASSUME NEW r \in Requests, PostAccepted(r) PROVE OwnerInv'
    BY <1>7, Constants
       DEF TypeOK, OwnerInv, StartInv, ReaderInv, PostAccepted, Returning,
          NoReconnect
<1>8. ASSUME NEW r \in Requests, PostRejected(r) PROVE OwnerInv'
    BY <1>8, Constants
       DEF TypeOK, OwnerInv, StartInv, ReaderInv, PostRejected, Returning,
          NoReconnect
<1>9. ASSUME NEW r \in Requests, Receive(r) PROVE OwnerInv'
    BY <1>9, Constants
       DEF TypeOK, OwnerInv, StartInv, ReaderInv, Receive, Returning, NoReconnect
<1>10. ASSUME NEW r \in Requests, WaitTimeout(r) PROVE OwnerInv'
    BY <1>10, Constants
       DEF TypeOK, OwnerInv, StartInv, ReaderInv, WaitTimeout, Returning,
          NoReconnect
<1>11. ASSUME NEW r \in Requests, Cleanup(r) PROVE OwnerInv'
    BY <1>11, Constants
       DEF TypeOK, OwnerInv, StartInv, ReaderInv, Cleanup, isSessionError,
          NoReconnect
<1>12. ASSUME NEW k \in Conns, Scan(k) PROVE OwnerInv'
    BY <1>12, Constants DEF TypeOK, OwnerInv, StartInv, ReaderInv, Scan, NoReconnect
<1>13. ASSUME NEW k \in Conns, ReaderReturns(k) PROVE OwnerInv'
    BY <1>13, Constants
       DEF TypeOK, OwnerInv, StartInv, ReaderInv, ReaderReturns, NoReconnect
<1>14. ASSUME NEW k \in Conns, ReaderDropped(k) PROVE OwnerInv'
    BY <1>14, Constants
       DEF TypeOK, OwnerInv, StartInv, ReaderInv, ReaderDropped, NoReconnect
<1>15. ASSUME NEW k \in Conns, SetMessageURL(k) PROVE OwnerInv'
    BY <1>15, Constants
       DEF TypeOK, OwnerInv, StartInv, ReaderInv, SetMessageURL, NoReconnect
<1>16. ASSUME NEW k \in Conns, SignalReady(k) PROVE OwnerInv'
    BY <1>16, Constants
       DEF TypeOK, OwnerInv, StartInv, ReaderInv, SignalReady, NoReconnect
<1>17. ASSUME NEW k \in Conns, Deliver(k) PROVE OwnerInv'
    BY <1>17, Constants
       DEF TypeOK, OwnerInv, StartInv, ReaderInv, Deliver, ChannelCapacity,
          NoReconnect
<1>18. ASSUME NEW k \in Conns, StreamEnds(k) PROVE OwnerInv'
    BY <1>18, Constants
       DEF TypeOK, OwnerInv, StartInv, ReaderInv, StreamEnds, NoReconnect
<1>19. ASSUME NEW o \in Requests \cup Conns, ReconnectLock(o) PROVE OwnerInv'
    BY <1>19, Constants
       DEF TypeOK, OwnerInv, StartInv, ReaderInv, ReconnectLock, NoReconnect
<1>20. ASSUME ReconnectCheck PROVE OwnerInv'
  <2>1. CASE ReconnectReturns(FALSE)
    BY <2>1, Constants DEF OwnerInv, ReconnectReturns, NoReconnect
  <2>2. CASE rec' = [rec EXCEPT !.pc = "teardown"] /\ UNCHANGED <<call, reader>>
    <3>1. rec \in Reconnects /\ OwnerInv
      BY DEF TypeOK
    <3>2. rec'.owner = rec.owner /\ rec'.pc = "teardown"
      BY <2>2, <3>1 DEF Reconnects
    <3> QED BY <2>2, <3>1, <3>2 DEF OwnerInv
  <2> QED BY <1>20, <2>1, <2>2 DEF ReconnectCheck
<1>21. ASSUME ReconnectTeardown PROVE OwnerInv'
    BY <1>21, Constants
       DEF TypeOK, OwnerInv, StartInv, ReaderInv, ReconnectTeardown, TornDown,
          NoReconnect
<1>22. ASSUME ReconnectDial PROVE OwnerInv'
    BY <1>22, Constants
       DEF TypeOK, OwnerInv, StartInv, ReaderInv, ReconnectDial, Dial, Unused,
          NoReconnect
<1>23. ASSUME ReconnectConnected PROVE OwnerInv'
    BY <1>23, Constants
       DEF TypeOK, OwnerInv, StartInv, ReaderInv, ReconnectConnected, Connected,
          NoReconnect
<1>24. ASSUME ReconnectReady PROVE OwnerInv'
    BY <1>24, Constants
       DEF TypeOK, OwnerInv, StartInv, ReaderInv, ReconnectReady, ReconnectReturns,
          NoReconnect
<1>25. ASSUME AttemptFails PROVE OwnerInv'
  <2>1. CASE ReconnectReturns(FALSE)
    BY <2>1, Constants DEF OwnerInv, ReconnectReturns, NoReconnect
  <2>2. CASE /\ rec' = [rec EXCEPT !.pc = "dial", !.attempt = @ + 1, !.conn = NoConn]
             /\ UNCHANGED <<call, reader>>
    <3>1. rec \in Reconnects /\ OwnerInv
      BY DEF TypeOK
    <3>2. rec'.owner = rec.owner /\ rec'.pc = "dial"
      BY <2>2, <3>1 DEF Reconnects
    <3> QED BY <2>2, <3>1, <3>2 DEF OwnerInv
  <2> QED BY <1>25, <2>1, <2>2 DEF AttemptFails
<1>26. CASE UNCHANGED <<rec, call, reader, cancelFn, stream>>
    BY <1>26 DEF OwnerInv
<1> QED
    BY <1>1, <1>2, <1>3, <1>4, <1>5, <1>6, <1>7, <1>8, <1>9, <1>10, <1>11, <1>12,
       <1>13, <1>14, <1>15, <1>16, <1>17, <1>18, <1>19, <1>20, <1>21, <1>22, <1>23,
       <1>24, <1>25, <1>26
       DEF Next, Start, SendStep, ReaderStep, Reconnect, StartReady, StartTimeout,
          ConnectStep, Close

\* A reconnection cancels what may live before it dials, and after each attempt.
LEMMA LiveInvStep ==
    ASSUME IInv, Next
    PROVE  LiveInv'
<1> USE DEF IInv, Unaffected, connVars, callVars
<1>1. ASSUME StartDial PROVE LiveInv'
    BY <1>1, Constants
       DEF TypeOK, LiveInv, Live, StartInv, OwnerInv, StartDial, Dial, NoReconnect
<1>2. ASSUME StartConnected PROVE LiveInv'
    BY <1>2, Constants
       DEF TypeOK, LiveInv, Live, StartInv, OwnerInv, StartConnected, Connected,
          NoReconnect
<1>3. ASSUME StartDialFails PROVE LiveInv'
    BY <1>3, Constants
       DEF TypeOK, LiveInv, Live, StartInv, OwnerInv, StartDialFails, DialFails,
          NoReconnect
<1>4. ASSUME Close PROVE LiveInv'
    BY <1>4, Constants
       DEF TypeOK, LiveInv, Live, StartInv, OwnerInv, Close, PendingAfterClose,
          NoReconnect
<1>5. ASSUME NEW k \in Conns, ReaderReturns(k) PROVE LiveInv'
    BY <1>5, Constants
       DEF TypeOK, LiveInv, Live, StartInv, OwnerInv, ReaderReturns, NoReconnect
<1>6. ASSUME NEW k \in Conns, StreamEnds(k) PROVE LiveInv'
    BY <1>6, Constants
       DEF TypeOK, LiveInv, Live, StartInv, OwnerInv, StreamEnds, NoReconnect
<1>7. ASSUME NEW o \in Requests \cup Conns, ReconnectLock(o) PROVE LiveInv'
    BY <1>7, Constants
       DEF TypeOK, LiveInv, Live, StartInv, OwnerInv, ReconnectLock, NoReconnect
<1>8. ASSUME ReconnectCheck PROVE LiveInv'
  <2>1. rec'.pc # "dial"
    <3>1. CASE rec' = NoReconnect
      BY <3>1 DEF NoReconnect
    <3>2. CASE rec' = [rec EXCEPT !.pc = "teardown"]
      BY <3>2 DEF TypeOK, Reconnects
    <3> QED BY <1>8, <3>1, <3>2 DEF ReconnectCheck, ReconnectReturns
  <2> QED BY <1>8, <2>1 DEF LiveInv, Live, ReconnectCheck
<1>9. ASSUME ReconnectTeardown PROVE LiveInv'
    BY <1>9, Constants
       DEF TypeOK, LiveInv, Live, StartInv, OwnerInv, ReconnectTeardown, TornDown,
          NoReconnect
<1>10. ASSUME ReconnectDial PROVE LiveInv'
    BY <1>10, Constants
       DEF TypeOK, LiveInv, Live, StartInv, OwnerInv, ReconnectDial, Dial, Unused,
          NoReconnect
<1>11. ASSUME ReconnectConnected PROVE LiveInv'
    BY <1>11, Constants
       DEF TypeOK, LiveInv, Live, StartInv, OwnerInv, ReconnectConnected,
          Connected, NoReconnect
<1>12. ASSUME ReconnectReady PROVE LiveInv'
    BY <1>12, Constants
       DEF TypeOK, LiveInv, Live, StartInv, OwnerInv, ReconnectReady,
          ReconnectReturns, NoReconnect
<1>13. ASSUME AttemptFails PROVE LiveInv'
    BY <1>13, Constants
       DEF TypeOK, LiveInv, Live, StartInv, OwnerInv, AttemptFails,
          ReconnectReturns, AttemptCancelled, AttemptsLeft, Unused, NoReconnect
<1>14. CASE UNCHANGED <<stream, cancelled, cancelFn, rec>>
    BY <1>14 DEF LiveInv, Live
<1> QED
    BY <1>1, <1>2, <1>3, <1>4, <1>5, <1>6, <1>7, <1>8, <1>9, <1>10, <1>11, <1>12,
       <1>13, <1>14
       DEF Next, Start, SendStep, ReaderStep, Reconnect, StartReady, StartTimeout,
          ConnectStep, Send, Register, GetMessageURL, PostAccepted, PostRejected,
          Receive, WaitTimeout, Cleanup, Scan, ReaderDropped, SetMessageURL,
          SignalReady, Deliver

\* Only a refused session sends a request back to be registered again.
LEMMA RunInvStep ==
    ASSUME IInv, Next
    PROVE  RunInv'
<1> USE DEF IInv, Unaffected, connVars, callVars
<1>1. ASSUME NEW r \in Requests, Send(r) PROVE RunInv'
    BY <1>1, Constants DEF TypeOK, RunInv, Refused, OwnerInv, Send, NoReconnect
<1>2. ASSUME NEW r \in Requests, Register(r) PROVE RunInv'
    BY <1>2, Constants
       DEF TypeOK, RunInv, Refused, OwnerInv, Register, RefusesWhenClosed, NoReconnect
<1>3. ASSUME NEW r \in Requests, GetMessageURL(r) PROVE RunInv'
    BY <1>3, Constants
       DEF TypeOK, RunInv, Refused, OwnerInv, GetMessageURL, Returning, NoReconnect
<1>4. ASSUME NEW r \in Requests, PostAccepted(r) PROVE RunInv'
    BY <1>4, Constants
       DEF TypeOK, RunInv, Refused, OwnerInv, PostAccepted, Returning, NoReconnect
<1>5. ASSUME NEW r \in Requests, PostRejected(r) PROVE RunInv'
    BY <1>5, Constants
       DEF TypeOK, RunInv, Refused, OwnerInv, PostRejected, Returning, NoReconnect
<1>6. ASSUME NEW r \in Requests, Receive(r) PROVE RunInv'
    BY <1>6, Constants DEF TypeOK, RunInv, Refused, OwnerInv, Receive, Returning, NoReconnect
<1>7. ASSUME NEW r \in Requests, WaitTimeout(r) PROVE RunInv'
    BY <1>7, Constants
       DEF TypeOK, RunInv, Refused, OwnerInv, WaitTimeout, Returning, NoReconnect
<1>8. ASSUME NEW r \in Requests, Cleanup(r) PROVE RunInv'
    BY <1>8, Constants
       DEF TypeOK, RunInv, Refused, OwnerInv, Cleanup, isSessionError, NoReconnect
<1>9. ASSUME ReconnectCheck PROVE RunInv'
    BY <1>9, Constants
       DEF TypeOK, RunInv, Refused, OwnerInv, ReconnectCheck, ReconnectReturns, NoReconnect
<1>10. ASSUME ReconnectReady PROVE RunInv'
    BY <1>10, Constants
       DEF TypeOK, RunInv, Refused, OwnerInv, ReconnectReady, ReconnectReturns, NoReconnect
<1>11. ASSUME AttemptFails PROVE RunInv'
    BY <1>11, Constants
       DEF TypeOK, RunInv, Refused, OwnerInv, AttemptFails, ReconnectReturns,
          AttemptCancelled, AttemptsLeft, Unused, NoReconnect
<1>12. CASE UNCHANGED <<call, out, try, executed, misled>>
    BY <1>12 DEF RunInv, Refused
<1> QED
    BY <1>1, <1>2, <1>3, <1>4, <1>5, <1>6, <1>7, <1>8, <1>9, <1>10, <1>11, <1>12
       DEF Next, Start, SendStep, ReaderStep, Reconnect, StartDial, StartConnected,
          StartDialFails, StartReady, StartTimeout, ConnectStep, Close, Scan,
          ReaderReturns, ReaderDropped, SetMessageURL, SignalReady, Deliver,
          StreamEnds, ReconnectLock, ReconnectTeardown, ReconnectDial,
          ReconnectConnected

\* Close settles exactly what is registered.
LEMMA ChanInvStep ==
    ASSUME IInv, Next
    PROVE  ChanInv'
<1> USE DEF IInv, Unaffected, connVars, callVars
<1>1. ASSUME Close PROVE ChanInv'
    BY <1>1, Constants DEF TypeOK, ChanInv, Close, PendingAfterClose
<1>2. ASSUME NEW r \in Requests, Send(r) PROVE ChanInv'
    BY <1>2, Constants DEF TypeOK, ChanInv, Send
<1>3. ASSUME NEW r \in Requests, Register(r) PROVE ChanInv'
    BY <1>3, Constants DEF TypeOK, ChanInv, Register, RefusesWhenClosed
<1>4. ASSUME NEW r \in Requests, GetMessageURL(r) PROVE ChanInv'
    BY <1>4, Constants DEF TypeOK, ChanInv, GetMessageURL, Returning
<1>5. ASSUME NEW r \in Requests, PostAccepted(r) PROVE ChanInv'
    BY <1>5, Constants DEF TypeOK, ChanInv, PostAccepted, Returning
<1>6. ASSUME NEW r \in Requests, PostRejected(r) PROVE ChanInv'
    BY <1>6, Constants DEF TypeOK, ChanInv, PostRejected, Returning
<1>7. ASSUME NEW r \in Requests, Receive(r) PROVE ChanInv'
    BY <1>7, Constants DEF TypeOK, ChanInv, Receive, Returning
<1>8. ASSUME NEW r \in Requests, WaitTimeout(r) PROVE ChanInv'
    BY <1>8, Constants DEF TypeOK, ChanInv, WaitTimeout, Returning
<1>9. ASSUME NEW r \in Requests, Cleanup(r) PROVE ChanInv'
    BY <1>9, Constants DEF TypeOK, ChanInv, Cleanup, isSessionError
<1>10. ASSUME NEW k \in Conns, Deliver(k) PROVE ChanInv'
    BY <1>10, Constants DEF TypeOK, ChanInv, Deliver, ChannelCapacity
<1>11. ASSUME ReconnectCheck PROVE ChanInv'
    BY <1>11, Constants DEF TypeOK, ChanInv, ReconnectCheck, ReconnectReturns
<1>12. ASSUME ReconnectReady PROVE ChanInv'
    BY <1>12, Constants DEF TypeOK, ChanInv, ReconnectReady, ReconnectReturns
<1>13. ASSUME AttemptFails PROVE ChanInv'
    BY <1>13, Constants
       DEF TypeOK, ChanInv, AttemptFails, ReconnectReturns, AttemptCancelled,
          AttemptsLeft, Unused
<1>14. CASE UNCHANGED <<closed, pending, chan, call>>
    BY <1>14 DEF ChanInv
<1> QED
    BY <1>1, <1>2, <1>3, <1>4, <1>5, <1>6, <1>7, <1>8, <1>9, <1>10, <1>11, <1>12,
       <1>13, <1>14
       DEF Next, Start, SendStep, ReaderStep, Reconnect, StartDial, StartConnected,
          StartDialFails, StartReady, StartTimeout, ConnectStep, Scan,
          ReaderReturns, ReaderDropped, SetMessageURL, SignalReady, StreamEnds,
          ReconnectLock, ReconnectTeardown, ReconnectDial, ReconnectConnected

\* A request that is posted has no response yet, so what a reader delivers finds
\* the channel empty.
LEMMA AnswerInvStep ==
    ASSUME IInv, Next
    PROVE  AnswerInv'
<1> USE DEF IInv, Unaffected, connVars, callVars
<1>1. ASSUME StartConnected PROVE AnswerInv'
    BY <1>1, Constants DEF TypeOK, AnswerInv, Answerable, StartConnected, Connected, Endpoint
<1>2. ASSUME Close PROVE AnswerInv'
    BY <1>2, Constants DEF TypeOK, AnswerInv, Answerable, Close, PendingAfterClose
<1>3. ASSUME NEW r \in Requests, Register(r) PROVE AnswerInv'
    BY <1>3, Constants DEF TypeOK, AnswerInv, Answerable, Register, RefusesWhenClosed
<1>4. ASSUME NEW r \in Requests, PostAccepted(r) PROVE AnswerInv'
    BY <1>4, Constants DEF TypeOK, AnswerInv, Answerable, RunInv, PostAccepted, Returning
<1>5. ASSUME NEW r \in Requests, Receive(r) PROVE AnswerInv'
    BY <1>5, Constants DEF TypeOK, AnswerInv, Answerable, Receive, Returning
<1>6. ASSUME NEW r \in Requests, Cleanup(r) PROVE AnswerInv'
    BY <1>6, Constants DEF TypeOK, AnswerInv, Answerable, Cleanup, isSessionError
<1>7. ASSUME NEW k \in Conns, Scan(k) PROVE AnswerInv'
    BY <1>7, Constants DEF TypeOK, AnswerInv, Answerable, Scan
<1>8. ASSUME NEW k \in Conns, ReaderReturns(k) PROVE AnswerInv'
    BY <1>8, Constants DEF TypeOK, AnswerInv, Answerable, ReaderReturns
<1>9. ASSUME NEW k \in Conns, ReaderDropped(k) PROVE AnswerInv'
    BY <1>9, Constants DEF TypeOK, AnswerInv, Answerable, ReaderDropped
<1>10. ASSUME NEW k \in Conns, SetMessageURL(k) PROVE AnswerInv'
    BY <1>10, Constants DEF TypeOK, AnswerInv, Answerable, SetMessageURL
<1>11. ASSUME NEW k \in Conns, SignalReady(k) PROVE AnswerInv'
    BY <1>11, Constants DEF TypeOK, AnswerInv, Answerable, SignalReady
<1>12. ASSUME NEW k \in Conns, Deliver(k) PROVE AnswerInv'
    BY <1>12, Constants DEF TypeOK, AnswerInv, Answerable, Deliver, ChannelCapacity
<1>13. ASSUME NEW k \in Conns, StreamEnds(k) PROVE AnswerInv'
    BY <1>13, Constants DEF TypeOK, AnswerInv, Answerable, StreamEnds
<1>14. ASSUME ReconnectCheck PROVE AnswerInv'
    BY <1>14, Constants DEF TypeOK, AnswerInv, Answerable, ReconnectCheck, ReconnectReturns
<1>15. ASSUME ReconnectConnected PROVE AnswerInv'
    BY <1>15, Constants DEF TypeOK, AnswerInv, Answerable, ReconnectConnected, Connected, Endpoint
<1>16. ASSUME ReconnectReady PROVE AnswerInv'
    BY <1>16, Constants DEF TypeOK, AnswerInv, Answerable, OwnerInv, ReconnectReady, ReconnectReturns
<1>17. ASSUME AttemptFails PROVE AnswerInv'
    BY <1>17, Constants
       DEF TypeOK, AnswerInv, Answerable, AttemptFails, ReconnectReturns, AttemptCancelled,
          AttemptsLeft, Unused
<1>18. CASE UNCHANGED <<sending, chan, call, out, inbox, reader, line>>
    BY <1>18 DEF AnswerInv, Answerable
<1>19. ASSUME NEW r \in Requests, Send(r) PROVE AnswerInv'
    BY <1>19, Constants DEF TypeOK, AnswerInv, Answerable, Send
<1>20. ASSUME NEW r \in Requests, GetMessageURL(r) PROVE AnswerInv'
    BY <1>20, Constants DEF TypeOK, AnswerInv, Answerable, GetMessageURL, Returning
<1>21. ASSUME NEW r \in Requests, PostRejected(r) PROVE AnswerInv'
    BY <1>21, Constants DEF TypeOK, AnswerInv, Answerable, PostRejected, Returning
<1>22. ASSUME NEW r \in Requests, WaitTimeout(r) PROVE AnswerInv'
    BY <1>22, Constants DEF TypeOK, AnswerInv, Answerable, WaitTimeout, Returning
<1> QED
    BY <1>1, <1>2, <1>3, <1>4, <1>5, <1>6, <1>7, <1>8, <1>9, <1>10, <1>11, <1>12,
       <1>13, <1>14, <1>15, <1>16, <1>17, <1>18, <1>19, <1>20, <1>21, <1>22
       DEF Next, Start, SendStep, ReaderStep, Reconnect, StartDial, StartDialFails,
          StartReady, StartTimeout, ConnectStep, ReconnectLock, ReconnectTeardown, ReconnectDial, Dial, DialFails

-----------------------------------------------------------------------------
LEMMA StepIInv == IInv /\ [Next]_vars => IInv'
<1> SUFFICES ASSUME IInv, [Next]_vars PROVE IInv'
    OBVIOUS
<1>1. CASE Next
    BY <1>1, TypeOKStep, ReaderInvStep, StartInvStep, OwnerInvStep, LiveInvStep,
       RunInvStep, ChanInvStep, AnswerInvStep DEF IInv
<1>2. CASE UNCHANGED vars
    BY <1>2 DEF vars, connVars, callVars, IInv, TypeOK, ReaderInv, StartInv, OwnerInv,
       LiveInv, Live, RunInv, Refused, ChanInv, AnswerInv, Answerable
<1> QED
    BY <1>1, <1>2

\* The invariant holds in every reachable state.
THEOREM SpecIInv == Spec => []IInv
<1> QED
    BY InitIInv, StepIInv, PTL DEF Spec

\* Every variable keeps its type, whatever the client, the readers, the
\* reconnections and the server do (sse_transport.go).
THEOREM SpecTypeOK == Spec => []TypeOK
<1>1. IInv => TypeOK
    BY DEF IInv
<1> QED
    BY SpecIInv, <1>1, PTL

\* However often readers and requests reconnect, and wherever Close strikes, the
\* transport never has two connections it has not cancelled.
THEOREM SpecOneLiveConnection == Spec => []OneLiveConnection
<1>1. IInv => OneLiveConnection
    BY DEF IInv, LiveInv, OneLiveConnection
<1> QED
    BY SpecIInv, <1>1, PTL

\* For any number of requests, connections and attempts, whatever times out,
\* drops or is lost: the server runs a request again only after it answered
\* the first run with a session error; and one that was answered has been run.
THEOREM SpecRunAgainOnlyIfRefused == Spec => []RunAgainOnlyIfRefused
<1>1. IInv => RunAgainOnlyIfRefused
    BY DEF IInv, RunInv, RunAgainOnlyIfRefused
<1> QED
    BY SpecIInv, <1>1, PTL

\* Close leaves no request that waits for an answer nobody will send, and no
\* channel that a reader might send on after it was closed.
THEOREM SpecCloseSettlesPending == Spec => []CloseSettlesPending
<1>1. IInv => CloseSettlesPending
    BY DEF IInv, ChanInv, CloseSettlesPending
<1> QED
    BY SpecIInv, <1>1, PTL

\* handleSSEData sends with t.mu held, and never has to wait there, provided the
\* server answers an accepted request at most once, an error status included:
\* the channel has room for that.
THEOREM SpecDeliverNeverBlocks == Spec => [](sending = NoOne)
<1>1. IInv => sending = NoOne
    BY DEF IInv, AnswerInv
<1> QED
    BY SpecIInv, <1>1, PTL
=============================================================================
