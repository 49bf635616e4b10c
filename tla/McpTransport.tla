---------------------------- MODULE McpTransport ----------------------------
(***************************************************************************)
(* An MCP client on the SSE transport: infrastructure/mcp/sse_transport.go *)
(* and client.go, driven by service/mcp/connector.go (Connect, then        *)
(* Register) and by the registry's CloseAll on a configuration reload or a *)
(* shutdown.  Clients of different servers share nothing, so one is        *)
(* modelled.                                                               *)
(*                                                                         *)
(* Goroutines: the connector, one per request in flight, one reader per    *)
(* SSE connection.  A section under t.mu is one step; t.mu is visible only *)
(* through `sending', the send on a response channel that is made with     *)
(* t.mu held.  t.cancel is written without t.mu: its reads and writes      *)
(* interleave freely.  A timeout may fire in any state that waits for one. *)
(*                                                                         *)
(* The server opens a session per stream and ends it with the stream.  It  *)
(* answers an accepted request at most once - on the stream, in the body   *)
(* of the POST or with an error status - and sends no requests of its own. *)
(* Any POST may be answered with an error whose text mentions a session,   *)
(* also while the stream is open, also after the request has been run.     *)
(***************************************************************************)
EXTENDS Integers, FiniteSets

CONSTANTS
    Initialize, ToolsList,  \* the two requests of Client.Connect
    ToolCalls,              \* requests of Client.CallTool; ids are never reused
    NoOne,                  \* no request, no owner
    MaxAttempts,            \* sseMaxReconnectAttempts
    MaxConns                \* bound: SSE connections the server ever accepts

ASSUME RequestsAssumption ==
    /\ Initialize # ToolsList
    /\ {Initialize, ToolsList} \cap ToolCalls = {}
    /\ NoOne \notin ToolCalls \cup {Initialize, ToolsList} \cup (0..MaxConns)
    /\ (ToolCalls \cup {Initialize, ToolsList}) \cap (0..MaxConns) = {}
ASSUME BoundsAssumption == MaxAttempts \in Nat \ {0} /\ MaxConns \in Nat \ {0}

Requests == ToolCalls \cup {Initialize, ToolsList}
Conns == 1..MaxConns
NoConn == 0
Endpoint == NoConn      \* the endpoint event, among the events of a stream

VARIABLES
    client,      \* where Client.Connect is; "connected" once registered
    closed,      \* t.closed
    messageURL,  \* t.messageURL: the connection whose session it names
    ready,       \* t.endpointReady: the channel made for this connection
    readyClosed, \* endpointReady channels that have been closed
    cancelFn,    \* t.cancel: the connection whose context it cancels
    cancelled,   \* connections whose context is cancelled
    stream,      \* stream[k]: the HTTP stream of connection k
    inbox,       \* inbox[k]: events sent on stream k and not read yet
    reader,      \* reader[k]: where readSSE of connection k is
    line,        \* line[k]: the response the reader is handling
    pending,     \* keys of t.pending
    chan,        \* chan[r]: the response channel of r's current doSend
    sending,     \* request a reader blocks on in `ch <- &resp', t.mu held
    call,        \* call[r]: where Send of r is
    out,         \* out[r]: what doSend is about to return
    try,         \* try[r]: first or second doSend
    url,         \* url[r]: the message URL doSend read
    executed,    \* executed[r]: times the server accepted (and ran) r
    misled,      \* requests it ran and answered with a session error
    rec          \* the running reconnect, which holds t.reconnectMu

connVars == <<ready, readyClosed, cancelFn, cancelled, stream, inbox, reader, line>>
callVars == <<chan, call, out, try, url, executed, misled>>
vars == <<client, closed, messageURL, connVars, pending, sending, callVars, rec>>

NoReconnect == [owner |-> NoOne, pc |-> "none", attempt |-> 0, conn |-> NoConn]

Reconnects ==
    [owner : Requests \cup Conns \cup {NoOne},
     pc : {"none", "check", "teardown", "dial", "dialing", "await"},
     attempt : 0..MaxAttempts, conn : Conns \cup {NoConn}]

TypeOK ==
    /\ client \in {"new", "dial", "await", "initialize", "tools_list",
                   "connected", "dropped", "closed"}
    /\ closed \in BOOLEAN
    /\ {messageURL, ready, cancelFn} \subseteq Conns \cup {NoConn}
    /\ readyClosed \subseteq Conns /\ cancelled \subseteq Conns
    /\ stream \in [Conns -> {"none", "dialing", "open", "ended"}]
    /\ inbox \in [Conns -> SUBSET (Requests \cup {Endpoint})]
    /\ reader \in [Conns -> {"none", "scan", "endpoint", "signal", "message",
                             "sending", "reconnect", "exit"}]
    /\ line \in [Conns -> Requests \cup {NoOne}]
    /\ pending \subseteq Requests
    /\ chan \in [Requests -> {"none", "empty", "full", "closed"}]
    /\ sending \in Requests \cup {NoOne}
    /\ call \in [Requests -> {"idle", "register", "url", "post", "wait", "cleanup",
                              "reconnect", "ok", "nil", "failed"}]
    /\ out \in [Requests -> {"none", "ok", "nil", "failed", "session"}]
    /\ try \in [Requests -> 1..2]
    /\ url \in [Requests -> Conns \cup {NoConn}]
    /\ executed \in [Requests -> 0..2]
    /\ misled \subseteq Requests
    /\ rec \in Reconnects

Init ==
    /\ client = "new" /\ closed = FALSE
    /\ messageURL = NoConn /\ ready = NoConn /\ readyClosed = {}
    /\ cancelFn = NoConn /\ cancelled = {}
    /\ stream = [k \in Conns |-> "none"] /\ inbox = [k \in Conns |-> {}]
    /\ reader = [k \in Conns |-> "none"] /\ line = [k \in Conns |-> NoOne]
    /\ pending = {} /\ sending = NoOne
    /\ chan = [r \in Requests |-> "none"]
    /\ call = [r \in Requests |-> "idle"] /\ out = [r \in Requests |-> "none"]
    /\ try = [r \in Requests |-> 1] /\ url = [r \in Requests |-> NoConn]
    /\ executed = [r \in Requests |-> 0] /\ misled = {}
    /\ rec = NoReconnect

\* t.mu can be taken.
MuFree == sending = NoOne

Unused == {k \in Conns : stream[k] = "none"}

-----------------------------------------------------------------------------
(* connectSSE: the GET, then the reset of the endpoint state under t.mu and *)
(* a new reader.                                                            *)

Dial(k) ==
    /\ stream[k] = "none"
    /\ \A j \in Conns : j < k => stream[j] # "none"
    /\ cancelFn' = k
    /\ stream' = [stream EXCEPT ![k] = "dialing"]
    /\ UNCHANGED <<ready, readyClosed, cancelled, inbox, reader, line>>

Connected(k) ==
    /\ MuFree /\ k \notin cancelled
    /\ messageURL' = NoConn
    /\ ready' = k
    /\ stream' = [stream EXCEPT ![k] = "open"]
    /\ inbox' = [inbox EXCEPT ![k] = {Endpoint}]
    /\ reader' = [reader EXCEPT ![k] = "scan"]
    /\ UNCHANGED <<readyClosed, cancelFn, cancelled, line>>

\* The dial fails and the caller cancels the context it made for it.
DialFails(k) ==
    /\ stream' = [stream EXCEPT ![k] = "ended"]
    /\ cancelled' = cancelled \cup {k}
    /\ UNCHANGED <<ready, readyClosed, cancelFn, inbox, reader, line>>

-----------------------------------------------------------------------------
(* Client.Connect and the connector.                                        *)

StartDial ==
    /\ client = "new"
    /\ Dial(1) /\ client' = "dial"
    /\ UNCHANGED <<closed, messageURL, pending, sending, callVars, rec>>

StartConnected ==
    /\ client = "dial"
    /\ Connected(1) /\ client' = "await"
    /\ UNCHANGED <<closed, pending, sending, callVars, rec>>

StartDialFails ==
    /\ client = "dial"
    /\ DialFails(1) /\ client' = "dropped"
    /\ UNCHANGED <<closed, messageURL, pending, sending, callVars, rec>>

\* Start reads t.endpointReady at any time after connectSSE returned: it waits
\* on the channel of its own connection or, if the stream dropped already, on
\* that of a later one.  On a timeout it leaves the reader running.
StartReady ==
    /\ client = "await" /\ readyClosed # {}
    /\ client' = "initialize"
    /\ UNCHANGED <<closed, messageURL, connVars, pending, sending, callVars, rec>>

StartTimeout ==
    /\ client = "await" /\ client' = "dropped"
    /\ UNCHANGED <<closed, messageURL, connVars, pending, sending, callVars, rec>>

\* The connector's next step once the handshake request of this phase ended:
\* the next request, Register, or a dropped client that nobody closes.
ConnectStep ==
    /\ \/ /\ client = "initialize"
          /\ \/ call[Initialize] = "ok" /\ client' = "tools_list"
             \/ call[Initialize] = "failed" /\ client' = "dropped"
       \/ /\ client = "tools_list"
          /\ \/ call[ToolsList] = "ok" /\ client' \in {"connected", "dropped"}
             \/ call[ToolsList] = "failed" /\ client' = "dropped"
    /\ UNCHANGED <<closed, messageURL, connVars, pending, sending, callVars, rec>>

-----------------------------------------------------------------------------
(* Close, by CloseAll.                                                      *)

PendingAfterClose == {}

Close ==
    /\ client = "connected" /\ MuFree
    /\ client' = "closed" /\ closed' = TRUE
    /\ cancelled' = cancelled \cup ({cancelFn} \ {NoConn})
    /\ chan' = [r \in Requests |-> IF r \in pending THEN "closed" ELSE chan[r]]
    /\ pending' = PendingAfterClose
    /\ UNCHANGED <<messageURL, ready, readyClosed, cancelFn, stream, inbox, reader,
                   line, sending, call, out, try, url, executed, misled, rec>>

-----------------------------------------------------------------------------
(* Send and doSend.                                                         *)

Unaffected == <<client, closed, messageURL, connVars, sending, rec>>

\* The handshake requests in their phase; a tool call at any time after the
\* tools were handed to an agent, a closed client included.
Send(r) ==
    /\ call[r] = "idle"
    /\ \/ r = Initialize /\ client = "initialize"
       \/ r = ToolsList /\ client = "tools_list"
       \/ r \in ToolCalls /\ client \in {"connected", "closed"}
    /\ call' = [call EXCEPT ![r] = "register"]
    /\ UNCHANGED <<Unaffected, pending, chan, out, try, url, executed, misled>>

\* Mutant: doSend without its closed check.
NeverRefuses == FALSE

RefusesWhenClosed == closed

Register(r) ==
    /\ call[r] = "register" /\ MuFree
    /\ IF RefusesWhenClosed
       THEN /\ call' = [call EXCEPT ![r] = "failed"]
            /\ UNCHANGED <<pending, chan>>
       ELSE /\ pending' = pending \cup {r}
            /\ chan' = [chan EXCEPT ![r] = "empty"]
            /\ call' = [call EXCEPT ![r] = "url"]
    /\ UNCHANGED <<Unaffected, out, try, url, executed, misled>>

\* doSend is about to return o; its deferred delete needs t.mu.
Returning(r, o) ==
    /\ call' = [call EXCEPT ![r] = "cleanup"]
    /\ out' = [out EXCEPT ![r] = o]

GetMessageURL(r) ==
    /\ call[r] = "url" /\ MuFree
    /\ \/ /\ messageURL # NoConn
          /\ call' = [call EXCEPT ![r] = "post"] /\ UNCHANGED out
       \/ messageURL = NoConn /\ Returning(r, "failed")
    /\ url' = [url EXCEPT ![r] = messageURL]
    /\ UNCHANGED <<Unaffected, pending, chan, try, executed, misled>>

\* The server accepts the request and runs it: it answers on the stream (its
\* reply to the POST arrives, or is lost: http error, timeout, ctx), or in the
\* body of the POST, or with an error status whose body may mention a session.
PostAccepted(r) ==
    /\ call[r] = "post" /\ stream[url[r]] = "open"
    /\ executed' = [executed EXCEPT ![r] = @ + 1]
    /\ \/ /\ inbox' = [inbox EXCEPT ![url[r]] = @ \cup {r}]
          /\ \/ call' = [call EXCEPT ![r] = "wait"] /\ UNCHANGED out
             \/ Returning(r, "failed")
          /\ UNCHANGED misled
       \/ UNCHANGED <<inbox, misled>> /\ \E o \in {"ok", "failed"} : Returning(r, o)
       \/ UNCHANGED inbox /\ Returning(r, "session") /\ misled' = misled \cup {r}
    /\ UNCHANGED <<client, closed, messageURL, ready, readyClosed, cancelFn, cancelled,
                   stream, reader, line, sending, rec, pending, chan, try, url>>

\* The request is not run: the reply is a status of 400 or more whose body
\* mentions a session, whatever became of the session, or any other error.
PostRejected(r) ==
    /\ call[r] = "post"
    /\ \E o \in {"session", "failed"} : Returning(r, o)
    /\ UNCHANGED <<Unaffected, pending, chan, try, url, executed, misled>>

\* A response from the channel, nil from a channel Close has closed.
Receive(r) ==
    /\ call[r] = "wait"
    /\ \/ /\ chan[r] = "full" \/ sending = r
          /\ Returning(r, "ok")
       \/ /\ chan[r] = "closed"
          /\ Returning(r, "nil")
    /\ chan' = [chan EXCEPT ![r] = IF @ = "full" /\ sending # r THEN "empty" ELSE @]
    /\ sending' = IF sending = r THEN NoOne ELSE sending
    /\ reader' = [k \in Conns |-> IF sending = r /\ reader[k] = "sending"
                                  THEN "scan" ELSE reader[k]]
    /\ UNCHANGED <<client, closed, messageURL, ready, readyClosed, cancelFn, cancelled,
                   stream, inbox, line, rec, pending, try, url, executed, misled>>

WaitTimeout(r) ==
    /\ call[r] = "wait" /\ Returning(r, "failed")
    /\ UNCHANGED <<Unaffected, pending, chan, try, url, executed, misled>>

\* Mutant: Send retries after any error.
AnyError(r) == out[r] \in {"session", "failed"}

\* Send retries once, and only when the error body contains "session", which
\* says nothing of whether the server ran the request.
isSessionError(r) == out[r] = "session"

\* The deferred delete, and Send's decision on what doSend returned.
Cleanup(r) ==
    /\ call[r] = "cleanup" /\ MuFree
    /\ pending' = pending \ {r}
    /\ call' = [call EXCEPT ![r] =
                  CASE out[r] \in {"ok", "nil"} -> out[r]
                    [] isSessionError(r) /\ try[r] = 1 -> "reconnect"
                    [] OTHER -> "failed"]
    /\ out' = [out EXCEPT ![r] = "none"]
    /\ chan' = [chan EXCEPT ![r] = "none"]
    /\ url' = [url EXCEPT ![r] = NoConn]
    /\ try' = [try EXCEPT ![r] = 1]
    /\ UNCHANGED <<Unaffected, executed, misled>>

-----------------------------------------------------------------------------
(* readSSE and handleSSEData.                                               *)

\* The endpoint event comes first on its stream; responses in any order.  The
\* context is checked before the line is handled, not while it is.
Scan(k) ==
    /\ reader[k] = "scan" /\ k \notin cancelled
    /\ \E e \in inbox[k] :
        /\ Endpoint \in inbox[k] => e = Endpoint
        /\ inbox' = [inbox EXCEPT ![k] = @ \ {e}]
        /\ reader' = [reader EXCEPT ![k] = IF e = Endpoint THEN "endpoint" ELSE "message"]
        /\ line' = [line EXCEPT ![k] = IF e = Endpoint THEN NoOne ELSE e]
    /\ UNCHANGED <<client, closed, messageURL, ready, readyClosed, cancelFn, cancelled,
                   stream, pending, sending, callVars, rec>>

\* The reader's context is cancelled: it returns.
ReaderReturns(k) ==
    /\ reader[k] = "scan" /\ k \in cancelled
    /\ reader' = [reader EXCEPT ![k] = "exit"]
    /\ stream' = [stream EXCEPT ![k] = "ended"]
    /\ inbox' = [inbox EXCEPT ![k] = {}]
    /\ UNCHANGED <<client, closed, messageURL, ready, readyClosed, cancelFn, cancelled,
                   line, pending, sending, callVars, rec>>

\* The server ends the stream: what it had sent arrived, or is lost from some
\* event on; the endpoint event is the first.
StreamEnds(k) ==
    /\ stream[k] = "open"
    /\ stream' = [stream EXCEPT ![k] = "ended"]
    /\ \E arrived \in SUBSET inbox[k] :
        /\ Endpoint \in inbox[k] \ arrived => arrived = {}
        /\ inbox' = [inbox EXCEPT ![k] = arrived]
    /\ UNCHANGED <<client, closed, messageURL, ready, readyClosed, cancelFn, cancelled,
                   reader, line, pending, sending, callVars, rec>>

\* End of a stream whose context is active: the reader asks for a reconnect.
ReaderDropped(k) ==
    /\ reader[k] = "scan" /\ stream[k] = "ended" /\ inbox[k] = {}
    /\ k \notin cancelled
    /\ reader' = [reader EXCEPT ![k] = "reconnect"]
    /\ UNCHANGED <<client, closed, messageURL, ready, readyClosed, cancelFn, cancelled,
                   stream, inbox, line, pending, sending, callVars, rec>>

SetMessageURL(k) ==
    /\ reader[k] = "endpoint" /\ MuFree
    /\ messageURL' = k
    /\ reader' = [reader EXCEPT ![k] = "signal"]
    /\ UNCHANGED <<client, closed, ready, readyClosed, cancelFn, cancelled, stream,
                   inbox, line, pending, sending, callVars, rec>>

\* Closes the current endpointReady channel, which may be a later connection's.
SignalReady(k) ==
    /\ reader[k] = "signal" /\ MuFree
    /\ readyClosed' = readyClosed \cup {ready}
    /\ reader' = [reader EXCEPT ![k] = "scan"]
    /\ UNCHANGED <<client, closed, messageURL, ready, cancelFn, cancelled, stream,
                   inbox, line, pending, sending, callVars, rec>>

\* Mutant: make(chan *Response) without the buffer.
Unbuffered == 0

ChannelCapacity == 1

\* `ch <- &resp' under t.mu, when the id is still pending.
Deliver(k) ==
    LET r == line[k]
        blocks == r \in pending /\ (ChannelCapacity = 0 \/ chan[r] = "full")
    IN  /\ reader[k] = "message" /\ MuFree
        /\ reader' = [reader EXCEPT ![k] = IF blocks THEN "sending" ELSE "scan"]
        /\ sending' = IF blocks THEN r ELSE NoOne
        /\ chan' = [chan EXCEPT ![r] = IF r \in pending /\ ~blocks THEN "full" ELSE @]
        /\ line' = [line EXCEPT ![k] = NoOne]
        /\ UNCHANGED <<client, closed, messageURL, ready, readyClosed, cancelFn,
                       cancelled, stream, inbox, pending, call, out, try, url,
                       executed, misled, rec>>

-----------------------------------------------------------------------------
(* reconnect.                                                               *)

ReconnectLock(o) ==
    /\ rec = NoReconnect
    /\ \/ o \in Requests /\ call[o] = "reconnect"
       \/ o \in Conns /\ reader[o] = "reconnect"
    /\ rec' = [NoReconnect EXCEPT !.owner = o, !.pc = "check"]
    /\ UNCHANGED <<client, closed, messageURL, connVars, pending, sending, callVars>>

\* reconnect returns to its caller: Send retries after a success.
ReconnectReturns(ok) ==
    /\ rec' = NoReconnect
    /\ IF rec.owner \in Requests
       THEN /\ call' = [call EXCEPT ![rec.owner] = IF ok THEN "register" ELSE "failed"]
            /\ try' = [try EXCEPT ![rec.owner] = IF ok THEN 2 ELSE 1]
            /\ UNCHANGED reader
       ELSE /\ reader' = [reader EXCEPT ![rec.owner] = "exit"]
            /\ UNCHANGED <<call, try>>
    /\ UNCHANGED <<client, closed, pending, sending, chan, out, url, executed, misled, line>>

ReconnectCheck ==
    /\ rec.pc = "check" /\ MuFree
    /\ \/ /\ closed /\ ReconnectReturns(FALSE)
       \/ /\ ~closed /\ rec' = [rec EXCEPT !.pc = "teardown"]
          /\ UNCHANGED <<client, closed, pending, sending, callVars, reader, line>>
    /\ UNCHANGED <<messageURL, ready, readyClosed, cancelFn, cancelled, stream, inbox>>

\* Mutant: reconnect forgets the old connection.
TornDownNone == {}

TornDown == {cancelFn} \ {NoConn}

ReconnectTeardown ==
    /\ rec.pc = "teardown"
    /\ cancelled' = cancelled \cup TornDown
    /\ rec' = [rec EXCEPT !.pc = "dial", !.attempt = 1]
    /\ UNCHANGED <<client, closed, messageURL, ready, readyClosed, cancelFn, stream,
                   inbox, reader, line, pending, sending, callVars>>

ReconnectDial ==
    /\ rec.pc = "dial"
    /\ \E k \in Unused : Dial(k) /\ rec' = [rec EXCEPT !.pc = "dialing", !.conn = k]
    /\ UNCHANGED <<client, closed, messageURL, pending, sending, callVars>>

ReconnectConnected ==
    /\ rec.pc = "dialing"
    /\ Connected(rec.conn)
    /\ rec' = [rec EXCEPT !.pc = "await"]
    /\ UNCHANGED <<client, closed, pending, sending, callVars>>

ReconnectReady ==
    /\ rec.pc = "await" /\ rec.conn \in readyClosed
    /\ ReconnectReturns(TRUE)
    /\ UNCHANGED <<messageURL, ready, readyClosed, cancelFn, cancelled, stream, inbox>>

\* Mutant: one attempt too many.
OneMoreAttempt == rec.attempt <= MaxAttempts

AttemptsLeft == rec.attempt < MaxAttempts

\* What an attempt that did not succeed leaves: its context cancelled.
AttemptCancelled == {rec.conn} \ {NoConn}

\* The dial fails, or no endpoint event comes in time: another attempt or an error.
\* With every connection used the server is down and the dial fails at once.
AttemptFails ==
    /\ \/ rec.pc = "dial" /\ Unused = {}
       \/ rec.pc \in {"dialing", "await"}
    /\ cancelled' = cancelled \cup AttemptCancelled
    /\ stream' = IF rec.pc = "dialing" THEN [stream EXCEPT ![rec.conn] = "ended"] ELSE stream
    /\ \/ /\ AttemptsLeft
          /\ rec' = [rec EXCEPT !.pc = "dial", !.attempt = @ + 1, !.conn = NoConn]
          /\ UNCHANGED <<client, closed, pending, sending, callVars, reader, line>>
       \/ ~AttemptsLeft /\ ReconnectReturns(FALSE)
    /\ UNCHANGED <<messageURL, ready, readyClosed, cancelFn, inbox>>

-----------------------------------------------------------------------------
Start == StartDial \/ StartConnected \/ StartDialFails \/ StartReady \/ StartTimeout

SendStep(r) ==
    \/ Register(r) \/ GetMessageURL(r) \/ PostAccepted(r) \/ PostRejected(r)
    \/ Receive(r) \/ WaitTimeout(r) \/ Cleanup(r)

ReaderStep(k) ==
    \/ Scan(k) \/ ReaderReturns(k) \/ ReaderDropped(k)
    \/ SetMessageURL(k) \/ SignalReady(k) \/ Deliver(k)

Reconnect ==
    \/ ReconnectCheck \/ ReconnectTeardown \/ ReconnectDial
    \/ ReconnectConnected \/ ReconnectReady \/ AttemptFails

Next ==
    \/ Start \/ ConnectStep \/ Close \/ Reconnect
    \/ \E r \in Requests : Send(r) \/ SendStep(r)
    \/ \E k \in Conns : ReaderStep(k) \/ StreamEnds(k)
    \/ \E o \in Requests \cup Conns : ReconnectLock(o)

Spec == Init /\ [][Next]_vars

\* What the program owes: while a goroutine can run or a timeout is due, some
\* such step happens.  The server, the agents and CloseAll owe nothing.
Progress ==
    \/ Start \/ ConnectStep \/ Reconnect
    \/ \E r \in Requests : SendStep(r)
    \/ \E k \in Conns : ReaderStep(k)
    \/ \E o \in Requests \cup Conns : ReconnectLock(o)

FairSpec == Spec /\ WF_vars(Progress)

-----------------------------------------------------------------------------
(* Properties.                                                              *)

InFlight == {r \in Requests : call[r] \notin {"idle", "ok", "nil", "failed"}}

Live == {k \in Conns : stream[k] \in {"dialing", "open"} /\ k \notin cancelled}

\* reconnect tears the old connection down before it opens another, whichever
\* readers and requests ask for one, and whatever attempts failed before: the
\* transport never keeps two connections it has not cancelled, not even across
\* a Close that runs in the middle of a reconnect.
OneLiveConnection == \A j, k \in Live : j = k

\* Send sends a request again only after an error that mentions a session, not
\* after a timeout, a lost reply or a dropped stream: the server runs a tool
\* call a second time only if, having run it, it answered with such an error.
\* And a call that returns a response was run.
RunAgainOnlyIfRefused ==
    \A r \in Requests :
        /\ executed[r] > 1 => r \in misled
        /\ call[r] = "ok" => executed[r] >= 1

\* Close takes every channel it closes out of t.pending in the same section:
\* handleSSEData never sends on a closed channel, no request gets in after it,
\* and one that registered before it, wherever it is in doSend, finds its
\* channel closed or its response there: none sits out the timeout.
CloseSettlesPending ==
    /\ \A r \in pending : chan[r] # "closed"
    /\ closed =>
         /\ pending = {}
         /\ \A r \in Requests :
              call[r] \in {"url", "post", "wait"} => chan[r] \in {"closed", "full"}

\* Every Send returns: readers that deliver under t.mu, deferred deletes that
\* need t.mu, and reconnects queued on reconnectMu never wait on one another.
EverySendReturns == (InFlight # {}) ~> (InFlight = {})
=============================================================================
