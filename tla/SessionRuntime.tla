--------------------------- MODULE SessionRuntime ---------------------------
(***************************************************************************)
(* One chat session of the engine: the SessionRegistry that holds its      *)
(* queue and its subscribers, the Processor whose background loop runs one *)
(* turn per queued message, and the Chat calls of the HTTP adapter that    *)
(* create the session, stream a turn to the client and tear the session    *)
(* down again.  All chats modelled use the same session id; sessions of    *)
(* different ids share no state.                                           *)
(*                                                                         *)
(* A chat sends one message, creates at most one sessionEntry and starts   *)
(* at most one processing loop, so messages, entries and loops are all     *)
(* named after the chat: entry c is the sessionEntry created by chat c,    *)
(* loop c the goroutine started by chat c.                                 *)
(*                                                                         *)
(* One step is what the code does under one lock, or between two channel   *)
(* operations.  What a turn does inside (LLM, tools) is external: it       *)
(* publishes events, may ask for a confirmation, and returns.              *)
(***************************************************************************)
EXTENDS Integers, Sequences

CONSTANTS
    Chats,              \* calls of Chat with this session id
    SubscriberBuffer,   \* subscriberBuffer (64)
    QueueCap,           \* capacity of messageCh (32)
    SSEBuffer,          \* capacity of sseCh (64)
    TurnEvents,         \* bound: events a turn publishes while it executes
    ClientPolicy        \* when a client sends: see MayBegin

None == "none"
ASSUME ChatsAssumption == None \notin Chats
ASSUME CapsAssumption ==
    /\ SubscriberBuffer \in Nat \ {0}
    /\ QueueCap \in Nat \ {0}
    /\ SSEBuffer \in Nat \ {0}
    /\ TurnEvents \in Nat
ASSUME PolicyAssumption == ClientPolicy \in {"waitEOF", "waitDone", "any"}

VARIABLES
    \* SessionRegistry
    sessions,       \* r.sessions[sid]: an entry, or None
    queue,          \* queue[e]: messageCh
    subscribers,    \* subscribers[e]: the chats subscribed to entry e
    askReplies,     \* askReplies[e]: the loops waiting for a reply
    turnCancelFn,   \* turnCancelFn[e]: the loop whose turn Cancel cancels
    cancelled,      \* cancelled[e]
    \* Channels
    eventCh,        \* eventCh[c]: what chat c has been sent and not received
    eventChClosed,  \* eventChClosed[c]
    replyCh,        \* replyCh[l]: "empty", the reply, or "closed"
    replying,       \* replying[l]: a reply about to be sent to replyCh[l]
    \* Processor
    active,         \* p.active[sid]: the loop registered, or None
    turnsActive,    \* p.turnsActive[sid]
    loopPc,         \* loopPc[l]: where the loop is
    loopCh,         \* loopCh[l]: the entry whose messageCh the loop reads
    loopMsg,        \* loopMsg[l]: the message of the turn
    loopCancelled,  \* loopCancelled[l]: procCtx is done
    turnCancelled,  \* turnCancelled[l]: turnCtx was cancelled by Cancel
    eventsLeft,     \* eventsLeft[l]: bound on the events of the turn
    poolSession,    \* AgentPool: the loop whose proxy and callback are set
    \* Chat adapter and HTTP client
    chatPc,         \* chatPc[c]: where the Chat call or its goroutine is
    chatEntry,      \* chatEntry[c]: the entry Subscribe looked up
    chatQueue,      \* chatQueue[c]: the entry EnqueueMessage looked up
    sseCh,          \* sseCh[c]
    seen,           \* seen[c]: "done" or the end of the stream, once read
    \* History
    finished,       \* messages whose turn published PROCESSING_STOPPED
    toolRan         \* toolRan[l]: the reply on which a guarded tool ran

registryVars == <<sessions, queue, subscribers, askReplies, turnCancelFn,
                  cancelled>>
channelVars == <<eventCh, eventChClosed, replyCh, replying>>
loopVars == <<loopPc, loopCh, loopMsg, loopCancelled, turnCancelled,
              eventsLeft>>
processorVars == <<active, turnsActive, loopVars, poolSession>>
chatVars == <<chatPc, chatEntry, chatQueue, sseCh, seen>>
historyVars == <<finished, toolRan>>
vars == <<registryVars, channelVars, processorVars, chatVars, historyVars>>

Entries == Chats
Loops == Chats

\* Mutant of ProcessingStarted: the wrong event type.
StartedAsStopped == "done"

\* Event types, grouped by what the chat adapter does with them:
\* USER_MESSAGE and PROCESSING_STARTED are not forwarded, PROCESSING_STOPPED
\* becomes "done" and ends the stream, the others are forwarded.
ProcessingStarted == "started"
Forwarded == {"delta", "ask", "error", "done"}
EventTypes == Forwarded \cup {ProcessingStarted}
Event == [type : EventTypes, msg : Chats]

TypeOK ==
    /\ sessions \in Entries \cup {None}
    /\ queue \in [Entries -> Seq(Chats)]
    /\ subscribers \in [Entries -> SUBSET Chats]
    /\ askReplies \in [Entries -> SUBSET Loops]
    /\ turnCancelFn \in [Entries -> Loops \cup {None}]
    /\ cancelled \in [Entries -> BOOLEAN]
    /\ eventCh \in [Chats -> Seq(Event)]
    /\ \A c \in Chats : Len(eventCh[c]) <= SubscriberBuffer
    /\ eventChClosed \in [Chats -> BOOLEAN]
    /\ replyCh \in [Loops -> {"empty", "yes", "no", "closed"}]
    /\ replying \in [Loops -> {None, "yes", "no"}]
    /\ active \in Loops \cup {None}
    /\ turnsActive \in BOOLEAN
    /\ loopPc \in [Loops -> {"new", "init", "select", "begin", "setup",
                             "aborting", "executing", "confirming",
                             "stopping", "cleanup", "exit", "dead"}]
    /\ loopCh \in [Loops -> Entries \cup {None}]
    /\ loopMsg \in [Loops -> Chats \cup {None}]
    /\ loopCancelled \in [Loops -> BOOLEAN]
    /\ turnCancelled \in [Loops -> BOOLEAN]
    /\ eventsLeft \in [Loops -> 0..TurnEvents]
    /\ poolSession \in Loops \cup {None}
    /\ chatPc \in [Chats -> {"idle", "create", "subscribe", "attach",
                             "enqueue", "send", "start", "stream",
                             "closing", "removing", "closed", "failed"}]
    /\ chatEntry \in [Chats -> Entries \cup {None}]
    /\ chatQueue \in [Chats -> Entries \cup {None}]
    /\ \A c \in Chats : chatPc[c] = "send" => chatQueue[c] # None
    /\ sseCh \in [Chats -> Seq(Forwarded)]
    /\ seen \in [Chats -> SUBSET {"done", "eof"}]
    /\ finished \in SUBSET Chats
    /\ toolRan \in [Loops -> {"no tool", "yes", "closed"}]

Init ==
    /\ sessions = None
    /\ queue = [e \in Entries |-> <<>>]
    /\ subscribers = [e \in Entries |-> {}]
    /\ askReplies = [e \in Entries |-> {}]
    /\ turnCancelFn = [e \in Entries |-> None]
    /\ cancelled = [e \in Entries |-> FALSE]
    /\ eventCh = [c \in Chats |-> <<>>]
    /\ eventChClosed = [c \in Chats |-> FALSE]
    /\ replyCh = [l \in Loops |-> "empty"]
    /\ replying = [l \in Loops |-> None]
    /\ active = None
    /\ turnsActive = FALSE
    /\ loopPc = [l \in Loops |-> "new"]
    /\ loopCh = [l \in Loops |-> None]
    /\ loopMsg = [l \in Loops |-> None]
    /\ loopCancelled = [l \in Loops |-> FALSE]
    /\ turnCancelled = [l \in Loops |-> FALSE]
    /\ eventsLeft = [l \in Loops |-> 0]
    /\ poolSession = None
    /\ chatPc = [c \in Chats |-> "idle"]
    /\ chatEntry = [c \in Chats |-> None]
    /\ chatQueue = [c \in Chats |-> None]
    /\ sseCh = [c \in Chats |-> <<>>]
    /\ seen = [c \in Chats |-> {}]
    /\ finished = {}
    /\ toolRan = [l \in Loops |-> "no tool"]

-----------------------------------------------------------------------------
(* SessionRegistry operations used by several actions. *)

\* Mutant of PublishEvent: the send blocks until it succeeds, so the bound
\* of the channel is not respected.
PublishUnbounded(type, msg) ==
    eventCh' = [c \in Chats |->
        IF sessions # None /\ c \in subscribers[sessions]
          THEN Append(eventCh[c], [type |-> type, msg |-> msg])
          ELSE eventCh[c]]

\* PublishEvent: every subscriber of the current entry gets the event unless
\* its buffer is full, in which case the event is dropped for it.
PublishEvent(type, msg) ==
    eventCh' = [c \in Chats |->
        IF /\ sessions # None
           /\ c \in subscribers[sessions]
           /\ Len(eventCh[c]) < SubscriberBuffer
          THEN Append(eventCh[c], [type |-> type, msg |-> msg])
          ELSE eventCh[c]]

\* StoreTurnCancel looks the session up by id, so it writes to whatever
\* entry is registered now.
StoreTurnCancel(l) ==
    turnCancelFn' = IF sessions = None THEN turnCancelFn
                    ELSE [turnCancelFn EXCEPT ![sessions] = l]

\* ResetCancel, by session id as well.
ResetCancel ==
    cancelled' = IF sessions = None THEN cancelled
                 ELSE [cancelled EXCEPT ![sessions] = FALSE]

\* RegisterAskUser: a fresh reply channel, entered in the current entry.
RegisterAskUser(l) ==
    /\ replyCh' = [replyCh EXCEPT ![l] = "empty"]
    /\ askReplies' = IF sessions = None THEN askReplies
                     ELSE [askReplies EXCEPT ![sessions] = @ \cup {l}]

\* UnregisterAskUser.  The channel is dropped with what it holds and what is
\* on its way to it: nobody reads it again.
UnregisterAskUser(l) ==
    /\ askReplies' = IF sessions = None THEN askReplies
                     ELSE [askReplies EXCEPT ![sessions] = @ \ {l}]
    /\ replyCh' = [replyCh EXCEPT ![l] = "empty"]
    /\ replying' = [replying EXCEPT ![l] = None]

\* Mutant of RemoveSession: the channels are closed but stay subscribed.
RemoveSessionKeepsSubscribers ==
    /\ sessions' = None
    /\ eventChClosed' = [c \in Chats |->
           \/ eventChClosed[c]
           \/ sessions # None /\ c \in subscribers[sessions]]
    /\ UNCHANGED <<subscribers, askReplies, replyCh>>

\* RemoveSession: the entry is deleted, the channels of its subscribers and
\* of the pending questions are closed.  messageCh is not closed.
RemoveSession ==
    IF sessions = None
      THEN UNCHANGED <<sessions, subscribers, askReplies, eventChClosed,
                       replyCh>>
      ELSE /\ sessions' = None
           /\ eventChClosed' = [c \in Chats |->
                  eventChClosed[c] \/ c \in subscribers[sessions]]
           /\ subscribers' = [subscribers EXCEPT ![sessions] = {}]
           /\ replyCh' = [l \in Loops |->
                  IF l \in askReplies[sessions] /\ replyCh[l] = "empty"
                    THEN "closed" ELSE replyCh[l]]
           /\ askReplies' = [askReplies EXCEPT ![sessions] = {}]

-----------------------------------------------------------------------------
(* Chat, in the order of its steps.  The validation that precedes the        *)
(* session (user, schema, entry agent, UUID) changes nothing.                *)

\* When a client may send its message, given the other chats of the session:
\*   waitEOF   after the previous stream was closed,
\*   waitDone  as soon as it has read "done" from the previous stream,
\*   any       whenever it likes.
MayBegin(c) ==
    \/ ClientPolicy = "any"
    \/ \A d \in Chats \ {c} :
          \/ chatPc[d] \in {"idle", "failed"}
          \/ "eof" \in seen[d]
          \/ ClientPolicy = "waitDone" /\ "done" \in seen[d]

\* HasSession, then CreateSession in a step of its own.
ChatBegin(c) ==
    /\ chatPc[c] = "idle"
    /\ MayBegin(c)
    /\ chatPc' = [chatPc EXCEPT ![c] =
                    IF sessions = None THEN "create" ELSE "subscribe"]
    /\ UNCHANGED <<registryVars, channelVars, processorVars, chatEntry,
                   chatQueue, sseCh, seen, historyVars>>

\* CreateSession replaces whatever entry is registered.
CreateSession(c) ==
    /\ chatPc[c] = "create"
    /\ sessions' = c
    /\ chatPc' = [chatPc EXCEPT ![c] = "subscribe"]
    /\ UNCHANGED <<queue, subscribers, askReplies, turnCancelFn, cancelled,
                   channelVars, processorVars, chatEntry, chatQueue, sseCh,
                   seen, historyVars>>

\* Subscribe, first half: the entry is looked up under r.mu.  Without one
\* the caller gets a closed channel.
SubscribeLookup(c) ==
    /\ chatPc[c] = "subscribe"
    /\ chatEntry' = [chatEntry EXCEPT ![c] = sessions]
    /\ \/ /\ sessions = None
          /\ eventChClosed' = [eventChClosed EXCEPT ![c] = TRUE]
          /\ chatPc' = [chatPc EXCEPT ![c] = "enqueue"]
       \/ /\ sessions # None
          /\ chatPc' = [chatPc EXCEPT ![c] = "attach"]
          /\ UNCHANGED eventChClosed
    /\ UNCHANGED <<registryVars, eventCh, replyCh, replying, processorVars,
                   chatQueue, sseCh, seen, historyVars>>

\* Subscribe, second half: the channel is added under entry.mu, to an entry
\* that may have been removed in between.
SubscribeAttach(c) ==
    /\ chatPc[c] = "attach"
    /\ subscribers' = [subscribers EXCEPT ![chatEntry[c]] = @ \cup {c}]
    /\ chatPc' = [chatPc EXCEPT ![c] = "enqueue"]
    /\ UNCHANGED <<sessions, queue, askReplies, turnCancelFn, cancelled,
                   channelVars, processorVars, chatEntry, chatQueue, sseCh,
                   seen, historyVars>>

\* The subscription's cleanup function: it does not close the channel.
Cleanup(c) ==
    subscribers' = [e \in Entries |->
        IF e = chatEntry[c] THEN subscribers[e] \ {c} ELSE subscribers[e]]

\* EnqueueMessage, first half: the entry is looked up under r.mu.
EnqueueLookup(c) ==
    /\ chatPc[c] = "enqueue"
    /\ sessions # None
    /\ chatQueue' = [chatQueue EXCEPT ![c] = sessions]
    /\ chatPc' = [chatPc EXCEPT ![c] = "send"]
    /\ UNCHANGED <<registryVars, channelVars, processorVars, chatEntry, sseCh,
                   seen, historyVars>>

\* EnqueueMessage, second half: the message goes into the queue of that
\* entry, which may have been removed or replaced in between.
EnqueueMessage(c) ==
    /\ chatPc[c] = "send"
    /\ Len(queue[chatQueue[c]]) < QueueCap
    /\ queue' = [queue EXCEPT ![chatQueue[c]] = Append(@, c)]
    /\ chatPc' = [chatPc EXCEPT ![c] = "start"]
    /\ UNCHANGED <<sessions, subscribers, askReplies, turnCancelFn, cancelled,
                   channelVars, processorVars, chatEntry, chatQueue, sseCh,
                   seen, historyVars>>

\* EnqueueMessage fails, for want of a session or of room in its queue: the
\* subscription is undone and Chat returns an error.
EnqueueFails(c) ==
    /\ \/ chatPc[c] = "enqueue" /\ sessions = None
       \/ chatPc[c] = "send" /\ Len(queue[chatQueue[c]]) >= QueueCap
    /\ Cleanup(c)
    /\ chatPc' = [chatPc EXCEPT ![c] = "failed"]
    /\ UNCHANGED <<sessions, queue, askReplies, turnCancelFn, cancelled,
                   channelVars, processorVars, chatEntry, chatQueue, sseCh,
                   seen, historyVars>>

\* StartProcessing: a loop is started unless one is registered.
StartProcessing(c) ==
    /\ chatPc[c] = "start"
    /\ chatPc' = [chatPc EXCEPT ![c] = "stream"]
    /\ IF active # None
         THEN UNCHANGED <<active, loopPc>>
         ELSE /\ active' = c
              /\ loopPc' = [loopPc EXCEPT ![c] = "init"]
    /\ UNCHANGED <<registryVars, channelVars, turnsActive, loopCh, loopMsg,
                   loopCancelled, turnCancelled, eventsLeft, poolSession,
                   chatEntry, chatQueue, sseCh, seen, historyVars>>

\* The goroutine of Chat receives one event.  A forwarded event needs room in
\* sseCh: the send blocks.  After "done" the goroutine returns.
Forward(c) ==
    /\ chatPc[c] = "stream"
    /\ eventCh[c] # <<>>
    /\ LET type == Head(eventCh[c]).type IN
       /\ type \in Forwarded => Len(sseCh[c]) < SSEBuffer
       /\ sseCh' = IF type \in Forwarded
                     THEN [sseCh EXCEPT ![c] = Append(@, type)] ELSE sseCh
       /\ chatPc' = IF type = "done"
                      THEN [chatPc EXCEPT ![c] = "closing"] ELSE chatPc
    /\ eventCh' = [eventCh EXCEPT ![c] = Tail(@)]
    /\ UNCHANGED <<registryVars, eventChClosed, replyCh, replying,
                   processorVars, chatEntry, chatQueue, seen, historyVars>>

\* The event channel was closed and is drained: the range loop ends.
StreamEnds(c) ==
    /\ chatPc[c] = "stream"
    /\ eventCh[c] = <<>> /\ eventChClosed[c]
    /\ chatPc' = [chatPc EXCEPT ![c] = "closing"]
    /\ UNCHANGED <<registryVars, channelVars, processorVars, chatEntry,
                   chatQueue, sseCh, seen, historyVars>>

\* Deferred cleanup() and StopProcessing: the registered loop, whichever
\* chat started it, is cancelled.
StopProcessing(c) ==
    /\ chatPc[c] = "closing"
    /\ Cleanup(c)
    /\ loopCancelled' = [l \in Loops |-> loopCancelled[l] \/ l = active]
    /\ active' = None
    /\ chatPc' = [chatPc EXCEPT ![c] = "removing"]
    /\ UNCHANGED <<sessions, queue, askReplies, turnCancelFn, cancelled,
                   channelVars, turnsActive, loopPc, loopCh, loopMsg,
                   turnCancelled, eventsLeft, poolSession, chatEntry,
                   chatQueue, sseCh, seen, historyVars>>

\* Deferred RemoveSession and close(sseCh).
ChatEnd(c) ==
    /\ chatPc[c] = "removing"
    /\ RemoveSession
    /\ chatPc' = [chatPc EXCEPT ![c] = "closed"]
    /\ UNCHANGED <<queue, turnCancelFn, cancelled, eventCh, replying,
                   processorVars, chatEntry, chatQueue, sseCh, seen,
                   historyVars>>

\* The HTTP handler writes the next event to the client, or returns when
\* sseCh is closed and drained.
ClientRead(c) ==
    /\ \/ /\ sseCh[c] # <<>>
          /\ seen' = [seen EXCEPT ![c] = @ \cup ({Head(sseCh[c])} \cap {"done"})]
          /\ sseCh' = [sseCh EXCEPT ![c] = Tail(@)]
       \/ /\ sseCh[c] = <<>>
          /\ chatPc[c] = "closed" /\ "eof" \notin seen[c]
          /\ seen' = [seen EXCEPT ![c] = @ \cup {"eof"}]
          /\ UNCHANGED sseCh
    /\ UNCHANGED <<registryVars, channelVars, processorVars, chatPc,
                   chatEntry, chatQueue, historyVars>>

-----------------------------------------------------------------------------
(* The processing loop. *)

TurnCtxDone(l) == loopCancelled[l] \/ turnCancelled[l]

\* processMessages fetches messageCh once.  Without a session it gets a
\* closed channel and returns.
LoopInit(l) ==
    /\ loopPc[l] = "init"
    /\ loopCh' = [loopCh EXCEPT ![l] = sessions]
    /\ loopPc' = [loopPc EXCEPT ![l] =
                    IF sessions = None THEN "exit" ELSE "select"]
    /\ UNCHANGED <<registryVars, channelVars, active, turnsActive, loopMsg,
                   loopCancelled, turnCancelled, eventsLeft, poolSession,
                   chatVars, historyVars>>

\* The select takes a message.  It may do so although ctx is done as well:
\* Go chooses among the ready cases at random.
LoopReceive(l) ==
    /\ loopPc[l] = "select"
    /\ queue[loopCh[l]] # <<>>
    /\ loopMsg' = [loopMsg EXCEPT ![l] = Head(queue[loopCh[l]])]
    /\ queue' = [queue EXCEPT ![loopCh[l]] = Tail(@)]
    /\ loopPc' = [loopPc EXCEPT ![l] = "begin"]
    /\ UNCHANGED <<sessions, subscribers, askReplies, turnCancelFn, cancelled,
                   channelVars, active, turnsActive, loopCh, loopCancelled,
                   turnCancelled, eventsLeft, poolSession, chatVars,
                   historyVars>>

\* The select sees ctx.Done().
LoopDone(l) ==
    /\ loopPc[l] = "select"
    /\ loopCancelled[l]
    /\ loopPc' = [loopPc EXCEPT ![l] = "exit"]
    /\ UNCHANGED <<registryVars, channelVars, active, turnsActive, loopCh,
                   loopMsg, loopCancelled, turnCancelled, eventsLeft,
                   poolSession, chatVars, historyVars>>

\* The deferred delete(p.active, sessionID), whoever is registered.
LoopExit(l) ==
    /\ loopPc[l] = "exit"
    /\ active' = None
    /\ loopPc' = [loopPc EXCEPT ![l] = "dead"]
    /\ UNCHANGED <<registryVars, channelVars, turnsActive, loopCh, loopMsg,
                   loopCancelled, turnCancelled, eventsLeft, poolSession,
                   chatVars, historyVars>>

\* processMessage: without a session context the message is dropped.
TurnDropped(l) ==
    /\ loopPc[l] = "begin"
    /\ sessions = None
    /\ loopPc' = [loopPc EXCEPT ![l] = "select"]
    /\ loopMsg' = [loopMsg EXCEPT ![l] = None]
    /\ UNCHANGED <<registryVars, channelVars, active, turnsActive, loopCh,
                   loopCancelled, turnCancelled, eventsLeft, poolSession,
                   chatVars, historyVars>>

\* processMessage: the turn is marked active, USER_MESSAGE and
\* PROCESSING_STARTED are published (as one event: neither is forwarded).
TurnBegin(l) ==
    /\ loopPc[l] = "begin"
    /\ sessions # None
    /\ turnsActive' = TRUE
    /\ PublishEvent(ProcessingStarted, loopMsg[l])
    /\ turnCancelled' = [turnCancelled EXCEPT ![l] = FALSE]
    /\ eventsLeft' = [eventsLeft EXCEPT ![l] = TurnEvents]
    /\ loopPc' = [loopPc EXCEPT ![l] = "setup"]
    /\ UNCHANGED <<registryVars, eventChClosed, replyCh, replying, active,
                   loopCh, loopMsg, loopCancelled, poolSession, chatVars,
                   historyVars>>

\* Mutant of TurnSetupFails: the early return forgets to publish that
\* processing stopped.
TurnSetupReturns(l) ==
    /\ loopPc[l] = "setup"
    /\ PublishEvent("error", loopMsg[l])
    /\ turnsActive' = FALSE
    /\ loopMsg' = [loopMsg EXCEPT ![l] = None]
    /\ loopPc' = [loopPc EXCEPT ![l] = "select"]
    /\ UNCHANGED <<registryVars, eventChClosed, replyCh, replying, active,
                   loopCh, loopCancelled, turnCancelled, eventsLeft,
                   poolSession, chatVars, historyVars>>

\* CreateForSession returns nil: an error is published ...
TurnSetupFails(l) ==
    /\ loopPc[l] = "setup"
    /\ PublishEvent("error", loopMsg[l])
    /\ loopPc' = [loopPc EXCEPT ![l] = "aborting"]
    /\ UNCHANGED <<registryVars, eventChClosed, replyCh, replying, active,
                   turnsActive, loopCh, loopMsg, loopCancelled, turnCancelled,
                   eventsLeft, poolSession, chatVars, historyVars>>

\* ... and then that processing stopped.
TurnAborts(l) ==
    /\ loopPc[l] = "aborting"
    /\ PublishEvent("done", loopMsg[l])
    /\ finished' = finished \cup {loopMsg[l]}
    /\ turnsActive' = FALSE
    /\ loopMsg' = [loopMsg EXCEPT ![l] = None]
    /\ loopPc' = [loopPc EXCEPT ![l] = "select"]
    /\ UNCHANGED <<registryVars, eventChClosed, replyCh, replying, active,
                   loopCh, loopCancelled, turnCancelled, eventsLeft,
                   poolSession, chatVars, toolRan>>

\* The session's proxy and event callback are set on the AgentPool and the
\* turn's cancel function is stored.
TurnSetup(l) ==
    /\ loopPc[l] = "setup"
    /\ poolSession' = l
    /\ StoreTurnCancel(l)
    /\ loopPc' = [loopPc EXCEPT ![l] = "executing"]
    /\ UNCHANGED <<sessions, queue, subscribers, askReplies, cancelled,
                   channelVars, active, turnsActive, loopCh, loopMsg,
                   loopCancelled, turnCancelled, eventsLeft, chatVars,
                   historyVars>>

\* ExecuteTurn publishes an event through its callbacks.
TurnPublishes(l) ==
    /\ loopPc[l] = "executing"
    /\ eventsLeft[l] > 0
    /\ PublishEvent("delta", loopMsg[l])
    /\ eventsLeft' = [eventsLeft EXCEPT ![l] = @ - 1]
    /\ UNCHANGED <<registryVars, eventChClosed, replyCh, replying, active,
                   turnsActive, loopPc, loopCh, loopMsg, loopCancelled,
                   turnCancelled, poolSession, chatVars, historyVars>>

\* RequestConfirmation registers a reply channel and asks the client.  A
\* turn whose context is done calls no more tools.
RequestConfirmation(l) ==
    /\ loopPc[l] = "executing"
    /\ ~TurnCtxDone(l)
    /\ eventsLeft[l] > 0
    /\ RegisterAskUser(l)
    /\ PublishEvent("ask", loopMsg[l])
    /\ eventsLeft' = [eventsLeft EXCEPT ![l] = @ - 1]
    /\ loopPc' = [loopPc EXCEPT ![l] = "confirming"]
    /\ UNCHANGED <<sessions, queue, subscribers, turnCancelFn, cancelled,
                   eventChClosed, replying, active, turnsActive, loopCh,
                   loopMsg, loopCancelled, turnCancelled, poolSession,
                   chatVars, historyVars>>

\* A receive from the reply channel.  Only an explicit refusal denies: the
\* empty string a closed channel yields does not.
ConfirmReceive(l) ==
    /\ loopPc[l] = "confirming"
    /\ replyCh[l] # "empty"
    /\ toolRan' = IF replyCh[l] = "no" THEN toolRan
                  ELSE [toolRan EXCEPT ![l] = replyCh[l]]
    /\ UnregisterAskUser(l)
    /\ loopPc' = [loopPc EXCEPT ![l] = "executing"]
    /\ UNCHANGED <<sessions, queue, subscribers, turnCancelFn, cancelled,
                   eventCh, eventChClosed, active, turnsActive,
                   loopCh, loopMsg, loopCancelled, turnCancelled, eventsLeft,
                   poolSession, chatVars, finished>>

\* askTimeout, or the turn context is done: the tool does not run.
ConfirmGivesUp(l) ==
    /\ loopPc[l] = "confirming"
    /\ UnregisterAskUser(l)
    /\ loopPc' = [loopPc EXCEPT ![l] = "executing"]
    /\ UNCHANGED <<sessions, queue, subscribers, turnCancelFn, cancelled,
                   eventCh, eventChClosed, active, turnsActive,
                   loopCh, loopMsg, loopCancelled, turnCancelled, eventsLeft,
                   poolSession, chatVars, historyVars>>

\* SendAskUserReply, first half: the reply channel is looked up.  An entry
\* that has been removed or replaced since serves as well, when its lookup
\* came first.  Bounds: one reply per question is on its way at a time, and
\* none after the turn has stopped waiting, when nobody reads it.
SendAskUserReply(l, reply) ==
    /\ loopPc[l] = "confirming"
    /\ \E e \in Entries : l \in askReplies[e]
    /\ replying[l] = None
    /\ replying' = [replying EXCEPT ![l] = reply]
    /\ UNCHANGED <<registryVars, eventCh, eventChClosed, replyCh,
                   processorVars, chatVars, historyVars>>

\* SendAskUserReply, second half: the send, with no lock held.  It is dropped
\* when a reply is in the channel already.  When RemoveSession has closed the
\* channel in between, the send panics in the goroutine of its caller, and
\* nothing of the session changes.
ReplyArrives(l) ==
    /\ replying[l] # None
    /\ replyCh' = IF replyCh[l] = "empty"
                    THEN [replyCh EXCEPT ![l] = replying[l]] ELSE replyCh
    /\ replying' = [replying EXCEPT ![l] = None]
    /\ UNCHANGED <<registryVars, eventCh, eventChClosed, processorVars,
                   chatVars, historyVars>>

\* ExecuteTurn returns nil, or an error because turnCtx is done: nothing is
\* published.
TurnReturns(l) ==
    /\ loopPc[l] = "executing"
    /\ ResetCancel
    /\ loopPc' = [loopPc EXCEPT ![l] = "stopping"]
    /\ UNCHANGED <<sessions, queue, subscribers, askReplies, turnCancelFn,
                   channelVars, active, turnsActive, loopCh,
                   loopMsg, loopCancelled, turnCancelled, eventsLeft,
                   poolSession, chatVars, historyVars>>

\* ExecuteTurn returns an error of its own.
TurnFails(l) ==
    /\ loopPc[l] = "executing"
    /\ ~TurnCtxDone(l)
    /\ ResetCancel
    /\ PublishEvent("error", loopMsg[l])
    /\ loopPc' = [loopPc EXCEPT ![l] = "stopping"]
    /\ UNCHANGED <<sessions, queue, subscribers, askReplies, turnCancelFn,
                   eventChClosed, replyCh, replying, active, turnsActive,
                   loopCh, loopMsg, loopCancelled, turnCancelled, eventsLeft,
                   poolSession, chatVars, historyVars>>

\* PublishProcessingStopped.
TurnStops(l) ==
    /\ loopPc[l] = "stopping"
    /\ PublishEvent("done", loopMsg[l])
    /\ finished' = finished \cup {loopMsg[l]}
    /\ loopPc' = [loopPc EXCEPT ![l] = "cleanup"]
    /\ UNCHANGED <<registryVars, eventChClosed, replyCh, replying, active,
                   turnsActive, loopCh, loopMsg, loopCancelled, turnCancelled,
                   eventsLeft, poolSession, chatVars, toolRan>>

\* The deferred calls of processMessage: StoreTurnCancel(nil),
\* AgentPool.RemoveSession, delete(turnsActive).  All go by session id.
TurnCleanup(l) ==
    /\ loopPc[l] = "cleanup"
    /\ StoreTurnCancel(None)
    /\ poolSession' = None
    /\ turnsActive' = FALSE
    /\ loopMsg' = [loopMsg EXCEPT ![l] = None]
    /\ loopPc' = [loopPc EXCEPT ![l] = "select"]
    /\ UNCHANGED <<sessions, queue, subscribers, askReplies, cancelled,
                   channelVars, active, loopCh, loopCancelled, turnCancelled,
                   eventsLeft, chatVars, historyVars>>

\* SessionRegistry.Cancel: the flag is set, the stored cancel function called.
Cancel ==
    /\ sessions # None
    /\ cancelled' = [cancelled EXCEPT ![sessions] = TRUE]
    /\ turnCancelled' = [l \in Loops |->
            turnCancelled[l] \/ l = turnCancelFn[sessions]]
    /\ UNCHANGED <<sessions, queue, subscribers, askReplies, turnCancelFn,
                   channelVars, active, turnsActive, loopPc,
                   loopCh, loopMsg, loopCancelled, eventsLeft, poolSession,
                   chatVars, historyVars>>

-----------------------------------------------------------------------------

ChatStep(c) ==
    \/ CreateSession(c) \/ SubscribeLookup(c) \/ SubscribeAttach(c)
    \/ EnqueueLookup(c) \/ EnqueueMessage(c) \/ EnqueueFails(c)
    \/ StartProcessing(c) \/ Forward(c) \/ StreamEnds(c)
    \/ StopProcessing(c) \/ ChatEnd(c)

LoopStep(l) ==
    \/ LoopInit(l) \/ LoopReceive(l) \/ LoopDone(l) \/ LoopExit(l)
    \/ TurnDropped(l) \/ TurnBegin(l) \/ TurnSetupFails(l) \/ TurnAborts(l)
    \/ TurnSetup(l) \/ TurnPublishes(l) \/ RequestConfirmation(l)
    \/ ConfirmReceive(l) \/ ConfirmGivesUp(l)
    \/ TurnReturns(l) \/ TurnFails(l) \/ TurnStops(l) \/ TurnCleanup(l)

Next ==
    \/ \E c \in Chats : ChatBegin(c) \/ ChatStep(c) \/ ClientRead(c)
    \/ \E l \in Loops : LoopStep(l) \/ ReplyArrives(l)
    \/ \E l \in Loops, reply \in {"yes", "no"} : SendAskUserReply(l, reply)
    \/ Cancel

\* Goroutines that can run are scheduled, the client reads what it is sent,
\* a turn returns.  Nothing makes a client send, reply or cancel.
Fairness ==
    \A c \in Chats :
        /\ WF_vars(ChatStep(c))
        /\ WF_vars(ClientRead(c))
        /\ WF_vars(LoopStep(c))

Spec == Init /\ [][Next]_vars /\ Fairness

-----------------------------------------------------------------------------
(* Properties. *)

\* PublishEvent never sends on a closed channel, which would panic with the
\* entry locked: no entry, removed ones included, keeps a closed channel.
SubscribersOpen ==
    \A e \in Entries : \A c \in subscribers[e] : ~eventChClosed[c]

\* A chat streams its own turn: what waits for it, or reached its client as
\* "done", comes from the turn that processed its message.
StreamIsOwnTurn ==
    \A c \in Chats :
        /\ \A i \in 1..Len(eventCh[c]) : eventCh[c][i].msg = c
        /\ "done" \in seen[c] => c \in finished

\* What chat c has reached in the terms of ChatPromise, and whose events wait
\* to be streamed to it.
PhaseOf(c) ==
    CASE "eof" \in seen[c] -> "ended"
      [] seen[c] = {"done"} -> "delivered"
      [] seen[c] = {} /\ c \in finished -> "answered"
      [] seen[c] = {} /\ c \notin finished /\ chatPc[c] # "idle" -> "open"
      [] OTHER -> "unsent"

\* The messages whose turns events come from.
Messages(events) == [i \in 1..Len(events) |-> events[i].msg]

Promise == INSTANCE ChatPromise
    WITH phase <- [c \in Chats |-> PhaseOf(c)],
         waiting <- [c \in Chats |-> Messages(eventCh[c])]

\* Clients that wait for the end of a stream before they send again are
\* answered one at a time, each by the events of its own turn, by "done" when
\* that turn is over and then by the end: Chat, the loop and the registry
\* implement ChatPromise.
KeepsChatPromise == Promise!Spec

\* An accepted message is answered: the stream delivers "done" and closes.
AcceptedIsAnswered ==
    \A c \in Chats :
        chatPc[c] = "start" ~> {"done", "eof"} \subseteq seen[c]

\* "wraps a tool to require user confirmation before execution": a guarded
\* tool has run only on a reply of the user.
ConfirmedByUser ==
    \A l \in Loops : toolRan[l] # "closed"
=============================================================================
