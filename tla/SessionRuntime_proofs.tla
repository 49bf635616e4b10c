------------------------ MODULE SessionRuntime_proofs ------------------------
(***************************************************************************)
(* Proofs about SessionRuntime, for every set of chats and every capacity: *)
(* no entry keeps a channel that has been closed, every variable keeps its *)
(* type, and, when clients wait for the end of a stream before they send   *)
(* again, a chat streams its own turn and ChatPromise is kept.             *)
(*                                                                         *)
(* The last two need three invariants.  AloneInv: the one chat that has    *)
(* begun and not ended owns the registered session.  MessageInv: a message *)
(* is unsent, in the queue of its own entry, with one loop, or finished,   *)
(* whichever chat that loop was started by and however late it is.         *)
(* StreamInv: what is published meanwhile reaches that chat only.          *)
(* ChatPromise also needs DoneInv: a stream ends on "done" only.           *)
(***************************************************************************)
EXTENDS SessionRuntime, SequenceTheorems, TLAPS

\* The steps of Chat before its channel is subscribed.
Unsubscribed == {"idle", "create", "subscribe", "attach"}

\* What the argument needs of the types.
SubType ==
    /\ sessions \in Entries \cup {None}
    /\ subscribers \in [Entries -> SUBSET Chats]
    /\ eventChClosed \in [Chats -> BOOLEAN]
    /\ chatPc \in [Chats -> {"idle", "create", "subscribe", "attach",
                             "enqueue", "send", "start", "stream",
                             "closing", "removing", "closed", "failed"}]
    /\ chatEntry \in [Chats -> Entries \cup {None}]

\* A chat between the two halves of Subscribe has found an entry.
AttachHasEntry ==
    \A c \in Chats : chatPc[c] = "attach" => chatEntry[c] \in Entries

\* A chat is subscribed only to the entry it looked up, and only once it
\* has attached.
SubscribedToOwnEntry ==
    \A e \in Entries : \A c \in subscribers[e] :
        chatEntry[c] = e /\ chatPc[c] \notin Unsubscribed

\* A channel is not closed before its chat has subscribed.
ClosedAfterSubscribe ==
    \A c \in Chats : eventChClosed[c] => chatPc[c] \notin Unsubscribed

\* The inductive invariant.
SubInv ==
    /\ SubType
    /\ AttachHasEntry
    /\ SubscribedToOwnEntry
    /\ ClosedAfterSubscribe
    /\ SubscribersOpen

\* The variables the invariant is about.
subVars == <<sessions, subscribers, eventChClosed, chatPc, chatEntry>>

\* The initial state satisfies the invariant.
LEMMA InitSubInv == Init => SubInv
<1> SUFFICES ASSUME Init PROVE SubInv
  OBVIOUS
<1>1. SubType
  BY DEF Init, SubType
<1>2. AttachHasEntry
  BY DEF Init, AttachHasEntry
<1>3. SubscribedToOwnEntry /\ SubscribersOpen
  BY DEF Init, SubscribedToOwnEntry, SubscribersOpen
<1>4. ClosedAfterSubscribe
  BY DEF Init, ClosedAfterSubscribe
<1> QED
  BY <1>1, <1>2, <1>3, <1>4 DEF SubInv

\* A step that leaves those variables alone preserves it.
LEMMA UnchangedSubInv == ASSUME SubInv, UNCHANGED subVars PROVE SubInv'
BY DEF SubInv, SubType, AttachHasEntry, SubscribedToOwnEntry,
       ClosedAfterSubscribe, SubscribersOpen, subVars

\* A chat that moves on, past its subscription or not past it, and touches
\* nothing else, preserves the invariant.
LEMMA ChatMovesSubInv ==
    ASSUME SubInv, NEW c \in Chats,
           NEW pc \in {"idle", "create", "subscribe", "enqueue", "send",
                       "start", "stream", "closing", "removing", "closed",
                       "failed"},
           chatPc' = [chatPc EXCEPT ![c] = pc],
           pc \in Unsubscribed => chatPc[c] \in {"idle", "create", "subscribe"},
           sessions' \in Entries \cup {None},
           UNCHANGED <<subscribers, eventChClosed, chatEntry>>
    PROVE  SubInv'
<1>1. SubType'
  BY DEF SubInv, SubType
<1>2. AttachHasEntry'
  BY DEF SubInv, SubType, AttachHasEntry
<1>3. SubscribedToOwnEntry'
  BY DEF SubInv, SubType, SubscribedToOwnEntry, Unsubscribed
<1>4. ClosedAfterSubscribe'
  BY DEF SubInv, SubType, ClosedAfterSubscribe, Unsubscribed
<1>5. SubscribersOpen'
  BY DEF SubInv, SubscribersOpen
<1> QED
  BY <1>1, <1>2, <1>3, <1>4, <1>5 DEF SubInv

\* Unsubscribing a chat that moves on preserves the invariant.
LEMMA CleanupSubInv ==
    ASSUME SubInv, NEW c \in Chats, Cleanup(c),
           NEW pc \in {"removing", "failed"},
           chatPc' = [chatPc EXCEPT ![c] = pc],
           UNCHANGED <<sessions, eventChClosed, chatEntry>>
    PROVE  SubInv'
<1>1. /\ subscribers' \in [Entries -> SUBSET Chats]
      /\ \A e \in Entries : subscribers'[e] \subseteq subscribers[e]
  BY DEF SubInv, SubType, Cleanup
<1>2. SubType'
  BY <1>1 DEF SubInv, SubType
<1>3. AttachHasEntry'
  BY DEF SubInv, SubType, AttachHasEntry
<1>4. SubscribedToOwnEntry'
  BY <1>1 DEF SubInv, SubType, SubscribedToOwnEntry, Unsubscribed
<1>5. ClosedAfterSubscribe'
  BY DEF SubInv, SubType, ClosedAfterSubscribe, Unsubscribed
<1>6. SubscribersOpen'
  BY <1>1 DEF SubInv, SubscribersOpen
<1> QED
  BY <1>2, <1>3, <1>4, <1>5, <1>6 DEF SubInv

\* Looking the entry up preserves it: the chat is not subscribed yet, so a
\* closed channel handed to it is in no entry.
LEMMA LookupSubInv ==
    ASSUME SubInv, NEW c \in Chats, SubscribeLookup(c)
    PROVE  SubInv'
<1>1. /\ chatPc[c] = "subscribe"
      /\ chatEntry' = [chatEntry EXCEPT ![c] = sessions]
      /\ UNCHANGED <<sessions, subscribers>>
  BY DEF SubscribeLookup, registryVars
<1>2. \A e \in Entries : c \notin subscribers[e]
  BY <1>1 DEF SubInv, SubscribedToOwnEntry, Unsubscribed
<1>3. CASE /\ sessions = None
           /\ eventChClosed' = [eventChClosed EXCEPT ![c] = TRUE]
           /\ chatPc' = [chatPc EXCEPT ![c] = "enqueue"]
  <2>1. SubType'
    BY <1>1, <1>3 DEF SubInv, SubType
  <2>2. AttachHasEntry'
    BY <1>1, <1>3 DEF SubInv, SubType, AttachHasEntry
  <2>3. SubscribedToOwnEntry'
    BY <1>1, <1>2, <1>3 DEF SubInv, SubType, SubscribedToOwnEntry
  <2>4. ClosedAfterSubscribe'
    BY <1>1, <1>3 DEF SubInv, SubType, ClosedAfterSubscribe, Unsubscribed
  <2>5. SubscribersOpen'
    BY <1>1, <1>2, <1>3 DEF SubInv, SubType, SubscribersOpen
  <2> QED
    BY <2>1, <2>2, <2>3, <2>4, <2>5 DEF SubInv
<1>4. CASE /\ sessions # None
           /\ chatPc' = [chatPc EXCEPT ![c] = "attach"]
           /\ UNCHANGED eventChClosed
  <2>1. SubType'
    BY <1>1, <1>4 DEF SubInv, SubType
  <2>2. AttachHasEntry'
    BY <1>1, <1>4 DEF SubInv, SubType, AttachHasEntry
  <2>3. SubscribedToOwnEntry'
    BY <1>1, <1>2, <1>4 DEF SubInv, SubType, SubscribedToOwnEntry
  <2>4. ClosedAfterSubscribe'
    BY <1>1, <1>4 DEF SubInv, SubType, ClosedAfterSubscribe, Unsubscribed
  <2>5. SubscribersOpen'
    BY <1>1, <1>4 DEF SubInv, SubscribersOpen
  <2> QED
    BY <2>1, <2>2, <2>3, <2>4, <2>5 DEF SubInv
<1> QED
  BY <1>3, <1>4 DEF SubscribeLookup

\* Attaching preserves it: the channel of an unsubscribed chat is open.
LEMMA AttachSubInv ==
    ASSUME SubInv, NEW c \in Chats, SubscribeAttach(c)
    PROVE  SubInv'
<1>1. /\ chatPc[c] = "attach"
      /\ subscribers' = [subscribers EXCEPT ![chatEntry[c]] = @ \cup {c}]
      /\ chatPc' = [chatPc EXCEPT ![c] = "enqueue"]
      /\ UNCHANGED <<sessions, eventChClosed, chatEntry>>
  BY DEF SubscribeAttach, channelVars
<1>2. chatEntry[c] \in Entries /\ ~eventChClosed[c]
  BY <1>1 DEF SubInv, SubType, AttachHasEntry, ClosedAfterSubscribe,
              Unsubscribed
<1>3. SubType'
  BY <1>1, <1>2 DEF SubInv, SubType
<1>4. AttachHasEntry'
  BY <1>1 DEF SubInv, SubType, AttachHasEntry
<1>5. SubscribedToOwnEntry'
  BY <1>1, <1>2 DEF SubInv, SubType, SubscribedToOwnEntry, Unsubscribed
<1>6. ClosedAfterSubscribe'
  BY <1>1 DEF SubInv, SubType, ClosedAfterSubscribe, Unsubscribed
<1>7. SubscribersOpen'
  BY <1>1, <1>2 DEF SubInv, SubType, SubscribersOpen
<1> QED
  BY <1>3, <1>4, <1>5, <1>6, <1>7 DEF SubInv

\* Removing the session preserves it: a channel it closes was subscribed to
\* that entry only, and is no longer.
LEMMA ChatEndSubInv ==
    ASSUME SubInv, NEW c \in Chats, ChatEnd(c)
    PROVE  SubInv'
<1>1. /\ chatPc[c] = "removing"
      /\ chatPc' = [chatPc EXCEPT ![c] = "closed"]
      /\ UNCHANGED chatEntry
      /\ RemoveSession
  BY DEF ChatEnd
<1>2. CASE sessions = None
  <2>1. UNCHANGED <<sessions, subscribers, eventChClosed>>
    BY <1>1, <1>2 DEF RemoveSession
  <2>2. sessions' \in Entries \cup {None}
    BY <2>1 DEF SubInv, SubType
  <2> QED
    BY <1>1, <2>1, <2>2, ChatMovesSubInv DEF Unsubscribed
<1>3. CASE sessions # None
  <2>1. /\ sessions' = None
        /\ eventChClosed' = [d \in Chats |->
                eventChClosed[d] \/ d \in subscribers[sessions]]
        /\ subscribers' = [subscribers EXCEPT ![sessions] = {}]
        /\ sessions \in Entries
    BY <1>1, <1>3 DEF RemoveSession, SubInv, SubType
  <2>2. SubType'
    BY <1>1, <2>1 DEF SubInv, SubType
  <2>3. AttachHasEntry'
    BY <1>1 DEF SubInv, SubType, AttachHasEntry
  <2>4. \A e \in Entries : \A d \in subscribers'[e] :
          d \in subscribers[e] /\ e # sessions
    BY <2>1 DEF SubInv, SubType
  <2>5. SubscribedToOwnEntry'
    BY <1>1, <2>4 DEF SubInv, SubType, SubscribedToOwnEntry, Unsubscribed
  <2>6. ClosedAfterSubscribe'
    BY <1>1, <2>1 DEF SubInv, SubType, ClosedAfterSubscribe,
                      SubscribedToOwnEntry, Unsubscribed
  <2>7. SubscribersOpen'
    <3> SUFFICES ASSUME NEW e \in Entries, NEW d \in subscribers'[e]
                 PROVE  ~eventChClosed'[d]
      BY DEF SubscribersOpen
    <3>1. d \in subscribers[e] /\ e # sessions /\ d \in Chats
      BY <2>4 DEF SubInv, SubType
    <3>2. d \notin subscribers[sessions]
      BY <2>1, <3>1 DEF SubInv, SubscribedToOwnEntry
    <3>3. ~eventChClosed[d]
      BY <3>1 DEF SubInv, SubscribersOpen
    <3> QED
      BY <2>1, <3>1, <3>2, <3>3
  <2> QED
    BY <2>2, <2>3, <2>5, <2>6, <2>7 DEF SubInv
<1> QED
  BY <1>2, <1>3

\* No step of a processing loop touches subscriptions.
LEMMA LoopStepSubVars ==
    ASSUME NEW l \in Loops, LoopStep(l)
    PROVE  UNCHANGED subVars
BY DEF LoopStep, LoopInit, LoopReceive, LoopDone, LoopExit, TurnDropped,
       TurnBegin, TurnSetupFails, TurnAborts, TurnSetup, TurnPublishes,
       RequestConfirmation, ConfirmReceive, ConfirmGivesUp, TurnReturns,
       TurnFails, TurnStops, TurnCleanup, subVars, registryVars, channelVars,
       chatVars

\* Every step of a chat preserves the invariant.
LEMMA ChatStepSubInv ==
    ASSUME SubInv, NEW c \in Chats, ChatBegin(c) \/ ChatStep(c)
    PROVE  SubInv'
<1>0. sessions \in Entries \cup {None}
  BY DEF SubInv, SubType
<1>1. CASE ChatBegin(c)
  BY <1>0, <1>1, ChatMovesSubInv
     DEF ChatBegin, registryVars, channelVars, Unsubscribed
<1>2. CASE CreateSession(c)
  BY <1>2, ChatMovesSubInv DEF CreateSession, channelVars, Unsubscribed, Entries
<1>3. CASE SubscribeLookup(c)
  BY <1>3, LookupSubInv
<1>4. CASE SubscribeAttach(c)
  BY <1>4, AttachSubInv
<1>5. CASE EnqueueMessage(c)
  BY <1>0, <1>5, ChatMovesSubInv DEF EnqueueMessage, channelVars, Unsubscribed
<1>12. CASE EnqueueLookup(c)
  BY <1>0, <1>12, ChatMovesSubInv
     DEF EnqueueLookup, registryVars, channelVars, Unsubscribed
<1>6. CASE EnqueueFails(c)
  BY <1>6, CleanupSubInv DEF EnqueueFails, channelVars
<1>7. CASE StartProcessing(c)
  BY <1>0, <1>7, ChatMovesSubInv
     DEF StartProcessing, registryVars, channelVars, Unsubscribed
<1>8. CASE Forward(c)
  <2>1. UNCHANGED <<sessions, subscribers, eventChClosed, chatEntry>>
    BY <1>8 DEF Forward, registryVars
  <2>2. CASE chatPc' = [chatPc EXCEPT ![c] = "closing"]
    BY <1>0, <2>1, <2>2, ChatMovesSubInv DEF Unsubscribed
  <2>3. CASE chatPc' = chatPc
    BY <2>1, <2>3, UnchangedSubInv DEF subVars
  <2> QED
    BY <1>8, <2>2, <2>3 DEF Forward
<1>9. CASE StreamEnds(c)
  BY <1>0, <1>9, ChatMovesSubInv
     DEF StreamEnds, registryVars, channelVars, Unsubscribed
<1>10. CASE StopProcessing(c)
  BY <1>10, CleanupSubInv DEF StopProcessing, channelVars
<1>11. CASE ChatEnd(c)
  BY <1>11, ChatEndSubInv
<1> QED
  BY <1>1, <1>2, <1>3, <1>4, <1>5, <1>6, <1>7, <1>8, <1>9, <1>10, <1>11,
     <1>12
     DEF ChatStep

\* Every step preserves the invariant.
LEMMA NextSubInv ==
    ASSUME SubInv, [Next]_vars
    PROVE  SubInv'
<1>1. ASSUME NEW c \in Chats, ChatBegin(c) \/ ChatStep(c)
      PROVE  SubInv'
  BY <1>1, ChatStepSubInv
<1>2. ASSUME NEW c \in Chats, ClientRead(c)
      PROVE  SubInv'
  BY <1>2, UnchangedSubInv DEF ClientRead, subVars, registryVars, channelVars
<1>3. ASSUME NEW l \in Loops, LoopStep(l)
      PROVE  SubInv'
  BY <1>3, LoopStepSubVars, UnchangedSubInv
<1>4. ASSUME NEW l \in Loops, NEW reply \in {"yes", "no"},
             SendAskUserReply(l, reply)
      PROVE  SubInv'
  BY <1>4, UnchangedSubInv DEF SendAskUserReply, subVars, registryVars, chatVars
<1>5. CASE Cancel
  BY <1>5, UnchangedSubInv DEF Cancel, subVars, channelVars, chatVars
<1>7. ASSUME NEW l \in Loops, ReplyArrives(l)
      PROVE  SubInv'
  BY <1>7, UnchangedSubInv DEF ReplyArrives, subVars, registryVars, chatVars
<1>6. CASE UNCHANGED vars
  BY <1>6, UnchangedSubInv
     DEF vars, subVars, registryVars, channelVars, chatVars
<1> QED
  BY <1>1, <1>2, <1>3, <1>4, <1>5, <1>6, <1>7 DEF Next

\* PublishEvent can never send on a closed channel: for any number of chats
\* that create, share, replace and remove the session concurrently, no entry
\* holds a subscriber whose channel has been closed.
THEOREM SpecSubscribersOpen == Spec => []SubscribersOpen
<1>1. SubInv /\ [Next]_vars => SubInv'
  BY NextSubInv
<1>2. SubInv => SubscribersOpen
  BY DEF SubInv
<1> QED
  BY InitSubInv, <1>1, <1>2, PTL DEF Spec

-----------------------------------------------------------------------------
(* The types of all variables.                                             *)

\* The steps of a loop while it has a message.
InTurn == {"begin", "setup", "aborting", "executing", "confirming",
           "stopping", "cleanup"}

\* What SubType leaves out of TypeOK.
ChannelType ==
    /\ queue \in [Entries -> Seq(Chats)]
    /\ eventCh \in [Chats -> Seq(Event)]
    /\ \A c \in Chats : Len(eventCh[c]) <= SubscriberBuffer
    /\ sseCh \in [Chats -> Seq(Forwarded)]
    /\ seen \in [Chats -> SUBSET {"done", "eof"}]

ReplyType ==
    /\ askReplies \in [Entries -> SUBSET Loops]
    /\ turnCancelFn \in [Entries -> Loops \cup {None}]
    /\ cancelled \in [Entries -> BOOLEAN]
    /\ replyCh \in [Loops -> {"empty", "yes", "no", "closed"}]
    /\ replying \in [Loops -> {None, "yes", "no"}]
    /\ toolRan \in [Loops -> {"no tool", "yes", "closed"}]
    /\ finished \in SUBSET Chats

LoopType ==
    /\ active \in Loops \cup {None}
    /\ turnsActive \in BOOLEAN
    /\ loopPc \in [Loops -> {"new", "init", "select", "exit", "dead"}
                                \cup InTurn]
    /\ loopCh \in [Loops -> Entries \cup {None}]
    /\ loopMsg \in [Loops -> Chats \cup {None}]
    /\ loopCancelled \in [Loops -> BOOLEAN]
    /\ turnCancelled \in [Loops -> BOOLEAN]
    /\ eventsLeft \in [Loops -> 0..TurnEvents]
    /\ poolSession \in Loops \cup {None}

\* A loop has an entry once it selects, and a message during a turn.
LoopHasMessage ==
    \A l \in Loops :
        /\ loopPc[l] \in {"select"} \cup InTurn => loopCh[l] \in Entries
        /\ loopPc[l] \in InTurn => loopMsg[l] \in Chats

\* A chat that has looked the queue up for its message has found an entry.
SendHasEntry ==
    /\ chatQueue \in [Chats -> Entries \cup {None}]
    /\ \A c \in Chats : chatPc[c] = "send" => chatQueue[c] \in Entries

TypeInv ==
    /\ SubInv
    /\ ChannelType
    /\ ReplyType
    /\ LoopType
    /\ LoopHasMessage
    /\ SendHasEntry

\* A chat about to put its message into a queue was about to before, or has
\* just looked up the entry registered then.
LEMMA SendStep ==
    ASSUME SubInv, SendHasEntry, [Next]_vars
    PROVE  /\ chatQueue' \in [Chats -> Entries \cup {None}]
           /\ \A c \in Chats : chatPc'[c] = "send" =>
                \/ chatPc[c] = "send" /\ chatQueue'[c] = chatQueue[c]
                \/ /\ chatPc[c] = "enqueue" /\ sessions # None
                   /\ chatQueue'[c] = sessions
<1> DEFINE Goal ==
           /\ chatQueue' \in [Chats -> Entries \cup {None}]
           /\ \A c \in Chats : chatPc'[c] = "send" =>
                \/ chatPc[c] = "send" /\ chatQueue'[c] = chatQueue[c]
                \/ /\ chatPc[c] = "enqueue" /\ sessions # None
                   /\ chatQueue'[c] = sessions
<1>1. ASSUME UNCHANGED <<chatQueue, chatPc>> PROVE Goal
  BY <1>1 DEF SendHasEntry
<1>2. ASSUME NEW c \in Chats, NEW pc, pc # "send",
             chatPc' = [chatPc EXCEPT ![c] = pc], UNCHANGED chatQueue
      PROVE  Goal
  BY <1>2 DEF SendHasEntry, SubInv, SubType
<1>3. ASSUME NEW c \in Chats, EnqueueLookup(c) PROVE Goal
  BY <1>3 DEF EnqueueLookup, SendHasEntry, SubInv, SubType
<1>4. ASSUME NEW c \in Chats, ChatBegin(c) PROVE Goal
  BY <1>2, <1>4 DEF ChatBegin
<1>5. ASSUME NEW c \in Chats, ChatStep(c), ~EnqueueLookup(c) PROVE Goal
  <2>1. CASE CreateSession(c) \/ SubscribeAttach(c) \/ EnqueueMessage(c)
             \/ EnqueueFails(c) \/ StartProcessing(c)
    BY <1>2, <2>1 DEF CreateSession, SubscribeAttach, EnqueueMessage,
                      EnqueueFails, StartProcessing
  <2>2. CASE SubscribeLookup(c)
    BY <1>2, <2>2 DEF SubscribeLookup
  <2>3. CASE StreamEnds(c) \/ StopProcessing(c) \/ ChatEnd(c)
    BY <1>2, <2>3 DEF StreamEnds, StopProcessing, ChatEnd
  <2>4. CASE Forward(c)
    BY <1>1, <1>2, <2>4 DEF Forward
  <2> QED
    BY <1>5, <2>1, <2>2, <2>3, <2>4 DEF ChatStep
<1>6. ASSUME NEW c \in Chats, ClientRead(c) PROVE Goal
  BY <1>1, <1>6 DEF ClientRead
<1>7. ASSUME NEW l \in Loops, LoopStep(l) PROVE Goal
  <2>1. UNCHANGED <<chatQueue, chatPc>>
    BY <1>7
       DEF LoopStep, LoopInit, LoopReceive, LoopDone, LoopExit, TurnDropped,
           TurnBegin, TurnSetupFails, TurnAborts, TurnSetup, TurnPublishes,
           RequestConfirmation, ConfirmReceive, ConfirmGivesUp, TurnReturns,
           TurnFails, TurnStops, TurnCleanup, chatVars
  <2> QED
    BY <1>1, <2>1
<1>8. ASSUME \/ \E l \in Loops, reply \in {"yes", "no"} : SendAskUserReply(l, reply)
             \/ \E l \in Loops : ReplyArrives(l)
             \/ Cancel \/ UNCHANGED vars
      PROVE  Goal
  BY <1>1, <1>8 DEF SendAskUserReply, ReplyArrives, Cancel, vars, chatVars
<1> HIDE DEF Goal
<1>9. Goal
  BY <1>3, <1>4, <1>5, <1>6, <1>7, <1>8 DEF Next
<1> QED
  BY <1>9 DEF Goal

\* So it always has found one.
LEMMA NextSendHasEntry ==
    ASSUME SubInv, SendHasEntry, [Next]_vars PROVE SendHasEntry'
BY SendStep DEF SubInv, SubType, SendHasEntry

\* What is published is an event, and a full buffer does not grow.
LEMMA PublishType ==
    ASSUME ChannelType, NEW type \in EventTypes, NEW msg \in Chats,
           PublishEvent(type, msg)
    PROVE  /\ eventCh' \in [Chats -> Seq(Event)]
           /\ \A c \in Chats : Len(eventCh'[c]) <= SubscriberBuffer
<1> DEFINE ev == [type |-> type, msg |-> msg]
<1>1. ev \in Event
  BY DEF Event
<1> HIDE DEF ev
<1>2. ASSUME NEW c \in Chats
      PROVE  /\ Append(eventCh[c], ev) \in Seq(Event)
             /\ Len(Append(eventCh[c], ev)) = Len(eventCh[c]) + 1
             /\ Len(eventCh[c]) \in Nat
  BY <1>1 DEF ChannelType
<1>3. eventCh' = [c \in Chats |->
        IF /\ sessions # None
           /\ c \in subscribers[sessions]
           /\ Len(eventCh[c]) < SubscriberBuffer
          THEN Append(eventCh[c], ev) ELSE eventCh[c]]
  BY DEF PublishEvent, ev
<1>4. ASSUME NEW c \in Chats
      PROVE  eventCh'[c] \in Seq(Event) /\ Len(eventCh'[c]) <= SubscriberBuffer
  <2>1. CASE eventCh'[c] = eventCh[c]
    BY <2>1 DEF ChannelType
  <2>2. CASE /\ eventCh'[c] = Append(eventCh[c], ev)
             /\ Len(eventCh[c]) < SubscriberBuffer
    BY <2>2, <1>2, CapsAssumption
  <2> QED
    BY <1>3, <2>1, <2>2
<1> QED
  BY <1>3, <1>4

\* What a receive takes from a channel and leaves in it.
LEMMA ReceiveFacts ==
    ASSUME NEW S, NEW s \in Seq(S), s # <<>>
    PROVE  /\ Head(s) \in S /\ Tail(s) \in Seq(S)
           /\ Len(s) \in Nat /\ Len(Tail(s)) \in Nat
           /\ Len(Tail(s)) = Len(s) - 1
BY HeadTailProperties, LenProperties

\* Initially every channel is empty and no loop has started.
LEMMA InitTypeInv == Init => TypeInv
<1> SUFFICES ASSUME Init PROVE TypeInv
  OBVIOUS
<1>1. ChannelType
  <2>1. /\ queue = [e \in Entries |-> <<>>]
        /\ eventCh = [c \in Chats |-> <<>>]
        /\ sseCh = [c \in Chats |-> <<>>]
        /\ seen = [c \in Chats |-> {}]
    BY DEF Init
  <2>2. \A c \in Chats : Len(eventCh[c]) <= SubscriberBuffer
    <3>1. \A c \in Chats : eventCh[c] = <<>>
      BY <2>1
    <3>2. Len(<<>>) = 0 /\ 0 <= SubscriberBuffer
      BY CapsAssumption
    <3> QED
      BY <3>1, <3>2
  <2>3. /\ queue \in [Entries -> Seq(Chats)]
        /\ eventCh \in [Chats -> Seq(Event)]
        /\ sseCh \in [Chats -> Seq(Forwarded)]
    BY <2>1
  <2>4. seen \in [Chats -> SUBSET {"done", "eof"}]
    BY <2>1
  <2> QED
    BY <2>2, <2>3, <2>4 DEF ChannelType
<1>2. ReplyType
  BY DEF Init, ReplyType
<1>3. LoopType
  <2>1. /\ turnsActive \in BOOLEAN
        /\ loopCancelled \in [Loops -> BOOLEAN]
        /\ turnCancelled \in [Loops -> BOOLEAN]
    BY Zenon DEF Init
  <2>2. eventsLeft \in [Loops -> 0..TurnEvents]
    <3>1. eventsLeft = [l \in Loops |-> 0]
      BY DEF Init
    <3> QED
      BY <3>1, CapsAssumption
  <2>3. /\ active \in Loops \cup {None}
        /\ loopPc \in [Loops -> {"new", "init", "select", "exit", "dead"}
                                    \cup InTurn]
        /\ loopCh \in [Loops -> Entries \cup {None}]
        /\ loopMsg \in [Loops -> Chats \cup {None}]
        /\ poolSession \in Loops \cup {None}
    BY DEF Init
  <2> QED
    BY <2>1, <2>2, <2>3 DEF LoopType
<1>4. LoopHasMessage
  BY DEF Init, LoopHasMessage, InTurn
<1>5. SendHasEntry
  BY DEF Init, SendHasEntry
<1> QED
  BY <1>1, <1>2, <1>3, <1>4, <1>5, InitSubInv DEF TypeInv

\* The steps of Chat and of its client.
LEMMA ChatType ==
    ASSUME TypeInv, NEW c \in Chats,
           ChatBegin(c) \/ ChatStep(c) \/ ClientRead(c)
    PROVE  ChannelType' /\ ReplyType' /\ LoopType' /\ LoopHasMessage'
<1> USE DEF TypeInv, registryVars, channelVars, loopVars, processorVars,
            chatVars, historyVars
<1>0. sessions \in Entries \cup {None}
  BY DEF SubInv, SubType
<1>1. CASE ChatBegin(c)
  <2>1. ChannelType'
    BY <1>0, <1>1 DEF ChatBegin, ChannelType
  <2>2. ReplyType'
    BY <1>0, <1>1 DEF ChatBegin, ReplyType
  <2>3. LoopType'
    BY <1>0, <1>1 DEF ChatBegin, LoopType
  <2>4. LoopHasMessage'
    BY <1>0, <1>1 DEF ChatBegin, LoopHasMessage, LoopType
  <2> QED
    BY <2>1, <2>2, <2>3, <2>4
<1>2. CASE CreateSession(c)
  <2>1. ChannelType'
    BY <1>0, <1>2 DEF CreateSession, ChannelType
  <2>2. ReplyType'
    BY <1>0, <1>2 DEF CreateSession, ReplyType
  <2>3. LoopType'
    BY <1>0, <1>2 DEF CreateSession, LoopType
  <2>4. LoopHasMessage'
    BY <1>0, <1>2 DEF CreateSession, LoopHasMessage, LoopType
  <2> QED
    BY <2>1, <2>2, <2>3, <2>4
<1>3. CASE SubscribeLookup(c)
  <2>1. ChannelType'
    BY <1>0, <1>3 DEF SubscribeLookup, ChannelType
  <2>2. ReplyType'
    BY <1>0, <1>3 DEF SubscribeLookup, ReplyType
  <2>3. LoopType'
    BY <1>0, <1>3 DEF SubscribeLookup, LoopType
  <2>4. LoopHasMessage'
    BY <1>0, <1>3 DEF SubscribeLookup, LoopHasMessage, LoopType
  <2> QED
    BY <2>1, <2>2, <2>3, <2>4
<1>4. CASE SubscribeAttach(c)
  <2>1. ChannelType'
    BY <1>0, <1>4 DEF SubscribeAttach, ChannelType
  <2>2. ReplyType'
    BY <1>0, <1>4 DEF SubscribeAttach, ReplyType
  <2>3. LoopType'
    BY <1>0, <1>4 DEF SubscribeAttach, LoopType
  <2>4. LoopHasMessage'
    BY <1>0, <1>4 DEF SubscribeAttach, LoopHasMessage, LoopType
  <2> QED
    BY <2>1, <2>2, <2>3, <2>4
<1>5. CASE EnqueueMessage(c)
  <2>0. chatQueue[c] \in Entries
    BY <1>5 DEF EnqueueMessage, SendHasEntry
  <2>1. ChannelType'
    BY <1>5, <2>0 DEF EnqueueMessage, ChannelType, Entries
  <2>2. ReplyType'
    BY <1>5 DEF EnqueueMessage, ReplyType
  <2>3. LoopType'
    BY <1>5 DEF EnqueueMessage, LoopType
  <2>4. LoopHasMessage'
    BY <1>5 DEF EnqueueMessage, LoopHasMessage
  <2> QED
    BY <2>1, <2>2, <2>3, <2>4
<1>6. CASE EnqueueFails(c)
  <2>1. ChannelType'
    BY <1>0, <1>6 DEF EnqueueFails, ChannelType
  <2>2. ReplyType'
    BY <1>0, <1>6 DEF EnqueueFails, ReplyType
  <2>3. LoopType'
    BY <1>0, <1>6 DEF EnqueueFails, LoopType
  <2>4. LoopHasMessage'
    BY <1>0, <1>6 DEF EnqueueFails, LoopHasMessage, LoopType
  <2> QED
    BY <2>1, <2>2, <2>3, <2>4
<1>13. CASE EnqueueLookup(c)
  <2>1. ChannelType'
    BY <1>13 DEF EnqueueLookup, ChannelType
  <2>2. ReplyType'
    BY <1>13 DEF EnqueueLookup, ReplyType
  <2>3. LoopType'
    BY <1>13 DEF EnqueueLookup, LoopType
  <2>4. LoopHasMessage'
    BY <1>13 DEF EnqueueLookup, LoopHasMessage
  <2> QED
    BY <2>1, <2>2, <2>3, <2>4
<1>7. CASE StartProcessing(c)
  <2>1. ChannelType'
    BY <1>0, <1>7 DEF StartProcessing, ChannelType, Loops, InTurn
  <2>2. ReplyType'
    BY <1>0, <1>7 DEF StartProcessing, ReplyType, Loops, InTurn
  <2>3. LoopType'
    BY <1>0, <1>7 DEF StartProcessing, LoopType, Loops, InTurn
  <2>4. LoopHasMessage'
    BY <1>0, <1>7 DEF StartProcessing, LoopHasMessage, Loops, InTurn, LoopType
  <2> QED
    BY <2>1, <2>2, <2>3, <2>4
<1>8. CASE Forward(c)
  <2>1. ChannelType'
    <3>1. eventCh[c] # <<>> /\ eventCh[c] \in Seq(Event)
      BY <1>8 DEF Forward, ChannelType
    <3>2. /\ Head(eventCh[c]) \in Event
          /\ Tail(eventCh[c]) \in Seq(Event)
          /\ Len(eventCh[c]) \in Nat /\ Len(Tail(eventCh[c])) \in Nat
          /\ Len(Tail(eventCh[c])) = Len(eventCh[c]) - 1
      BY <3>1, ReceiveFacts, Zenon
    <3>3. PICK type \in EventTypes :
            /\ sseCh' = IF type \in Forwarded
                         THEN [sseCh EXCEPT ![c] = Append(@, type)] ELSE sseCh
            /\ eventCh' = [eventCh EXCEPT ![c] = Tail(@)]
            /\ queue' = queue /\ seen' = seen
      BY <1>8, <3>2 DEF Forward, Event
    <3>4. sseCh' \in [Chats -> Seq(Forwarded)]
      BY <3>3 DEF ChannelType
    <3>5. /\ eventCh' \in [Chats -> Seq(Event)]
          /\ \A d \in Chats : Len(eventCh'[d]) <= SubscriberBuffer
      BY <3>2, <3>3, CapsAssumption DEF ChannelType
    <3> QED
      BY <3>3, <3>4, <3>5 DEF ChannelType
  <2>2. ReplyType'
    BY <1>0, <1>8 DEF Forward, ReplyType
  <2>3. LoopType'
    BY <1>0, <1>8 DEF Forward, LoopType
  <2>4. LoopHasMessage'
    BY <1>0, <1>8 DEF Forward, LoopHasMessage, LoopType
  <2> QED
    BY <2>1, <2>2, <2>3, <2>4
<1>9. CASE StreamEnds(c)
  <2>1. ChannelType'
    BY <1>0, <1>9 DEF StreamEnds, ChannelType
  <2>2. ReplyType'
    BY <1>0, <1>9 DEF StreamEnds, ReplyType
  <2>3. LoopType'
    BY <1>0, <1>9 DEF StreamEnds, LoopType
  <2>4. LoopHasMessage'
    BY <1>0, <1>9 DEF StreamEnds, LoopHasMessage, LoopType
  <2> QED
    BY <2>1, <2>2, <2>3, <2>4
<1>10. CASE StopProcessing(c)
  <2>1. ChannelType'
    BY <1>0, <1>10 DEF StopProcessing, ChannelType
  <2>2. ReplyType'
    BY <1>0, <1>10 DEF StopProcessing, ReplyType
  <2>3. LoopType'
    BY <1>0, <1>10 DEF StopProcessing, LoopType
  <2>4. LoopHasMessage'
    BY <1>0, <1>10 DEF StopProcessing, LoopHasMessage, LoopType
  <2> QED
    BY <2>1, <2>2, <2>3, <2>4
<1>11. CASE ChatEnd(c)
  <2>1. ChannelType'
    BY <1>0, <1>11 DEF ChatEnd, ChannelType, RemoveSession
  <2>2. ReplyType'
    BY <1>0, <1>11 DEF ChatEnd, ReplyType, RemoveSession
  <2>3. LoopType'
    BY <1>0, <1>11 DEF ChatEnd, LoopType, RemoveSession
  <2>4. LoopHasMessage'
    BY <1>0, <1>11 DEF ChatEnd, LoopHasMessage, RemoveSession, LoopType
  <2> QED
    BY <2>1, <2>2, <2>3, <2>4
<1>12. CASE ClientRead(c)
  <2>1. ChannelType'
    <3>1. UNCHANGED <<queue, eventCh>>
      BY <1>12 DEF ClientRead
    <3>2. CASE /\ sseCh[c] # <<>>
               /\ seen' = [seen EXCEPT ![c] = @ \cup ({Head(sseCh[c])} \cap {"done"})]
               /\ sseCh' = [sseCh EXCEPT ![c] = Tail(@)]
      <4>1. Tail(sseCh[c]) \in Seq(Forwarded)
        BY <3>2, ReceiveFacts DEF ChannelType
      <4> QED
        BY <3>1, <3>2, <4>1 DEF ChannelType
    <3>3. CASE /\ seen' = [seen EXCEPT ![c] = @ \cup {"eof"}]
               /\ sseCh' = sseCh
      BY <3>1, <3>3 DEF ChannelType
    <3> QED
      BY <1>12, <3>2, <3>3 DEF ClientRead
  <2>2. ReplyType'
    BY <1>0, <1>12 DEF ClientRead, ReplyType
  <2>3. LoopType'
    BY <1>0, <1>12 DEF ClientRead, LoopType
  <2>4. LoopHasMessage'
    BY <1>0, <1>12 DEF ClientRead, LoopHasMessage, LoopType
  <2> QED
    BY <2>1, <2>2, <2>3, <2>4
<1> QED
  BY <1>1, <1>2, <1>3, <1>4, <1>5, <1>6, <1>7, <1>8, <1>9, <1>10, <1>11, <1>12,
     <1>13 DEF ChatStep

\* The steps of a loop.
LEMMA LoopStepType ==
    ASSUME TypeInv, NEW l \in Loops, LoopStep(l)
    PROVE  ChannelType' /\ ReplyType' /\ LoopType' /\ LoopHasMessage'
<1> USE DEF TypeInv, registryVars, channelVars, loopVars, processorVars,
            chatVars, historyVars
<1>0. sessions \in Entries \cup {None}
  BY DEF SubInv, SubType
<1>1. CASE LoopInit(l)
  <2>1. ChannelType'
    BY <1>0, <1>1, CapsAssumption DEF LoopInit, ChannelType
  <2>2. ReplyType'
    BY <1>0, <1>1, CapsAssumption DEF LoopInit, ReplyType
  <2>3. LoopType'
    BY <1>0, <1>1, CapsAssumption DEF LoopInit, LoopType, InTurn
  <2>4. LoopHasMessage'
    BY <1>0, <1>1, CapsAssumption DEF LoopInit, LoopHasMessage, LoopType, InTurn
  <2> QED
    BY <2>1, <2>2, <2>3, <2>4
<1>2. CASE LoopReceive(l)
  <2>1. ChannelType'
    BY <1>0, <1>2, CapsAssumption DEF LoopReceive, ChannelType, LoopHasMessage
  <2>2. ReplyType'
    BY <1>0, <1>2, CapsAssumption DEF LoopReceive, ReplyType
  <2>3. LoopType'
    BY <1>0, <1>2, CapsAssumption DEF LoopReceive, LoopType, LoopHasMessage, ChannelType, InTurn
  <2>4. LoopHasMessage'
    BY <1>0, <1>2, CapsAssumption DEF LoopReceive, LoopHasMessage, ChannelType, LoopType, InTurn
  <2> QED
    BY <2>1, <2>2, <2>3, <2>4
<1>3. CASE LoopDone(l)
  <2>1. ChannelType'
    BY <1>0, <1>3, CapsAssumption DEF LoopDone, ChannelType
  <2>2. ReplyType'
    BY <1>0, <1>3, CapsAssumption DEF LoopDone, ReplyType
  <2>3. LoopType'
    BY <1>0, <1>3, CapsAssumption DEF LoopDone, LoopType, InTurn
  <2>4. LoopHasMessage'
    BY <1>0, <1>3, CapsAssumption DEF LoopDone, LoopHasMessage, LoopType, InTurn
  <2> QED
    BY <2>1, <2>2, <2>3, <2>4
<1>4. CASE LoopExit(l)
  <2>1. ChannelType'
    BY <1>0, <1>4, CapsAssumption DEF LoopExit, ChannelType
  <2>2. ReplyType'
    BY <1>0, <1>4, CapsAssumption DEF LoopExit, ReplyType
  <2>3. LoopType'
    BY <1>0, <1>4, CapsAssumption DEF LoopExit, LoopType, InTurn
  <2>4. LoopHasMessage'
    BY <1>0, <1>4, CapsAssumption DEF LoopExit, LoopHasMessage, LoopType, InTurn
  <2> QED
    BY <2>1, <2>2, <2>3, <2>4
<1>5. CASE TurnDropped(l)
  <2>1. ChannelType'
    BY <1>0, <1>5, CapsAssumption DEF TurnDropped, ChannelType
  <2>2. ReplyType'
    BY <1>0, <1>5, CapsAssumption DEF TurnDropped, ReplyType
  <2>3. LoopType'
    BY <1>0, <1>5, CapsAssumption DEF TurnDropped, LoopType, InTurn
  <2>4. LoopHasMessage'
    BY <1>0, <1>5, CapsAssumption DEF TurnDropped, LoopHasMessage, LoopType, InTurn
  <2> QED
    BY <2>1, <2>2, <2>3, <2>4
<1>6. CASE TurnBegin(l)
  <2>1. ChannelType'
    <3>1. loopMsg[l] \in Chats /\ PublishEvent(ProcessingStarted, loopMsg[l])
      BY <1>6 DEF TurnBegin, LoopHasMessage, InTurn
    <3>2. /\ eventCh' \in [Chats -> Seq(Event)]
          /\ \A c \in Chats : Len(eventCh'[c]) <= SubscriberBuffer
      BY <3>1, PublishType DEF EventTypes, Forwarded, ProcessingStarted
    <3> QED
      BY <1>6, <3>2 DEF TurnBegin, ChannelType
  <2>2. ReplyType'
    BY <1>0, <1>6, CapsAssumption DEF TurnBegin, ReplyType
  <2>3. LoopType'
    BY <1>0, <1>6, CapsAssumption DEF TurnBegin, LoopType, InTurn
  <2>4. LoopHasMessage'
    BY <1>0, <1>6, CapsAssumption DEF TurnBegin, LoopHasMessage, LoopType, InTurn
  <2> QED
    BY <2>1, <2>2, <2>3, <2>4
<1>7. CASE TurnSetupFails(l)
  <2>1. ChannelType'
    <3>1. loopMsg[l] \in Chats /\ PublishEvent("error", loopMsg[l])
      BY <1>7 DEF TurnSetupFails, LoopHasMessage, InTurn
    <3>2. /\ eventCh' \in [Chats -> Seq(Event)]
          /\ \A c \in Chats : Len(eventCh'[c]) <= SubscriberBuffer
      BY <3>1, PublishType DEF EventTypes, Forwarded, ProcessingStarted
    <3> QED
      BY <1>7, <3>2 DEF TurnSetupFails, ChannelType
  <2>2. ReplyType'
    BY <1>0, <1>7, CapsAssumption DEF TurnSetupFails, ReplyType
  <2>3. LoopType'
    BY <1>0, <1>7, CapsAssumption DEF TurnSetupFails, LoopType, InTurn
  <2>4. LoopHasMessage'
    BY <1>0, <1>7, CapsAssumption DEF TurnSetupFails, LoopHasMessage, LoopType, InTurn
  <2> QED
    BY <2>1, <2>2, <2>3, <2>4
<1>8. CASE TurnAborts(l)
  <2>1. ChannelType'
    <3>1. loopMsg[l] \in Chats /\ PublishEvent("done", loopMsg[l])
      BY <1>8 DEF TurnAborts, LoopHasMessage, InTurn
    <3>2. /\ eventCh' \in [Chats -> Seq(Event)]
          /\ \A c \in Chats : Len(eventCh'[c]) <= SubscriberBuffer
      BY <3>1, PublishType DEF EventTypes, Forwarded, ProcessingStarted
    <3> QED
      BY <1>8, <3>2 DEF TurnAborts, ChannelType
  <2>2. ReplyType'
    BY <1>0, <1>8, CapsAssumption DEF TurnAborts, ReplyType, LoopHasMessage, InTurn
  <2>3. LoopType'
    BY <1>0, <1>8, CapsAssumption DEF TurnAborts, LoopType, InTurn
  <2>4. LoopHasMessage'
    BY <1>0, <1>8, CapsAssumption DEF TurnAborts, LoopHasMessage, LoopType, InTurn
  <2> QED
    BY <2>1, <2>2, <2>3, <2>4
<1>9. CASE TurnSetup(l)
  <2>1. ChannelType'
    BY <1>0, <1>9, CapsAssumption DEF TurnSetup, ChannelType
  <2>2. ReplyType'
    BY <1>0, <1>9, CapsAssumption DEF TurnSetup, ReplyType, StoreTurnCancel
  <2>3. LoopType'
    BY <1>0, <1>9, CapsAssumption DEF TurnSetup, LoopType, InTurn
  <2>4. LoopHasMessage'
    BY <1>0, <1>9, CapsAssumption DEF TurnSetup, LoopHasMessage, LoopType, InTurn
  <2> QED
    BY <2>1, <2>2, <2>3, <2>4
<1>10. CASE TurnPublishes(l)
  <2>1. ChannelType'
    <3>1. loopMsg[l] \in Chats /\ PublishEvent("delta", loopMsg[l])
      BY <1>10 DEF TurnPublishes, LoopHasMessage, InTurn
    <3>2. /\ eventCh' \in [Chats -> Seq(Event)]
          /\ \A c \in Chats : Len(eventCh'[c]) <= SubscriberBuffer
      BY <3>1, PublishType DEF EventTypes, Forwarded, ProcessingStarted
    <3> QED
      BY <1>10, <3>2 DEF TurnPublishes, ChannelType
  <2>2. ReplyType'
    BY <1>0, <1>10, CapsAssumption DEF TurnPublishes, ReplyType
  <2>3. LoopType'
    BY <1>0, <1>10, CapsAssumption DEF TurnPublishes, LoopType, InTurn
  <2>4. LoopHasMessage'
    BY <1>0, <1>10, CapsAssumption DEF TurnPublishes, LoopHasMessage, LoopType, InTurn
  <2> QED
    BY <2>1, <2>2, <2>3, <2>4
<1>11. CASE RequestConfirmation(l)
  <2>1. ChannelType'
    <3>1. loopMsg[l] \in Chats /\ PublishEvent("ask", loopMsg[l])
      BY <1>11 DEF RequestConfirmation, LoopHasMessage, InTurn
    <3>2. /\ eventCh' \in [Chats -> Seq(Event)]
          /\ \A c \in Chats : Len(eventCh'[c]) <= SubscriberBuffer
      BY <3>1, PublishType DEF EventTypes, Forwarded, ProcessingStarted
    <3> QED
      BY <1>11, <3>2 DEF RequestConfirmation, ChannelType
  <2>2. ReplyType'
    BY <1>0, <1>11, CapsAssumption DEF RequestConfirmation, ReplyType, RegisterAskUser
  <2>3. LoopType'
    BY <1>0, <1>11, CapsAssumption DEF RequestConfirmation, LoopType, InTurn
  <2>4. LoopHasMessage'
    BY <1>0, <1>11, CapsAssumption DEF RequestConfirmation, LoopHasMessage, LoopType, InTurn
  <2> QED
    BY <2>1, <2>2, <2>3, <2>4
<1>12. CASE ConfirmReceive(l)
  <2>1. ChannelType'
    BY <1>0, <1>12, CapsAssumption DEF ConfirmReceive, ChannelType
  <2>2. ReplyType'
    BY <1>0, <1>12, CapsAssumption DEF ConfirmReceive, ReplyType, UnregisterAskUser
  <2>3. LoopType'
    BY <1>0, <1>12, CapsAssumption DEF ConfirmReceive, LoopType, InTurn
  <2>4. LoopHasMessage'
    BY <1>0, <1>12, CapsAssumption DEF ConfirmReceive, LoopHasMessage, LoopType, InTurn
  <2> QED
    BY <2>1, <2>2, <2>3, <2>4
<1>13. CASE ConfirmGivesUp(l)
  <2>1. ChannelType'
    BY <1>0, <1>13, CapsAssumption DEF ConfirmGivesUp, ChannelType
  <2>2. ReplyType'
    BY <1>0, <1>13, CapsAssumption DEF ConfirmGivesUp, ReplyType, UnregisterAskUser
  <2>3. LoopType'
    BY <1>0, <1>13, CapsAssumption DEF ConfirmGivesUp, LoopType, InTurn
  <2>4. LoopHasMessage'
    BY <1>0, <1>13, CapsAssumption DEF ConfirmGivesUp, LoopHasMessage, LoopType, InTurn
  <2> QED
    BY <2>1, <2>2, <2>3, <2>4
<1>14. CASE TurnReturns(l)
  <2>1. ChannelType'
    BY <1>0, <1>14, CapsAssumption DEF TurnReturns, ChannelType
  <2>2. ReplyType'
    BY <1>0, <1>14, CapsAssumption DEF TurnReturns, ReplyType, ResetCancel
  <2>3. LoopType'
    BY <1>0, <1>14, CapsAssumption DEF TurnReturns, LoopType, InTurn
  <2>4. LoopHasMessage'
    BY <1>0, <1>14, CapsAssumption DEF TurnReturns, LoopHasMessage, LoopType, InTurn
  <2> QED
    BY <2>1, <2>2, <2>3, <2>4
<1>15. CASE TurnFails(l)
  <2>1. ChannelType'
    <3>1. loopMsg[l] \in Chats /\ PublishEvent("error", loopMsg[l])
      BY <1>15 DEF TurnFails, LoopHasMessage, InTurn
    <3>2. /\ eventCh' \in [Chats -> Seq(Event)]
          /\ \A c \in Chats : Len(eventCh'[c]) <= SubscriberBuffer
      BY <3>1, PublishType DEF EventTypes, Forwarded, ProcessingStarted
    <3> QED
      BY <1>15, <3>2 DEF TurnFails, ChannelType
  <2>2. ReplyType'
    BY <1>0, <1>15, CapsAssumption DEF TurnFails, ReplyType, ResetCancel
  <2>3. LoopType'
    BY <1>0, <1>15, CapsAssumption DEF TurnFails, LoopType, InTurn
  <2>4. LoopHasMessage'
    BY <1>0, <1>15, CapsAssumption DEF TurnFails, LoopHasMessage, LoopType, InTurn
  <2> QED
    BY <2>1, <2>2, <2>3, <2>4
<1>16. CASE TurnStops(l)
  <2>1. ChannelType'
    <3>1. loopMsg[l] \in Chats /\ PublishEvent("done", loopMsg[l])
      BY <1>16 DEF TurnStops, LoopHasMessage, InTurn
    <3>2. /\ eventCh' \in [Chats -> Seq(Event)]
          /\ \A c \in Chats : Len(eventCh'[c]) <= SubscriberBuffer
      BY <3>1, PublishType DEF EventTypes, Forwarded, ProcessingStarted
    <3> QED
      BY <1>16, <3>2 DEF TurnStops, ChannelType
  <2>2. ReplyType'
    BY <1>0, <1>16, CapsAssumption DEF TurnStops, ReplyType, LoopHasMessage, InTurn
  <2>3. LoopType'
    BY <1>0, <1>16, CapsAssumption DEF TurnStops, LoopType, InTurn
  <2>4. LoopHasMessage'
    BY <1>0, <1>16, CapsAssumption DEF TurnStops, LoopHasMessage, LoopType, InTurn
  <2> QED
    BY <2>1, <2>2, <2>3, <2>4
<1>17. CASE TurnCleanup(l)
  <2>1. ChannelType'
    BY <1>0, <1>17, CapsAssumption DEF TurnCleanup, ChannelType
  <2>2. ReplyType'
    BY <1>0, <1>17, CapsAssumption DEF TurnCleanup, ReplyType, StoreTurnCancel
  <2>3. LoopType'
    BY <1>0, <1>17, CapsAssumption DEF TurnCleanup, LoopType, InTurn
  <2>4. LoopHasMessage'
    BY <1>0, <1>17, CapsAssumption DEF TurnCleanup, LoopHasMessage, LoopType, InTurn
  <2> QED
    BY <2>1, <2>2, <2>3, <2>4
<1> QED
  BY <1>1, <1>2, <1>3, <1>4, <1>5, <1>6, <1>7, <1>8, <1>9, <1>10, <1>11, <1>12, <1>13, <1>14, <1>15, <1>16, <1>17 DEF LoopStep

\* Every step keeps the types.
LEMMA NextTypeInv == TypeInv /\ [Next]_vars => TypeInv'
<1> SUFFICES ASSUME TypeInv, [Next]_vars
             PROVE  ChannelType' /\ ReplyType' /\ LoopType' /\ LoopHasMessage'
  BY NextSubInv, NextSendHasEntry DEF TypeInv
<1> USE DEF TypeInv, registryVars, channelVars, loopVars, processorVars,
            chatVars, historyVars
<1>1. ASSUME NEW l \in Loops, NEW reply \in {"yes", "no"},
             SendAskUserReply(l, reply)
      PROVE  ChannelType' /\ ReplyType' /\ LoopType' /\ LoopHasMessage'
  BY <1>1 DEF SendAskUserReply, ChannelType, ReplyType, LoopType, LoopHasMessage
<1>2. CASE Cancel
  BY <1>2 DEF Cancel, ChannelType, ReplyType, LoopType, LoopHasMessage
<1>3. CASE UNCHANGED vars
  BY <1>3 DEF vars, ChannelType, ReplyType, LoopType, LoopHasMessage
<1>4. ASSUME NEW l \in Loops, ReplyArrives(l)
      PROVE  ChannelType' /\ ReplyType' /\ LoopType' /\ LoopHasMessage'
  BY <1>4 DEF ReplyArrives, ChannelType, ReplyType, LoopType, LoopHasMessage
<1> QED
  BY <1>1, <1>2, <1>3, <1>4, ChatType, LoopStepType DEF Next

\* The types and what they rest on, in every reachable state.
THEOREM SpecTypeInv == Spec => []TypeInv
BY InitTypeInv, NextTypeInv, PTL DEF Spec

\* Every variable of the session keeps its type; in particular no subscriber
\* buffer ever holds more than SubscriberBuffer events.
THEOREM SpecTypeOK == Spec => []TypeOK
<1>1. TypeInv => TypeOK
  BY ChatsAssumption
     DEF TypeInv, SubInv, SubType, ChannelType, ReplyType, LoopType, InTurn,
         SendHasEntry, Entries, TypeOK
<1> QED
  BY <1>1, SpecTypeInv, PTL

-----------------------------------------------------------------------------
(* A client that waits for the end of one stream before it sends again.    *)

\* The steps of Chat while its session exists, those before its message is
\* queued and those after its stream has ended; the steps of a loop between
\* its receive and PROCESSING_STOPPED.
Opened == {"subscribe", "attach", "enqueue", "send", "start", "stream",
           "closing", "removing"}
Unsent == {"idle", "create", "subscribe", "attach", "enqueue", "send"}
Ended == {"closing", "removing", "closed"}
Busy == InTurn \ {"cleanup"}

\* Chat c has begun and its client has not seen the end of its stream.
Live(c) == chatPc[c] # "idle" /\ "eof" \notin seen[c]

\* One chat at a time: it has created the session, subscribed to it and will
\* remove it, and nobody closes its channel before.
AloneInv ==
    /\ \A c, d \in Chats : Live(c) /\ Live(d) => c = d
    /\ \A c \in Chats :
        /\ chatPc[c] # "failed"
        /\ chatPc[c] \in Opened <=> sessions = c
        /\ "eof" \in seen[c] => chatPc[c] = "closed"
        /\ chatPc[c] \notin {"idle", "create", "subscribe"} => chatEntry[c] = c
        /\ eventChClosed[c] => chatPc[c] = "closed"

\* Loop l works on the message of chat c.
WorksOn(l, c) == loopPc[l] \in Busy /\ loopMsg[l] = c

\* The message of a chat is not sent yet, in the queue of its own entry, with
\* one loop, or finished; its stream does not end before that.
MessageInv ==
    /\ \A k, l \in Loops, c \in Chats : WorksOn(k, c) /\ WorksOn(l, c) => k = l
    /\ \A c \in Chats :
        /\ queue[c] \in {<<>>, <<c>>}
        /\ queue[c] # <<>> => c \notin finished /\ \A l \in Loops : ~WorksOn(l, c)
        /\ c \in finished => \A l \in Loops : ~WorksOn(l, c)
        /\ chatPc[c] \in Unsent =>
              queue[c] = <<>> /\ c \notin finished /\ \A l \in Loops : ~WorksOn(l, c)
        /\ chatPc[c] \in Ended => c \in finished

\* What is on its way to a client, or has arrived, is of its own turn.
StreamInv ==
    \A c \in Chats :
        /\ \A i \in 1..Len(eventCh[c]) :
              /\ eventCh[c][i].msg = c
              /\ eventCh[c][i].type = "done" => c \in finished
        /\ \A i \in 1..Len(sseCh[c]) : sseCh[c][i] = "done" => c \in finished
        /\ "done" \in seen[c] => c \in finished

\* A message goes into the queue of the entry its chat has created.
SendsToOwn == \A c \in Chats : chatPc[c] = "send" => chatQueue[c] = c

OwnTurnInv == TypeInv /\ AloneInv /\ MessageInv /\ StreamInv /\ SendsToOwn

\* A step that sends and receives nothing.
LEMMA StreamFrame ==
    ASSUME StreamInv, UNCHANGED <<eventCh, sseCh, seen>>,
           finished \subseteq finished'
    PROVE  StreamInv'
BY DEF StreamInv

\* A step after which no loop works on a message it did not work on before.
LEMMA MessageFrame ==
    ASSUME MessageInv, UNCHANGED <<queue, finished>>,
           \A c \in Chats :
               /\ chatPc'[c] \in Unsent => chatPc[c] \in Unsent
               /\ chatPc'[c] \in Ended => c \in finished
               /\ \A l \in Loops : WorksOn(l, c)' => WorksOn(l, c)
    PROVE  MessageInv'
BY DEF MessageInv

\* While a loop works on the message of a chat, that chat streams and nobody
\* else is subscribed.
LEMMA WorkerIsAlone ==
    ASSUME OwnTurnInv, NEW l \in Loops, NEW c \in Chats, WorksOn(l, c)
    PROVE  sessions = c /\ subscribers[c] \subseteq {c}
<1>1. c \notin finished /\ chatPc[c] \notin Unsent /\ chatPc[c] \notin Ended
  BY DEF OwnTurnInv, MessageInv
<1>2. chatPc[c] \in Opened
  BY <1>1 DEF OwnTurnInv, AloneInv, TypeInv, SubInv, SubType, Unsent, Ended,
              Opened
<1>3. sessions = c
  BY <1>2 DEF OwnTurnInv, AloneInv
<1>4. ASSUME NEW d \in subscribers[c]
      PROVE  d = c
  <2>1. d \in Chats /\ chatEntry[d] = c /\ chatPc[d] \notin Unsubscribed
    BY DEF OwnTurnInv, TypeInv, SubInv, SubType, SubscribedToOwnEntry, Entries
  <2>2. chatEntry[d] = d
    BY <2>1 DEF OwnTurnInv, AloneInv, Unsubscribed
  <2> QED
    BY <2>1, <2>2
<1> QED
  BY <1>3, <1>4

\* What a turn publishes is sent to the chat whose message it works on, if
\* there is room.
LEMMA PublishAppends ==
    ASSUME OwnTurnInv, NEW l \in Loops, NEW c \in Chats, WorksOn(l, c),
           NEW type \in EventTypes, PublishEvent(type, c), NEW d \in Chats
    PROVE  \/ eventCh'[d] = eventCh[d]
           \/ d = c /\ eventCh'[d] = Append(eventCh[d], [type |-> type, msg |-> c])
BY WorkerIsAlone DEF PublishEvent

\* So it keeps the streams in order.
LEMMA PublishOwn ==
    ASSUME OwnTurnInv, NEW l \in Loops, NEW c \in Chats, WorksOn(l, c),
           NEW type \in EventTypes, PublishEvent(type, c),
           UNCHANGED <<sseCh, seen>>, finished \subseteq finished',
           type = "done" => c \in finished'
    PROVE  StreamInv'
<1> DEFINE ev == [type |-> type, msg |-> c]
<1>1. ev \in Event /\ ev.type = type /\ ev.msg = c
  BY DEF Event
<1>2. ASSUME NEW d \in Chats
      PROVE  \/ eventCh'[d] = eventCh[d]
             \/ d = c /\ eventCh'[d] = Append(eventCh[d], ev)
  BY PublishAppends
<1> HIDE DEF ev
<1>3. ASSUME NEW d \in Chats, NEW i \in 1..Len(eventCh'[d])
      PROVE  /\ eventCh'[d][i].msg = d
             /\ eventCh'[d][i].type = "done" => d \in finished'
  <2>1. CASE eventCh'[d] = eventCh[d]
    BY <2>1 DEF OwnTurnInv, StreamInv
  <2>2. CASE d = c /\ eventCh'[d] = Append(eventCh[d], ev)
    <3>1. /\ eventCh[d] \in Seq(Event) /\ Len(eventCh[d]) \in Nat
          /\ Len(eventCh'[d]) = Len(eventCh[d]) + 1
          /\ \A j \in 1..Len(eventCh[d]) : eventCh'[d][j] = eventCh[d][j]
          /\ eventCh'[d][Len(eventCh[d]) + 1] = ev
      BY <1>1, <2>2, AppendProperties, LenProperties
         DEF OwnTurnInv, TypeInv, ChannelType
    <3>2. CASE i = Len(eventCh[d]) + 1
      BY <1>1, <2>2, <3>1, <3>2
    <3>3. CASE i \in 1..Len(eventCh[d])
      BY <3>1, <3>3 DEF OwnTurnInv, StreamInv
    <3> QED
      BY <3>1, <3>2, <3>3
  <2> QED
    BY <1>2, <2>1, <2>2
<1> QED
  BY <1>3 DEF OwnTurnInv, StreamInv

\* A turn that ends is finished, and nobody works on its message any more.
LEMMA FinishMessage ==
    ASSUME OwnTurnInv, NEW l \in Loops, NEW c \in Chats, WorksOn(l, c),
           finished' = finished \cup {c}, UNCHANGED <<queue, chatPc>>,
           loopPc'[l] \notin Busy,
           \A k \in Loops \ {l} : loopPc'[k] = loopPc[k] /\ loopMsg'[k] = loopMsg[k]
    PROVE  MessageInv'
<1>1. \A d \in Chats, k \in Loops : WorksOn(k, d)' => WorksOn(k, d) /\ k # l
  BY DEF WorksOn
<1> QED
  BY <1>1 DEF OwnTurnInv, MessageInv

\* The step of a loop leaves the chats alone.
LEMMA LoopStepAlone ==
    ASSUME OwnTurnInv, NEW l \in Loops, LoopStep(l)
    PROVE  AloneInv' /\ UNCHANGED <<chatPc, sseCh, seen>>
<1>1. UNCHANGED <<sessions, eventChClosed, chatPc, chatEntry>>
  BY LoopStepSubVars DEF subVars
<1>2. UNCHANGED <<seen, sseCh>>
  BY DEF LoopStep, LoopInit, LoopReceive, LoopDone, LoopExit, TurnDropped,
       TurnBegin, TurnSetupFails, TurnAborts, TurnSetup, TurnPublishes,
       RequestConfirmation, ConfirmReceive, ConfirmGivesUp, TurnReturns,
       TurnFails, TurnStops, TurnCleanup, chatVars
<1> QED
  BY <1>1, <1>2 DEF OwnTurnInv, AloneInv, Live

\* A loop that does not end a turn publishes for the message it works on or
\* not at all.
LEMMA LoopPublishes ==
    ASSUME OwnTurnInv, NEW l \in Loops, LoopStep(l), ~TurnAborts(l), ~TurnStops(l)
    PROVE  /\ finished' = finished
           /\ eventCh' # eventCh =>
                \E c \in Chats, type \in EventTypes \ {"done"} :
                    WorksOn(l, c) /\ PublishEvent(type, c)
<1> USE DEF registryVars, channelVars, loopVars, processorVars, chatVars,
            historyVars
<1>1. finished' = finished
  BY DEF LoopStep, LoopInit, LoopReceive, LoopDone, LoopExit, TurnDropped,
         TurnBegin, TurnSetupFails, TurnSetup, TurnPublishes,
         RequestConfirmation, ConfirmReceive, ConfirmGivesUp, TurnReturns,
         TurnFails, TurnCleanup
<1>2. ASSUME eventCh' # eventCh
      PROVE  /\ loopPc[l] \in Busy
             /\ \E type \in EventTypes \ {"done"} : PublishEvent(type, loopMsg[l])
  BY <1>2
     DEF LoopStep, LoopInit, LoopReceive, LoopDone, LoopExit, TurnDropped,
         TurnBegin, TurnSetupFails, TurnSetup, TurnPublishes,
         RequestConfirmation, ConfirmReceive, ConfirmGivesUp, TurnReturns,
         TurnFails, TurnCleanup, Busy, InTurn, EventTypes, Forwarded,
         ProcessingStarted
<1>3. ASSUME eventCh' # eventCh
      PROVE  loopMsg[l] \in Chats /\ WorksOn(l, loopMsg[l])
  BY <1>2, <1>3 DEF OwnTurnInv, TypeInv, LoopHasMessage, WorksOn, Busy
<1> QED
  BY <1>1, <1>2, <1>3

\* A loop works on a message from the queue of its entry, publishes for it
\* and finishes it.
LEMMA LoopStepOwn ==
    ASSUME OwnTurnInv, NEW l \in Loops, LoopStep(l)
    PROVE  MessageInv' /\ StreamInv'
<1>1. UNCHANGED <<chatPc, sseCh, seen>>
  BY LoopStepAlone
<1>2. /\ loopPc[l] \in InTurn => loopMsg[l] \in Chats
      /\ loopPc[l] \in Busy => WorksOn(l, loopMsg[l])
      /\ loopPc[l] = "select" => loopCh[l] \in Chats
  BY DEF OwnTurnInv, TypeInv, LoopHasMessage, WorksOn, Busy, InTurn, Entries
<1> USE DEF registryVars, channelVars, loopVars, processorVars, chatVars,
            historyVars
<1>3. CASE LoopReceive(l)
  <2>1. PICK e \in Chats : e = loopCh[l]
    BY <1>2, <1>3 DEF LoopReceive
  <2>2. queue[e] = <<e>>
    BY <1>3, <2>1 DEF LoopReceive, OwnTurnInv, MessageInv
  <2>3. /\ queue' = [queue EXCEPT ![e] = <<>>]
        /\ loopMsg'[l] = e /\ loopPc'[l] = "begin" /\ loopPc[l] = "select"
        /\ \A k \in Loops \ {l} : loopPc'[k] = loopPc[k] /\ loopMsg'[k] = loopMsg[k]
        /\ UNCHANGED <<eventCh, finished>>
    BY <1>3, <2>1, <2>2
       DEF LoopReceive, OwnTurnInv, TypeInv, LoopType, ChannelType
  <2>4. /\ \A c \in Chats : queue'[c] = IF c = e THEN <<>> ELSE queue[c]
        /\ \A k \in Loops, c \in Chats :
              WorksOn(k, c)' => \/ WorksOn(k, c) /\ k # l
                                \/ k = l /\ c = e
    BY <2>3 DEF WorksOn, OwnTurnInv, TypeInv, ChannelType, Entries
  <2>5. e \notin finished /\ \A k \in Loops : ~WorksOn(k, e)
    BY <2>2 DEF OwnTurnInv, MessageInv
  <2>6. chatPc[e] \notin Unsent
    BY <2>2 DEF OwnTurnInv, MessageInv
  <2>7. MessageInv'
    BY <1>1, <2>3, <2>4, <2>5, <2>6 DEF OwnTurnInv, MessageInv
  <2> QED
    BY <1>1, <2>3, <2>7, StreamFrame DEF OwnTurnInv
<1>4. CASE TurnAborts(l)
  <2>1. PICK c \in Chats : c = loopMsg[l] /\ WorksOn(l, c)
    BY <1>2, <1>4 DEF TurnAborts, Busy, InTurn
  <2>2. /\ PublishEvent("done", c) /\ finished' = finished \cup {c}
        /\ queue' = queue /\ loopPc'[l] = "select"
        /\ \A k \in Loops \ {l} : loopPc'[k] = loopPc[k] /\ loopMsg'[k] = loopMsg[k]
    BY <1>4, <2>1 DEF TurnAborts, OwnTurnInv, TypeInv, LoopType
  <2>3. StreamInv'
    BY <1>1, <2>1, <2>2, PublishOwn DEF EventTypes, Forwarded
  <2>4. MessageInv'
    BY <1>1, <2>1, <2>2, FinishMessage DEF Busy, InTurn
  <2> QED
    BY <2>3, <2>4
<1>5. CASE TurnStops(l)
  <2>1. PICK c \in Chats : c = loopMsg[l] /\ WorksOn(l, c)
    BY <1>2, <1>5 DEF TurnStops, Busy, InTurn
  <2>2. /\ PublishEvent("done", c) /\ finished' = finished \cup {c}
        /\ queue' = queue /\ loopPc'[l] = "cleanup"
        /\ \A k \in Loops \ {l} : loopPc'[k] = loopPc[k] /\ loopMsg'[k] = loopMsg[k]
    BY <1>5, <2>1 DEF TurnStops, OwnTurnInv, TypeInv, LoopType
  <2>3. StreamInv'
    BY <1>1, <2>1, <2>2, PublishOwn DEF EventTypes, Forwarded
  <2>4. MessageInv'
    BY <1>1, <2>1, <2>2, FinishMessage DEF Busy, InTurn
  <2> QED
    BY <2>3, <2>4
<1>6. ASSUME ~LoopReceive(l), ~TurnAborts(l), ~TurnStops(l)
      PROVE  MessageInv'
  <2>1. UNCHANGED <<queue, finished>>
    BY <1>6
       DEF LoopStep, LoopInit, LoopDone, LoopExit, TurnDropped, TurnBegin,
           TurnSetupFails, TurnSetup, TurnPublishes, RequestConfirmation,
           ConfirmReceive, ConfirmGivesUp, TurnReturns, TurnFails, TurnCleanup
  <2>2. \A k \in Loops : loopPc'[k] \in Busy =>
                            loopPc[k] \in Busy /\ loopMsg'[k] = loopMsg[k]
    BY <1>6
       DEF LoopStep, LoopInit, LoopDone, LoopExit, TurnDropped, TurnBegin,
           TurnSetupFails, TurnSetup, TurnPublishes, RequestConfirmation,
           ConfirmReceive, ConfirmGivesUp, TurnReturns, TurnFails,
           TurnCleanup, Busy, InTurn, OwnTurnInv, TypeInv, LoopType
  <2>3. \A c \in Chats : chatPc[c] \in Ended => c \in finished
    BY DEF OwnTurnInv, MessageInv
  <2> QED
    BY <1>1, <2>1, <2>2, <2>3, MessageFrame DEF WorksOn, OwnTurnInv
<1>7. ASSUME ~LoopReceive(l), ~TurnAborts(l), ~TurnStops(l)
      PROVE  StreamInv'
  <2>1. finished' = finished
    BY <1>7, LoopPublishes
  <2>2. CASE eventCh' = eventCh
    BY <1>1, <2>1, <2>2, StreamFrame DEF OwnTurnInv
  <2>3. CASE eventCh' # eventCh
    <3>1. PICK c \in Chats, type \in EventTypes \ {"done"} :
            WorksOn(l, c) /\ PublishEvent(type, c)
      BY <1>7, <2>3, LoopPublishes
    <3> QED
      BY <1>1, <2>1, <3>1, PublishOwn
  <2> QED
    BY <2>2, <2>3
<1> QED
  BY <1>3, <1>4, <1>5, <1>6, <1>7

\* A step of chat c that moves it on and sends, receives and enqueues nothing.
LEMMA ChatMoves ==
    ASSUME OwnTurnInv, NEW c \in Chats, NEW pc,
           chatPc' = [chatPc EXCEPT ![c] = pc],
           pc \in Unsent => chatPc[c] \in Unsent,
           pc \in Ended => c \in finished,
           UNCHANGED <<queue, finished, eventCh, sseCh, seen>>,
           \A l \in Loops, d \in Chats : WorksOn(l, d)' => WorksOn(l, d)
    PROVE  MessageInv' /\ StreamInv'
<1>1. /\ chatPc'[c] = pc
      /\ \A d \in Chats \ {c} : chatPc'[d] = chatPc[d]
  BY DEF OwnTurnInv, TypeInv, SubInv, SubType
<1>2. ASSUME NEW d \in Chats
      PROVE  /\ chatPc'[d] \in Unsent => chatPc[d] \in Unsent
             /\ chatPc'[d] \in Ended => d \in finished
  BY <1>1 DEF OwnTurnInv, MessageInv
<1>3. MessageInv'
  BY <1>2, MessageFrame DEF OwnTurnInv
<1> QED
  BY <1>3, StreamFrame DEF OwnTurnInv

\* A loop and a message that a step does not touch.
LEMMA SameWork ==
    ASSUME UNCHANGED <<loopPc, loopMsg>>
    PROVE  \A l \in Loops, c \in Chats : WorksOn(l, c)' <=> WorksOn(l, c)
BY DEF WorksOn

\* A chat whose session exists has that session to itself.
LEMMA OpenedIsLive ==
    ASSUME OwnTurnInv, NEW c \in Chats, chatPc[c] \in Opened \cup {"create"}
    PROVE  /\ Live(c)
           /\ \A d \in Chats \ {c} : chatPc[d] \in {"idle", "closed"}
           /\ chatPc[c] = "create" => sessions = None
           /\ chatPc[c] # "create" => sessions = c
<1>1. Live(c)
  BY DEF OwnTurnInv, AloneInv, Live, Opened
<1>2. ASSUME NEW d \in Chats \ {c}
      PROVE  chatPc[d] \in {"idle", "closed"}
  BY <1>1 DEF OwnTurnInv, AloneInv, Live
<1>3. ASSUME chatPc[c] = "create"
      PROVE  sessions = None
  <2>1. \A d \in Chats : chatPc[d] \notin Opened
    BY <1>2, <1>3 DEF Opened
  <2> QED
    BY <2>1 DEF OwnTurnInv, AloneInv, TypeInv, SubInv, SubType, Entries
<1> QED
  BY <1>1, <1>2, <1>3 DEF OwnTurnInv, AloneInv

\* The only live chat moves on within its session.
LEMMA AloneMoves ==
    ASSUME OwnTurnInv, NEW c \in Chats, NEW pc \in Opened \ {"subscribe", "attach"},
           chatPc[c] \in Opened \ {"subscribe"},
           chatPc' = [chatPc EXCEPT ![c] = pc],
           UNCHANGED <<sessions, chatEntry, eventChClosed, seen>>
    PROVE  AloneInv'
<1>1. /\ chatPc'[c] = pc
      /\ \A d \in Chats \ {c} : chatPc'[d] = chatPc[d]
  BY DEF OwnTurnInv, TypeInv, SubInv, SubType
<1>2. chatPc[c] # "closed" /\ pc # "closed"
  BY DEF Opened
<1> QED
  BY <1>1, <1>2 DEF OwnTurnInv, AloneInv, Live, Opened

\* With a client that waits, a chat begins when no other is left.
LEMMA ChatBeginOwn ==
    ASSUME ClientPolicy = "waitEOF", OwnTurnInv, NEW c \in Chats, ChatBegin(c)
    PROVE  AloneInv' /\ MessageInv' /\ StreamInv'
<1>1. chatPc[c] = "idle" /\ \A d \in Chats \ {c} : ~Live(d)
  BY DEF ChatBegin, MayBegin, OwnTurnInv, AloneInv, Live
<1>2. \A d \in Chats : chatPc[d] \notin Opened
  BY <1>1 DEF OwnTurnInv, AloneInv, Live, Opened
<1>3. sessions = None
  BY <1>2 DEF OwnTurnInv, AloneInv, TypeInv, SubInv, SubType, Entries
<1>4. /\ chatPc' = [chatPc EXCEPT ![c] = "create"]
      /\ UNCHANGED <<sessions, chatEntry, eventChClosed, seen, queue,
                     finished, eventCh, sseCh, loopPc, loopMsg>>
  BY <1>3 DEF ChatBegin, registryVars, channelVars, processorVars, loopVars,
              historyVars
<1>5. /\ chatPc'[c] = "create"
      /\ \A d \in Chats \ {c} : chatPc'[d] = chatPc[d]
  BY <1>4 DEF OwnTurnInv, TypeInv, SubInv, SubType
<1>6. /\ \A d \in Chats : Live(d)' => d = c
      /\ \A d \in Chats : chatPc'[d] \notin Opened
  BY <1>1, <1>2, <1>4, <1>5 DEF Live, Opened
<1>7. AloneInv'
  BY <1>1, <1>3, <1>4, <1>5, <1>6, ChatsAssumption DEF OwnTurnInv, AloneInv
<1> QED
  BY <1>1, <1>4, <1>7, ChatMoves, SameWork DEF Unsent, Ended

\* It creates the session, which is its own from now on ...
LEMMA CreateSessionOwn ==
    ASSUME OwnTurnInv, NEW c \in Chats, CreateSession(c)
    PROVE  AloneInv' /\ MessageInv' /\ StreamInv'
<1>1. /\ chatPc[c] = "create" /\ sessions' = c
      /\ chatPc' = [chatPc EXCEPT ![c] = "subscribe"]
      /\ UNCHANGED <<chatEntry, eventChClosed, seen, queue,
                     finished, eventCh, sseCh, loopPc, loopMsg>>
  BY DEF CreateSession, channelVars, processorVars, loopVars, historyVars
<1>2. \A d \in Chats \ {c} : chatPc[d] \in {"idle", "closed"}
  BY <1>1, OpenedIsLive
<1>3. /\ chatPc'[c] = "subscribe"
      /\ \A d \in Chats \ {c} : chatPc'[d] = chatPc[d]
  BY <1>1 DEF OwnTurnInv, TypeInv, SubInv, SubType
<1>4. \A d \in Chats : chatPc'[d] \in Opened <=> sessions' = d
  BY <1>1, <1>2, <1>3 DEF Opened
<1>5. AloneInv'
  BY <1>1, <1>3, <1>4 DEF OwnTurnInv, AloneInv, Live
<1> QED
  BY <1>1, <1>5, ChatMoves, SameWork DEF Unsent, Ended

\* ... subscribes to it ...
LEMMA SubscribeOwn ==
    ASSUME OwnTurnInv, NEW c \in Chats, SubscribeLookup(c) \/ SubscribeAttach(c)
    PROVE  AloneInv' /\ MessageInv' /\ StreamInv'
<1> USE DEF registryVars, channelVars, processorVars, loopVars, historyVars
<1>1. CASE SubscribeLookup(c)
  <2>1. sessions = c
    BY <1>1, OpenedIsLive DEF SubscribeLookup, Opened
  <2>2. /\ chatPc[c] = "subscribe" /\ chatEntry' = [chatEntry EXCEPT ![c] = c]
        /\ chatPc' = [chatPc EXCEPT ![c] = "attach"]
        /\ UNCHANGED <<sessions, eventChClosed, seen, queue,
                       finished, eventCh, sseCh, loopPc, loopMsg>>
    BY <1>1, <2>1, ChatsAssumption DEF SubscribeLookup
  <2>3. /\ chatPc'[c] = "attach" /\ chatEntry'[c] = c
        /\ \A d \in Chats \ {c} :
              chatPc'[d] = chatPc[d] /\ chatEntry'[d] = chatEntry[d]
    BY <2>2 DEF OwnTurnInv, TypeInv, SubInv, SubType
  <2>4. AloneInv'
    BY <2>1, <2>2, <2>3 DEF OwnTurnInv, AloneInv, Live, Opened
  <2> QED
    BY <2>2, <2>4, ChatMoves, SameWork DEF Unsent, Ended
<1>2. CASE SubscribeAttach(c)
  <2>1. /\ chatPc[c] = "attach"
        /\ chatPc' = [chatPc EXCEPT ![c] = "enqueue"]
        /\ UNCHANGED <<sessions, chatEntry, eventChClosed, seen, queue,
                       finished, eventCh, sseCh, loopPc, loopMsg>>
    BY <1>2 DEF SubscribeAttach
  <2>2. AloneInv'
    BY <2>1, AloneMoves DEF Opened
  <2> QED
    BY <2>1, <2>2, ChatMoves, SameWork DEF Unsent, Ended
<1> QED
  BY <1>1, <1>2

\* ... and is the first and only one to put a message into its queue.
LEMMA EnqueueOwn ==
    ASSUME OwnTurnInv, NEW c \in Chats, EnqueueMessage(c) \/ EnqueueFails(c)
    PROVE  AloneInv' /\ MessageInv' /\ StreamInv'
<1>1. chatPc[c] \in {"enqueue", "send"}
  BY DEF EnqueueMessage, EnqueueFails
<1>2. sessions = c /\ queue[c] = <<>>
  BY <1>1, OpenedIsLive DEF Opened, OwnTurnInv, MessageInv, Unsent
<1>3. ~EnqueueFails(c)
  <2>1. Len(<<>>) = 0 /\ ~(0 >= QueueCap)
    BY CapsAssumption
  <2> QED
    BY <1>2, <2>1, ChatsAssumption DEF EnqueueFails, OwnTurnInv, SendsToOwn
<1>4. EnqueueMessage(c) /\ chatQueue[c] = c
  BY <1>3 DEF EnqueueMessage, OwnTurnInv, SendsToOwn
<1>5. /\ queue' = [queue EXCEPT ![c] = <<c>>]
      /\ chatPc' = [chatPc EXCEPT ![c] = "start"]
      /\ UNCHANGED <<sessions, chatEntry, eventChClosed, seen, finished,
                     eventCh, sseCh, loopPc, loopMsg>>
  <2>1. Append(<<>>, c) = <<c>>
    OBVIOUS
  <2>2. queue' = [queue EXCEPT ![c] = Append(queue[c], c)]
    BY <1>4 DEF EnqueueMessage
  <2> QED
    BY <1>2, <1>4, <2>1, <2>2
       DEF EnqueueMessage, channelVars, processorVars, loopVars, historyVars
<1>6. AloneInv'
  BY <1>1, <1>5, AloneMoves DEF Opened
<1>7. /\ queue'[c] = <<c>> /\ chatPc'[c] = "start"
      /\ \A d \in Chats \ {c} : queue'[d] = queue[d] /\ chatPc'[d] = chatPc[d]
  BY <1>5 DEF OwnTurnInv, TypeInv, ChannelType, SubInv, SubType, Entries
<1>8. c \notin finished /\ \A l \in Loops : ~WorksOn(l, c)
  BY <1>1 DEF OwnTurnInv, MessageInv, Unsent
<1>9. MessageInv'
  BY <1>5, <1>7, <1>8, SameWork DEF OwnTurnInv, MessageInv, Unsent, Ended
<1> QED
  BY <1>5, <1>6, <1>9, StreamFrame DEF OwnTurnInv

\* Looking the queue up comes first.
LEMMA EnqueueLookupOwn ==
    ASSUME OwnTurnInv, NEW c \in Chats, EnqueueLookup(c)
    PROVE  AloneInv' /\ MessageInv' /\ StreamInv'
<1>1. /\ chatPc[c] = "enqueue"
      /\ chatPc' = [chatPc EXCEPT ![c] = "send"]
      /\ UNCHANGED <<sessions, chatEntry, eventChClosed, seen, queue,
                     finished, eventCh, sseCh, loopPc, loopMsg>>
  BY DEF EnqueueLookup, registryVars, channelVars, processorVars, loopVars,
         historyVars
<1>2. AloneInv'
  BY <1>1, AloneMoves DEF Opened
<1> QED
  BY <1>1, <1>2, ChatMoves, SameWork DEF Unsent, Ended

\* The entry it finds is its own.
LEMMA NextSendsToOwn ==
    ASSUME OwnTurnInv, [Next]_vars PROVE SendsToOwn'
<1>1. \A c \in Chats : chatPc[c] = "enqueue" => sessions = c
  BY DEF OwnTurnInv, AloneInv, Opened
<1> QED
  BY <1>1, SendStep DEF OwnTurnInv, TypeInv, SendsToOwn

\* Starting a loop: a new one has no message yet.
LEMMA StartProcessingOwn ==
    ASSUME OwnTurnInv, NEW c \in Chats, StartProcessing(c)
    PROVE  AloneInv' /\ MessageInv' /\ StreamInv'
<1>1. /\ chatPc[c] = "start"
      /\ chatPc' = [chatPc EXCEPT ![c] = "stream"]
      /\ UNCHANGED <<sessions, chatEntry, eventChClosed, seen, queue,
                     finished, eventCh, sseCh, loopMsg>>
  BY DEF StartProcessing, registryVars, channelVars, historyVars
<1>2. AloneInv'
  BY <1>1, AloneMoves DEF Opened
<1>3. \A l \in Loops : loopPc'[l] \in Busy => loopPc'[l] = loopPc[l]
  BY DEF StartProcessing, OwnTurnInv, TypeInv, LoopType, Loops, Busy, InTurn
<1>4. \A l \in Loops, d \in Chats : WorksOn(l, d)' => WorksOn(l, d)
  BY <1>1, <1>3 DEF WorksOn
<1> QED
  BY <1>1, <1>2, <1>4, ChatMoves DEF Unsent, Ended

\* The stream forwards what is its own, and ends when its turn has finished.
LEMMA ForwardOwn ==
    ASSUME OwnTurnInv, NEW c \in Chats, Forward(c)
    PROVE  AloneInv' /\ MessageInv' /\ StreamInv'
<1>1. /\ eventCh[c] # <<>> /\ eventCh[c] \in Seq(Event)
      /\ sseCh[c] \in Seq(Forwarded)
  BY DEF Forward, OwnTurnInv, TypeInv, ChannelType
<1>2. PICK ev \in Event : ev = eventCh[c][1] /\ ev = Head(eventCh[c])
  BY <1>1, ReceiveFacts
<1>3. /\ chatPc[c] = "stream"
      /\ sseCh' = IF ev.type \in Forwarded
                  THEN [sseCh EXCEPT ![c] = Append(@, ev.type)] ELSE sseCh
      /\ chatPc' = IF ev.type = "done"
                   THEN [chatPc EXCEPT ![c] = "closing"] ELSE chatPc
      /\ eventCh' = [eventCh EXCEPT ![c] = Tail(@)]
      /\ UNCHANGED <<sessions, chatEntry, eventChClosed, seen, queue,
                     finished, loopPc, loopMsg>>
  BY <1>2 DEF Forward, registryVars, processorVars, loopVars, historyVars
<1>4. ev.type = "done" => c \in finished
  <2>1. 1 \in 1..Len(eventCh[c])
    BY <1>1, ReceiveFacts
  <2> QED
    BY <1>2, <2>1 DEF OwnTurnInv, StreamInv
<1>5. AloneInv'
  <2>1. CASE chatPc' = chatPc
    BY <1>3, <2>1 DEF OwnTurnInv, AloneInv, Live
  <2>2. CASE chatPc' = [chatPc EXCEPT ![c] = "closing"]
    BY <1>3, <2>2, AloneMoves DEF Opened
  <2> QED
    BY <1>3, <2>1, <2>2
<1>6. MessageInv'
  <2>1. ASSUME NEW d \in Chats
        PROVE  /\ chatPc'[d] \in Unsent => chatPc[d] \in Unsent
               /\ chatPc'[d] \in Ended => d \in finished
    BY <1>3, <1>4 DEF OwnTurnInv, MessageInv, TypeInv, SubInv, SubType, Unsent
  <2> QED
    BY <1>3, <2>1, SameWork, MessageFrame DEF OwnTurnInv
<1>7. /\ \A d \in Chats \ {c} : eventCh'[d] = eventCh[d] /\ sseCh'[d] = sseCh[d]
      /\ eventCh'[c] = Tail(eventCh[c])
      /\ sseCh'[c] = IF ev.type \in Forwarded
                     THEN Append(sseCh[c], ev.type) ELSE sseCh[c]
  BY <1>3 DEF OwnTurnInv, TypeInv, ChannelType
<1>8. ASSUME NEW i \in 1..Len(eventCh'[c])
      PROVE  /\ eventCh'[c][i].msg = c
             /\ eventCh'[c][i].type = "done" => c \in finished
  <2>1. /\ eventCh'[c][i] = eventCh[c][i + 1]
        /\ i + 1 \in 1..Len(eventCh[c])
    BY <1>1, <1>7, ReceiveFacts, HeadTailProperties
  <2> QED
    BY <2>1 DEF OwnTurnInv, StreamInv
<1>9. ASSUME NEW i \in 1..Len(sseCh'[c]), sseCh'[c][i] = "done"
      PROVE  c \in finished
  <2>1. CASE sseCh'[c] = sseCh[c]
    BY <1>9, <2>1 DEF OwnTurnInv, StreamInv
  <2>2. CASE ev.type \in Forwarded /\ sseCh'[c] = Append(sseCh[c], ev.type)
    <3>1. /\ Len(sseCh[c]) \in Nat
          /\ Len(sseCh'[c]) = Len(sseCh[c]) + 1
          /\ \A j \in 1..Len(sseCh[c]) : sseCh'[c][j] = sseCh[c][j]
          /\ sseCh'[c][Len(sseCh[c]) + 1] = ev.type
      BY <1>1, <2>2, AppendProperties, LenProperties
    <3>2. CASE i = Len(sseCh[c]) + 1
      BY <1>4, <1>9, <3>1, <3>2
    <3>3. CASE i \in 1..Len(sseCh[c])
      BY <1>9, <3>1, <3>3 DEF OwnTurnInv, StreamInv
    <3> QED
      BY <3>1, <3>2, <3>3
  <2> QED
    BY <1>7, <2>1, <2>2
<1>10. StreamInv'
  BY <1>3, <1>7, <1>8, <1>9 DEF OwnTurnInv, StreamInv
<1> QED
  BY <1>5, <1>6, <1>10

\* Nobody closes the channel of a stream under it.
LEMMA StreamEndsOwn ==
    ASSUME OwnTurnInv, NEW c \in Chats
    PROVE  ~StreamEnds(c)
BY DEF StreamEnds, OwnTurnInv, AloneInv

\* The end of a stream, up to the removal of its own session.
LEMMA ChatCloses ==
    ASSUME OwnTurnInv, NEW c \in Chats, StopProcessing(c) \/ ChatEnd(c)
    PROVE  AloneInv' /\ MessageInv' /\ StreamInv'
<1> USE DEF registryVars, channelVars, processorVars, loopVars, historyVars
<1>1. CASE StopProcessing(c)
  <2>1. /\ chatPc[c] = "closing"
        /\ chatPc' = [chatPc EXCEPT ![c] = "removing"]
        /\ UNCHANGED <<sessions, chatEntry, eventChClosed, seen, queue,
                       finished, eventCh, sseCh, loopPc, loopMsg>>
    BY <1>1 DEF StopProcessing
  <2>2. AloneInv'
    BY <2>1, AloneMoves DEF Opened
  <2>3. c \in finished
    BY <2>1 DEF OwnTurnInv, MessageInv, Ended
  <2> QED
    BY <2>1, <2>2, <2>3, ChatMoves, SameWork DEF Unsent, Ended
<1>2. CASE ChatEnd(c)
  <2>1. /\ chatPc[c] = "removing"
        /\ chatPc' = [chatPc EXCEPT ![c] = "closed"]
        /\ UNCHANGED <<chatEntry, seen, queue, finished, eventCh, sseCh,
                       loopPc, loopMsg>>
    BY <1>2 DEF ChatEnd
  <2>2. sessions = c /\ \A d \in Chats \ {c} : chatPc[d] \in {"idle", "closed"}
    BY <2>1, OpenedIsLive DEF Opened
  <2>3. /\ sessions' = None
        /\ eventChClosed' = [d \in Chats |->
               eventChClosed[d] \/ d \in subscribers[c]]
    BY <1>2, <2>2, ChatsAssumption DEF ChatEnd, RemoveSession
  <2>4. \A d \in subscribers[c] : d = c
    <3> SUFFICES ASSUME NEW d \in subscribers[c] PROVE d = c
      OBVIOUS
    <3>1. d \in Chats /\ chatEntry[d] = c /\ chatPc[d] \notin Unsubscribed
      BY DEF OwnTurnInv, TypeInv, SubInv, SubType, SubscribedToOwnEntry, Entries
    <3> QED
      BY <3>1 DEF OwnTurnInv, AloneInv, Unsubscribed
  <2>5. /\ chatPc'[c] = "closed"
        /\ \A d \in Chats \ {c} :
              chatPc'[d] = chatPc[d] /\ (eventChClosed'[d] => eventChClosed[d])
    BY <2>1, <2>3, <2>4 DEF OwnTurnInv, TypeInv, SubInv, SubType
  <2>6. \A d \in Chats : chatPc'[d] \notin Opened /\ sessions' # d
    BY <2>2, <2>3, <2>5, ChatsAssumption DEF Opened
  <2>7. AloneInv'
    <3>1. \A d \in Chats : Live(d)' => Live(d)
      BY <2>1, <2>5 DEF Live
    <3> QED
      BY <2>1, <2>5, <2>6, <3>1 DEF OwnTurnInv, AloneInv
  <2>8. c \in finished
    BY <2>1 DEF OwnTurnInv, MessageInv, Ended
  <2> QED
    BY <2>1, <2>7, <2>8, ChatMoves, SameWork DEF Unsent, Ended
<1> QED
  BY <1>1, <1>2

\* The client reads what the stream was sent, and its end once it is closed.
LEMMA ClientReadOwn ==
    ASSUME OwnTurnInv, NEW c \in Chats, ClientRead(c)
    PROVE  AloneInv' /\ MessageInv' /\ StreamInv'
<1>1. UNCHANGED <<sessions, chatEntry, eventChClosed, chatPc, queue, finished,
                  eventCh, loopPc, loopMsg>>
  BY DEF ClientRead, registryVars, channelVars, processorVars, loopVars,
         historyVars
<1>2. MessageInv'
  <2>1. \A d \in Chats : chatPc[d] \in Ended => d \in finished
    BY DEF OwnTurnInv, MessageInv
  <2> QED
    BY <1>1, <2>1, SameWork, MessageFrame DEF OwnTurnInv
<1>3. CASE /\ sseCh[c] # <<>>
           /\ seen' = [seen EXCEPT ![c] = @ \cup ({Head(sseCh[c])} \cap {"done"})]
           /\ sseCh' = [sseCh EXCEPT ![c] = Tail(@)]
  <2>1. sseCh[c] \in Seq(Forwarded)
    BY DEF OwnTurnInv, TypeInv, ChannelType
  <2>2. /\ Head(sseCh[c]) = sseCh[c][1] /\ 1 \in 1..Len(sseCh[c])
        /\ \A i \in 1..Len(Tail(sseCh[c])) :
              /\ Tail(sseCh[c])[i] = sseCh[c][i + 1]
              /\ i + 1 \in 1..Len(sseCh[c])
    BY <1>3, <2>1, ReceiveFacts, HeadTailProperties
  <2>3. /\ \A d \in Chats \ {c} : seen'[d] = seen[d] /\ sseCh'[d] = sseCh[d]
        /\ sseCh'[c] = Tail(sseCh[c])
        /\ seen'[c] = seen[c] \cup ({Head(sseCh[c])} \cap {"done"})
    BY <1>3 DEF OwnTurnInv, TypeInv, ChannelType
  <2>4. \A d \in Chats : "eof" \in seen'[d] <=> "eof" \in seen[d]
    BY <2>3
  <2>5. AloneInv'
    BY <1>1, <2>4 DEF OwnTurnInv, AloneInv, Live
  <2>6. "done" \in seen'[c] => c \in finished
    BY <2>2, <2>3 DEF OwnTurnInv, StreamInv
  <2>7. \A i \in 1..Len(sseCh'[c]) : sseCh'[c][i] = "done" => c \in finished
    BY <2>2, <2>3 DEF OwnTurnInv, StreamInv
  <2>8. ASSUME NEW d \in Chats \ {c}
        PROVE  /\ \A i \in 1..Len(sseCh'[d]) : sseCh'[d][i] = "done" => d \in finished
               /\ "done" \in seen'[d] => d \in finished
    BY <2>3 DEF OwnTurnInv, StreamInv
  <2>9. \A d \in Chats : \A i \in 1..Len(eventCh[d]) :
           /\ eventCh[d][i].msg = d
           /\ eventCh[d][i].type = "done" => d \in finished
    BY DEF OwnTurnInv, StreamInv
  <2>10. StreamInv'
    BY <1>1, <2>6, <2>7, <2>8, <2>9 DEF StreamInv
  <2> QED
    BY <1>2, <2>5, <2>10
<1>4. CASE /\ chatPc[c] = "closed"
           /\ seen' = [seen EXCEPT ![c] = @ \cup {"eof"}]
           /\ sseCh' = sseCh
  <2>1. /\ \A d \in Chats \ {c} : seen'[d] = seen[d]
        /\ seen'[c] = seen[c] \cup {"eof"}
    BY <1>4 DEF OwnTurnInv, TypeInv, ChannelType
  <2>2. AloneInv'
    BY <1>1, <1>4, <2>1 DEF OwnTurnInv, AloneInv, Live
  <2>3. StreamInv'
    BY <1>1, <1>4, <2>1 DEF OwnTurnInv, StreamInv
  <2> QED
    BY <1>2, <2>2, <2>3
<1> QED
  BY <1>3, <1>4 DEF ClientRead

\* Every step keeps the invariant, when clients wait for the end of a stream.
LEMMA NextOwnTurn ==
    ASSUME ClientPolicy = "waitEOF", OwnTurnInv, [Next]_vars
    PROVE  OwnTurnInv'
<1> SUFFICES AloneInv' /\ MessageInv' /\ StreamInv'
  BY NextTypeInv, NextSendsToOwn DEF OwnTurnInv
<1>1. ASSUME NEW c \in Chats, ChatBegin(c) \/ ChatStep(c) \/ ClientRead(c)
      PROVE  AloneInv' /\ MessageInv' /\ StreamInv'
  BY <1>1, ChatBeginOwn, CreateSessionOwn, SubscribeOwn, EnqueueOwn,
     EnqueueLookupOwn, StartProcessingOwn, ForwardOwn, StreamEndsOwn, ChatCloses, ClientReadOwn
     DEF ChatStep
<1>2. ASSUME NEW l \in Loops, LoopStep(l)
      PROVE  AloneInv' /\ MessageInv' /\ StreamInv'
  BY <1>2, LoopStepAlone, LoopStepOwn
<1>3. ASSUME UNCHANGED <<sessions, chatVars, eventChClosed, queue, finished,
                         eventCh, loopPc, loopMsg>>
      PROVE  AloneInv' /\ MessageInv' /\ StreamInv'
  <2>1. \A c \in Chats : chatPc[c] \in Ended => c \in finished
    BY DEF OwnTurnInv, MessageInv
  <2>2. AloneInv'
    BY <1>3 DEF chatVars, OwnTurnInv, AloneInv, Live
  <2>3. MessageInv'
    BY <1>3, <2>1, SameWork, MessageFrame DEF chatVars, OwnTurnInv
  <2>4. StreamInv'
    BY <1>3, StreamFrame DEF chatVars, OwnTurnInv
  <2> QED
    BY <2>2, <2>3, <2>4
<1>4. ASSUME NEW l \in Loops, NEW reply \in {"yes", "no"},
             SendAskUserReply(l, reply)
      PROVE  AloneInv' /\ MessageInv' /\ StreamInv'
  BY <1>3, <1>4 DEF SendAskUserReply, registryVars, processorVars, loopVars,
                    historyVars
<1>5. CASE Cancel
  BY <1>3, <1>5 DEF Cancel, channelVars, historyVars
<1>6. CASE UNCHANGED vars
  BY <1>3, <1>6 DEF vars, registryVars, channelVars, processorVars, loopVars,
                    historyVars
<1>7. ASSUME NEW l \in Loops, ReplyArrives(l)
      PROVE  AloneInv' /\ MessageInv' /\ StreamInv'
  BY <1>3, <1>7 DEF ReplyArrives, registryVars, processorVars, loopVars,
                    historyVars
<1> QED
  BY <1>1, <1>2, <1>4, <1>5, <1>6, <1>7 DEF Next

\* Nobody has begun.
LEMMA InitOwnTurn == Init => OwnTurnInv
<1> SUFFICES ASSUME Init PROVE OwnTurnInv
  OBVIOUS
<1>1. AloneInv
  BY ChatsAssumption DEF Init, AloneInv, Live, Opened
<1>2. MessageInv
  BY DEF Init, MessageInv, WorksOn, Busy, InTurn, Ended, Entries
<1>3. StreamInv
  <2>1. \A c \in Chats : eventCh[c] = <<>> /\ sseCh[c] = <<>> /\ seen[c] = {}
    BY DEF Init
  <2>2. 1..Len(<<>>) = {}
    OBVIOUS
  <2> QED
    BY <2>1, <2>2 DEF StreamInv
<1>4. SendsToOwn
  BY DEF Init, SendsToOwn
<1> QED
  BY <1>1, <1>2, <1>3, <1>4, InitTypeInv DEF OwnTurnInv

\* For any number of chats and any capacities: if clients send their next
\* message after they have seen the end of the last stream, then what a chat
\* streams is its own turn, and "done" reaches a client only when the turn of
\* its message is over, although loops, entries and cleanups of earlier chats
\* may still be about.
THEOREM SpecStreamIsOwnTurn ==
    ClientPolicy = "waitEOF" => (Spec => []StreamIsOwnTurn)
<1> SUFFICES ASSUME ClientPolicy = "waitEOF"
             PROVE  Spec => []StreamIsOwnTurn
  OBVIOUS
<1>1. OwnTurnInv /\ [Next]_vars => OwnTurnInv'
  BY NextOwnTurn
<1>2. OwnTurnInv => StreamIsOwnTurn
  BY DEF OwnTurnInv, StreamInv, StreamIsOwnTurn
<1> QED
  BY <1>1, <1>2, InitOwnTurn, PTL DEF Spec

-----------------------------------------------------------------------------
(* SessionRuntime keeps ChatPromise.                                       *)

\* "done" waits in a chat's stream.
DoneWaits(c) == \E i \in 1..Len(sseCh[c]) : sseCh[c][i] = "done"

\* A chat ends its stream on "done" only, which its client has yet to read or
\* has read.
DoneInv ==
    \A c \in Chats :
        /\ chatPc[c] \in Ended => "done" \in seen[c] \/ DoneWaits(c)
        /\ chatPc[c] \notin Ended => seen[c] = {} /\ ~DoneWaits(c)

\* A step that neither ends a stream nor reads one.
LEMMA DoneFrame ==
    ASSUME DoneInv, UNCHANGED <<sseCh, seen>>,
           \A c \in Chats : chatPc'[c] \in Ended <=> chatPc[c] \in Ended
    PROVE  DoneInv'
BY DEF DoneInv, DoneWaits

\* "done" is the last that the stream of a chat gets.
LEMMA ForwardDone ==
    ASSUME OwnTurnInv, DoneInv, NEW c \in Chats, Forward(c)
    PROVE  DoneInv'
<1>1. /\ eventCh[c] \in Seq(Event) /\ eventCh[c] # <<>>
      /\ sseCh[c] \in Seq(Forwarded)
  BY DEF Forward, OwnTurnInv, TypeInv, ChannelType
<1>2. PICK ev \in Event : ev = Head(eventCh[c])
  BY <1>1, ReceiveFacts
<1>3. /\ chatPc[c] = "stream" /\ seen' = seen
      /\ sseCh' = IF ev.type \in Forwarded
                  THEN [sseCh EXCEPT ![c] = Append(@, ev.type)] ELSE sseCh
      /\ chatPc' = IF ev.type = "done"
                   THEN [chatPc EXCEPT ![c] = "closing"] ELSE chatPc
  BY <1>2 DEF Forward
<1>4. /\ \A d \in Chats \ {c} : sseCh'[d] = sseCh[d] /\ chatPc'[d] = chatPc[d]
      /\ sseCh'[c] = IF ev.type \in Forwarded
                     THEN Append(sseCh[c], ev.type) ELSE sseCh[c]
      /\ chatPc'[c] = IF ev.type = "done" THEN "closing" ELSE "stream"
  BY <1>3 DEF OwnTurnInv, TypeInv, ChannelType, SubInv, SubType
<1>5. seen[c] = {} /\ ~DoneWaits(c)
  BY <1>3 DEF DoneInv, Ended
<1>6. DoneWaits(c)' <=> ev.type = "done"
  <2>1. CASE ev.type \notin Forwarded
    BY <1>4, <1>5, <2>1 DEF DoneWaits, Forwarded
  <2>2. CASE ev.type \in Forwarded
    <3>1. /\ Len(sseCh[c]) \in Nat /\ Len(sseCh'[c]) = Len(sseCh[c]) + 1
          /\ \A i \in 1..Len(sseCh[c]) : sseCh'[c][i] = sseCh[c][i]
          /\ sseCh'[c][Len(sseCh[c]) + 1] = ev.type
      BY <1>1, <1>4, <2>2, AppendProperties, LenProperties
    <3> QED
      BY <1>5, <3>1 DEF DoneWaits
  <2> QED
    BY <2>1, <2>2
<1>7. /\ chatPc'[c] \in Ended => DoneWaits(c)'
      /\ chatPc'[c] \notin Ended => seen'[c] = {} /\ ~DoneWaits(c)'
  BY <1>3, <1>4, <1>5, <1>6 DEF Ended
<1>8. ASSUME NEW d \in Chats \ {c}
      PROVE  /\ chatPc'[d] \in Ended => "done" \in seen'[d] \/ DoneWaits(d)'
             /\ chatPc'[d] \notin Ended => seen'[d] = {} /\ ~DoneWaits(d)'
  BY <1>3, <1>4 DEF DoneInv, DoneWaits
<1> QED
  BY <1>7, <1>8 DEF DoneInv

\* What a client reads it has read, and there is nothing to read before the
\* stream ends but what precedes "done".
LEMMA ClientReadDone ==
    ASSUME OwnTurnInv, DoneInv, NEW c \in Chats, ClientRead(c)
    PROVE  DoneInv'
<1>1. chatPc' = chatPc
  BY DEF ClientRead
<1>2. CASE /\ sseCh[c] # <<>>
           /\ seen' = [seen EXCEPT ![c] = @ \cup ({Head(sseCh[c])} \cap {"done"})]
           /\ sseCh' = [sseCh EXCEPT ![c] = Tail(@)]
  <2>1. sseCh[c] \in Seq(Forwarded)
    BY DEF OwnTurnInv, TypeInv, ChannelType
  <2>2. /\ Head(sseCh[c]) = sseCh[c][1] /\ Len(sseCh[c]) \in Nat /\ Len(sseCh[c]) > 0
        /\ Len(Tail(sseCh[c])) = Len(sseCh[c]) - 1
        /\ \A i \in 1..Len(Tail(sseCh[c])) : Tail(sseCh[c])[i] = sseCh[c][i + 1]
    BY <1>2, <2>1, ReceiveFacts, HeadTailProperties
  <2>3. /\ \A d \in Chats \ {c} : seen'[d] = seen[d] /\ sseCh'[d] = sseCh[d]
        /\ sseCh'[c] = Tail(sseCh[c])
        /\ seen'[c] = seen[c] \cup ({Head(sseCh[c])} \cap {"done"})
    BY <1>2 DEF OwnTurnInv, TypeInv, ChannelType
  <2>4. DoneWaits(c) <=> sseCh[c][1] = "done" \/ DoneWaits(c)'
    <3>1. ASSUME NEW i \in 1..Len(sseCh[c]), sseCh[c][i] = "done", i # 1
          PROVE  DoneWaits(c)'
      <4>1. i - 1 \in 1..Len(sseCh'[c]) /\ sseCh'[c][i - 1] = sseCh[c][i]
        BY <2>2, <2>3, <3>1
      <4> QED
        BY <3>1, <4>1 DEF DoneWaits
    <3>2. ASSUME NEW i \in 1..Len(sseCh'[c]), sseCh'[c][i] = "done"
          PROVE  DoneWaits(c)
      <4>1. i + 1 \in 1..Len(sseCh[c]) /\ sseCh[c][i + 1] = "done"
        BY <2>2, <2>3, <3>2
      <4> QED
        BY <4>1 DEF DoneWaits
    <3>3. 1 \in 1..Len(sseCh[c])
      BY <2>2
    <3> QED
      BY <3>1, <3>2, <3>3 DEF DoneWaits
  <2>5. /\ chatPc[c] \in Ended => "done" \in seen'[c] \/ DoneWaits(c)'
        /\ chatPc[c] \notin Ended => seen'[c] = {} /\ ~DoneWaits(c)'
    <3>1. CASE chatPc[c] \in Ended
      BY <2>2, <2>3, <2>4, <3>1 DEF DoneInv
    <3>2. CASE chatPc[c] \notin Ended
      BY <2>2, <2>3, <2>4, <3>2 DEF DoneInv
    <3> QED
      BY <3>1, <3>2
  <2>6. ASSUME NEW d \in Chats \ {c}
        PROVE  /\ chatPc[d] \in Ended => "done" \in seen'[d] \/ DoneWaits(d)'
               /\ chatPc[d] \notin Ended => seen'[d] = {} /\ ~DoneWaits(d)'
    BY <2>3 DEF DoneInv, DoneWaits
  <2> QED
    BY <1>1, <2>5, <2>6 DEF DoneInv
<1>3. CASE /\ sseCh[c] = <<>> /\ chatPc[c] = "closed"
           /\ seen' = [seen EXCEPT ![c] = @ \cup {"eof"}]
           /\ sseCh' = sseCh
  <2>1. /\ \A d \in Chats \ {c} : seen'[d] = seen[d]
        /\ seen'[c] = seen[c] \cup {"eof"}
    BY <1>3 DEF OwnTurnInv, TypeInv, ChannelType
  <2> QED
    BY <1>1, <1>3, <2>1 DEF DoneInv, DoneWaits, Ended
<1> QED
  BY <1>2, <1>3 DEF ClientRead

\* Every step keeps it.
LEMMA NextDone == ASSUME OwnTurnInv, DoneInv, [Next]_vars PROVE DoneInv'
<1>1. ASSUME NEW c \in Chats, NEW pc, chatPc' = [chatPc EXCEPT ![c] = pc],
             pc \in Ended <=> chatPc[c] \in Ended,
             UNCHANGED <<sseCh, seen>>
      PROVE  DoneInv'
  <2>1. \A d \in Chats : chatPc'[d] = IF d = c THEN pc ELSE chatPc[d]
    BY <1>1 DEF OwnTurnInv, TypeInv, SubInv, SubType
  <2> QED
    BY <1>1, <2>1, DoneFrame
<1>2. ASSUME NEW c \in Chats, ChatBegin(c) \/ ChatStep(c) \/ ClientRead(c)
      PROVE  DoneInv'
  <2>1. CASE ChatBegin(c)
    BY <1>1, <2>1 DEF ChatBegin, Ended
  <2>2. CASE CreateSession(c) \/ SubscribeAttach(c) \/ EnqueueLookup(c)
             \/ EnqueueMessage(c) \/ EnqueueFails(c) \/ StartProcessing(c)
    BY <1>1, <2>2 DEF CreateSession, SubscribeAttach, EnqueueLookup,
                      EnqueueMessage, EnqueueFails, StartProcessing, Ended
  <2>3. CASE SubscribeLookup(c)
    BY <1>1, <2>3 DEF SubscribeLookup, Ended
  <2>4. CASE StopProcessing(c) \/ ChatEnd(c)
    BY <1>1, <2>4 DEF StopProcessing, ChatEnd, Ended
  <2> QED
    BY <1>2, <2>1, <2>2, <2>3, <2>4, ForwardDone, StreamEndsOwn,
       ClientReadDone DEF ChatStep
<1>3. ASSUME UNCHANGED <<chatPc, sseCh, seen>>
      PROVE  DoneInv'
  BY <1>3, DoneFrame
<1>4. ASSUME NEW l \in Loops, LoopStep(l)
      PROVE  DoneInv'
  BY <1>3, <1>4, LoopStepAlone
<1>5. ASSUME \/ \E l \in Loops, reply \in {"yes", "no"} : SendAskUserReply(l, reply)
             \/ \E l \in Loops : ReplyArrives(l)
             \/ Cancel \/ UNCHANGED vars
      PROVE  DoneInv'
  BY <1>3, <1>5 DEF SendAskUserReply, ReplyArrives, Cancel, vars, chatVars
<1> QED
  BY <1>2, <1>4, <1>5 DEF Next

-----------------------------------------------------------------------------
(* Steps of SessionRuntime as steps of ChatPromise.                        *)

\* The messages of the events of a stream, in their order.
LEMMA MessagesFacts ==
    ASSUME NEW events \in Seq(Event)
    PROVE  /\ Messages(events) \in Seq(Chats)
           /\ Len(Messages(events)) = Len(events)
           /\ \A i \in 1..Len(events) : Messages(events)[i] = events[i].msg
<1>1. Len(events) \in Nat /\ \A i \in 1..Len(events) : events[i] \in Event
  BY LenProperties
<1>2. Messages(events) \in [1..Len(events) -> Chats]
  BY <1>1 DEF Messages, Event
<1> QED
  BY <1>1, <1>2 DEF Messages

\* An event that comes brings its message,
LEMMA MessagesAppend ==
    ASSUME NEW events \in Seq(Event), NEW ev \in Event
    PROVE  Messages(Append(events, ev)) = Append(Messages(events), ev.msg)
<1> DEFINE longer == Append(events, ev)
           s == Messages(longer)
           t == Append(Messages(events), ev.msg)
<1>1. ev.msg \in Chats /\ Len(events) \in Nat
  BY LenProperties DEF Event
<1>2. /\ longer \in Seq(Event) /\ Len(longer) = Len(events) + 1
      /\ \A i \in 1..Len(events) : longer[i] = events[i]
      /\ longer[Len(events) + 1] = ev
  BY AppendProperties
<1>3. /\ Messages(events) \in Seq(Chats) /\ Len(Messages(events)) = Len(events)
      /\ \A i \in 1..Len(events) : Messages(events)[i] = events[i].msg
  BY MessagesFacts
<1> HIDE DEF longer
<1>4. /\ s \in Seq(Chats) /\ Len(s) = Len(longer)
      /\ \A i \in 1..Len(longer) : s[i] = longer[i].msg
  BY <1>2, MessagesFacts
<1>5. /\ t \in Seq(Chats) /\ Len(t) = Len(events) + 1
      /\ \A i \in 1..Len(events) : t[i] = Messages(events)[i]
      /\ t[Len(events) + 1] = ev.msg
  BY <1>1, <1>3, AppendProperties
<1> HIDE DEF s, t
<1>6. Len(s) = Len(t) /\ \A i \in 1..Len(s) : s[i] = t[i]
  <2>1. Len(s) = Len(events) + 1 /\ Len(t) = Len(events) + 1
    BY <1>2, <1>4, <1>5
  <2>2. \A i \in 1..Len(events) : s[i] = events[i].msg /\ t[i] = events[i].msg
    <3> SUFFICES ASSUME NEW i \in 1..Len(events)
                 PROVE  s[i] = events[i].msg /\ t[i] = events[i].msg
      OBVIOUS
    <3>1. i \in 1..Len(longer) /\ longer[i] = events[i]
      BY <1>1, <1>2
    <3>2. s[i] = longer[i].msg
      BY <1>4, <3>1
    <3>3. t[i] = Messages(events)[i] /\ Messages(events)[i] = events[i].msg
      BY <1>3, <1>5
    <3> QED
      BY <3>1, <3>2, <3>3
  <2>3. s[Len(events) + 1] = ev.msg /\ t[Len(events) + 1] = ev.msg
    <3>1. Len(events) + 1 \in 1..Len(longer)
      BY <1>1, <1>2
    <3> QED
      BY <1>2, <1>4, <1>5, <3>1
  <2>4. \A i \in 1..(Len(events) + 1) : i \in 1..Len(events) \/ i = Len(events) + 1
    BY <1>1
  <2> QED
    BY <2>1, <2>2, <2>3, <2>4
<1>7. s = t
  BY <1>4, <1>5, <1>6, SeqEqual
<1> QED
  BY <1>7 DEF s, t, longer

\* and one that goes takes it along.
LEMMA MessagesTail ==
    ASSUME NEW events \in Seq(Event), events # <<>>
    PROVE  /\ Messages(events) # <<>>
           /\ Messages(Tail(events)) = Tail(Messages(events))
<1> DEFINE m == Messages(events)
           s == Messages(Tail(events))
           t == Tail(m)
<1>1. /\ Tail(events) \in Seq(Event) /\ Len(events) \in Nat
      /\ Len(Tail(events)) \in Nat /\ Len(Tail(events)) = Len(events) - 1
      /\ \A i \in 1..Len(Tail(events)) : Tail(events)[i] = events[i + 1]
  BY ReceiveFacts, HeadTailProperties
<1>2. /\ m \in Seq(Chats) /\ Len(m) = Len(events)
      /\ \A i \in 1..Len(events) : m[i] = events[i].msg
  BY MessagesFacts
<1>3. /\ s \in Seq(Chats) /\ Len(s) = Len(Tail(events))
      /\ \A i \in 1..Len(Tail(events)) : s[i] = Tail(events)[i].msg
  BY <1>1, MessagesFacts
<1> HIDE DEF m, s
<1>4. m # <<>>
  BY <1>1, <1>2
<1>5. /\ t \in Seq(Chats) /\ Len(t) = Len(m) - 1
      /\ \A i \in 1..Len(t) : t[i] = m[i + 1]
  BY <1>2, <1>4, HeadTailProperties
<1> HIDE DEF t
<1>6. Len(s) = Len(t) /\ \A i \in 1..Len(s) : s[i] = t[i]
  BY <1>1, <1>2, <1>3, <1>5
<1>7. s = t
  BY <1>3, <1>5, <1>6, SeqEqual
<1> QED
  BY <1>4, <1>7 DEF m, s, t

\* A step that changes neither phases nor streams.
LEMMA PromiseStutter ==
    ASSUME UNCHANGED eventCh, \A c \in Chats : PhaseOf(c)' = PhaseOf(c)
    PROVE  UNCHANGED Promise!vars
BY DEF Promise!vars

\* A step that moves the phase of one chat.
LEMMA PromiseMoves ==
    ASSUME NEW c \in Chats, NEW from, NEW to,
           PhaseOf(c) = from, PhaseOf(c)' = to,
           \A d \in Chats \ {c} : PhaseOf(d)' = PhaseOf(d)
    PROVE  Promise!Moves(c, from, to)
BY DEF Promise!Moves

\* The phase follows from what is in these variables.
LEMMA PhaseFrame ==
    ASSUME NEW c \in Chats, seen'[c] = seen[c],
           c \in finished' <=> c \in finished,
           chatPc'[c] = "idle" <=> chatPc[c] = "idle"
    PROVE  PhaseOf(c)' = PhaseOf(c)
BY DEF PhaseOf

\* A chat whose message is worked on is open.
LEMMA WorkedOnIsOpen ==
    ASSUME OwnTurnInv, DoneInv, NEW l \in Loops, NEW c \in Chats, WorksOn(l, c)
    PROVE  /\ seen[c] = {} /\ c \notin finished /\ chatPc[c] # "idle"
           /\ PhaseOf(c) = "open"
<1>1. c \notin finished /\ chatPc[c] \notin Unsent /\ chatPc[c] \notin Ended
  BY DEF OwnTurnInv, MessageInv
<1>2. seen[c] = {} /\ chatPc[c] # "idle"
  BY <1>1 DEF DoneInv, Unsent
<1> QED
  BY <1>1, <1>2 DEF PhaseOf

\* An event is published into the stream of its own chat, or dropped.
LEMMA PublishPromise ==
    ASSUME OwnTurnInv, NEW l \in Loops, NEW c \in Chats, WorksOn(l, c),
           NEW type \in EventTypes, PublishEvent(type, c)
    PROVE  LET waiting == [d \in Chats |-> Messages(eventCh[d])] IN
           \/ UNCHANGED eventCh
           \/ waiting' = [waiting EXCEPT ![c] = Append(@, c)]
<1> DEFINE ev == [type |-> type, msg |-> c]
           waiting == [d \in Chats |-> Messages(eventCh[d])]
<1>1. ev \in Event /\ ev.msg = c
  BY DEF Event
<1>2. \A d \in Chats : \/ eventCh'[d] = eventCh[d]
                       \/ d = c /\ eventCh'[d] = Append(eventCh[d], ev)
  BY PublishAppends
<1>3. /\ eventCh \in [Chats -> Seq(Event)]
      /\ eventCh' = [d \in Chats |-> eventCh'[d]]
  BY DEF OwnTurnInv, TypeInv, ChannelType, PublishEvent
<1> HIDE DEF ev
<1>4. CASE eventCh'[c] = eventCh[c]
  BY <1>2, <1>3, <1>4
<1>5. CASE eventCh'[c] = Append(eventCh[c], ev)
  <2>1. Messages(eventCh'[c]) = Append(Messages(eventCh[c]), c)
    BY <1>1, <1>3, <1>5, MessagesAppend
  <2>2. \A d \in Chats \ {c} : Messages(eventCh'[d]) = Messages(eventCh[d])
    BY <1>2
  <2> QED
    BY <2>1, <2>2
<1> QED
  BY <1>2, <1>4, <1>5

\* A loop publishes, or ends the turn of the one open chat.
LEMMA LoopPromise ==
    ASSUME OwnTurnInv, DoneInv, NEW l \in Loops, LoopStep(l)
    PROVE  [Promise!Next]_Promise!vars
<1> USE DEF registryVars, channelVars, loopVars, processorVars, chatVars,
            historyVars
<1>1. UNCHANGED <<chatPc, sseCh, seen>>
  BY LoopStepAlone
<1>2. CASE TurnAborts(l) \/ TurnStops(l)
  <2>1. PICK c \in Chats : c = loopMsg[l] /\ WorksOn(l, c)
    BY <1>2 DEF TurnAborts, TurnStops, OwnTurnInv, TypeInv, LoopHasMessage,
                WorksOn, Busy, InTurn
  <2>2. PublishEvent("done", c) /\ finished' = finished \cup {c}
    BY <1>2, <2>1 DEF TurnAborts, TurnStops
  <2>3. PhaseOf(c) = "open" /\ PhaseOf(c)' = "answered"
    BY <1>1, <2>1, <2>2, WorkedOnIsOpen DEF PhaseOf
  <2>4. \A d \in Chats \ {c} : PhaseOf(d)' = PhaseOf(d)
    BY <1>1, <2>2, PhaseFrame
  <2>5. Promise!Moves(c, "open", "answered")
    BY <2>3, <2>4, PromiseMoves
  <2>6. "done" \in EventTypes
    BY DEF EventTypes, Forwarded
  <2>7. Promise!Answer(c)
    BY <2>1, <2>2, <2>5, <2>6, PublishPromise DEF Promise!Answer
  <2> QED
    BY <2>7 DEF Promise!Next
<1>3. CASE ~TurnAborts(l) /\ ~TurnStops(l)
  <2>1. finished' = finished
    BY <1>3, LoopPublishes
  <2>2. \A d \in Chats : PhaseOf(d)' = PhaseOf(d)
    BY <1>1, <2>1, PhaseFrame
  <2>3. CASE UNCHANGED eventCh
    BY <2>2, <2>3, PromiseStutter
  <2>4. CASE eventCh' # eventCh
    <3>1. PICK c \in Chats, type \in EventTypes \ {"done"} :
            WorksOn(l, c) /\ PublishEvent(type, c)
      BY <1>3, <2>4, LoopPublishes
    <3>2. PhaseOf(c) = "open"
      BY <3>1, WorkedOnIsOpen
    <3>3. Promise!Publish(c)
      BY <2>2, <2>4, <3>1, <3>2, PublishPromise DEF Promise!Publish
    <3> QED
      BY <3>3 DEF Promise!Next
  <2> QED
    BY <2>3, <2>4
<1> QED
  BY <1>2, <1>3

\* A client sends when every other chat is unsent or ended.
LEMMA ChatBeginPromise ==
    ASSUME ClientPolicy = "waitEOF", OwnTurnInv, DoneInv, NEW c \in Chats,
           ChatBegin(c)
    PROVE  Promise!Send(c)
<1>1. /\ chatPc[c] = "idle" /\ chatPc'[c] # "idle"
      /\ \A d \in Chats \ {c} : chatPc'[d] = chatPc[d]
      /\ UNCHANGED <<seen, finished, eventCh>>
  BY DEF ChatBegin, channelVars, historyVars, OwnTurnInv, TypeInv, SubInv, SubType
<1>2. ASSUME NEW d \in Chats, chatPc[d] = "idle"
      PROVE  seen[d] = {} /\ d \notin finished /\ PhaseOf(d) = "unsent"
  <2>1. seen[d] = {} /\ d \notin finished
    BY <1>2 DEF OwnTurnInv, MessageInv, DoneInv, Unsent, Ended
  <2> QED
    BY <1>2, <2>1 DEF PhaseOf
<1>3. ASSUME NEW d \in Chats \ {c}
      PROVE  PhaseOf(d) \in {"unsent", "ended"}
  <2>1. chatPc[d] = "idle" \/ "eof" \in seen[d]
    BY DEF ChatBegin, MayBegin, OwnTurnInv, AloneInv
  <2>2. CASE "eof" \in seen[d]
    BY <2>2 DEF PhaseOf
  <2> QED
    BY <1>2, <2>1, <2>2
<1>4. PhaseOf(c)' = "open"
  <2>1. seen'[c] = {} /\ c \notin finished'
    BY <1>1, <1>2
  <2> QED
    BY <1>1, <2>1 DEF PhaseOf
<1>5. \A d \in Chats \ {c} : PhaseOf(d)' = PhaseOf(d)
  BY <1>1, PhaseFrame
<1>6. Promise!Moves(c, "unsent", "open")
  BY <1>1, <1>2, <1>4, <1>5, PromiseMoves
<1> QED
  BY <1>1, <1>3, <1>6 DEF Promise!Send

\* The stream carries what was published.
LEMMA ForwardPromise ==
    ASSUME OwnTurnInv, DoneInv, NEW c \in Chats, Forward(c)
    PROVE  Promise!Carry(c)
<1>1. /\ chatPc[c] = "stream" /\ eventCh[c] \in Seq(Event) /\ eventCh[c] # <<>>
      /\ eventCh' = [eventCh EXCEPT ![c] = Tail(@)]
      /\ UNCHANGED <<seen, finished>>
      /\ \A d \in Chats : chatPc'[d] = "idle" <=> chatPc[d] = "idle"
  BY DEF Forward, historyVars, OwnTurnInv, TypeInv, ChannelType, SubInv, SubType
<1>2. \A d \in Chats : PhaseOf(d)' = PhaseOf(d)
  BY <1>1, PhaseFrame
<1>3. PhaseOf(c) \in {"open", "answered"}
  <2>1. seen[c] = {} /\ chatPc[c] # "idle"
    BY <1>1 DEF DoneInv, Ended
  <2> QED
    BY <2>1 DEF PhaseOf
<1>4. /\ Messages(eventCh[c]) # <<>>
      /\ Messages(eventCh'[c]) = Tail(Messages(eventCh[c]))
      /\ \A d \in Chats \ {c} : Messages(eventCh'[d]) = Messages(eventCh[d])
  <2>1. /\ eventCh'[c] = Tail(eventCh[c])
        /\ \A d \in Chats \ {c} : eventCh'[d] = eventCh[d]
    BY <1>1 DEF OwnTurnInv, TypeInv, ChannelType
  <2> QED
    BY <1>1, <2>1, MessagesTail
<1> QED
  BY <1>2, <1>3, <1>4 DEF Promise!Carry

\* The client reads "done" when its turn is over, and the end of the stream
\* after "done".
LEMMA ClientReadPromise ==
    ASSUME OwnTurnInv, DoneInv, NEW c \in Chats, ClientRead(c)
    PROVE  [Promise!Next]_Promise!vars
<1>1. UNCHANGED <<chatPc, eventCh, finished>> /\ seen[c] \subseteq {"done", "eof"}
  BY DEF ClientRead, channelVars, historyVars, OwnTurnInv, TypeInv, ChannelType
<1>2. \A d \in Chats \ {c} : seen'[d] = seen[d]
  BY DEF ClientRead, OwnTurnInv, TypeInv, ChannelType
<1>3. \A d \in Chats \ {c} : PhaseOf(d)' = PhaseOf(d)
  BY <1>1, <1>2, PhaseFrame
<1>4. CASE PhaseOf(c)' = PhaseOf(c)
  BY <1>1, <1>3, <1>4, PromiseStutter
<1>5. CASE /\ sseCh[c] # <<>> /\ PhaseOf(c)' # PhaseOf(c)
           /\ seen' = [seen EXCEPT ![c] = @ \cup ({Head(sseCh[c])} \cap {"done"})]
  <2>1. seen'[c] = seen[c] \cup ({Head(sseCh[c])} \cap {"done"})
    BY <1>5 DEF OwnTurnInv, TypeInv, ChannelType
  <2>2. seen'[c] # seen[c]
    BY <1>1, <1>5, PhaseFrame
  <2>3. Head(sseCh[c]) = "done" /\ "done" \notin seen[c]
    BY <2>1, <2>2
  <2>4. c \in finished
    <3>1. sseCh[c] \in Seq(Forwarded)
      BY DEF OwnTurnInv, TypeInv, ChannelType
    <3>2. Head(sseCh[c]) = sseCh[c][1] /\ 1 \in 1..Len(sseCh[c])
      BY <1>5, <3>1, ReceiveFacts, HeadTailProperties
    <3> QED
      BY <2>3, <3>2 DEF OwnTurnInv, StreamInv
  <2>5. "eof" \notin seen[c]
    BY <1>5, <2>1 DEF PhaseOf
  <2>6. seen[c] = {} /\ seen'[c] = {"done"}
    BY <1>1, <2>1, <2>3, <2>5
  <2>7. PhaseOf(c) = "answered" /\ PhaseOf(c)' = "delivered"
    BY <2>4, <2>6 DEF PhaseOf
  <2>8. Promise!Deliver(c)
    BY <1>1, <1>3, <2>7, PromiseMoves DEF Promise!Deliver
  <2> QED
    BY <2>8 DEF Promise!Next
<1>6. CASE /\ sseCh[c] = <<>> /\ chatPc[c] = "closed" /\ "eof" \notin seen[c]
           /\ seen' = [seen EXCEPT ![c] = @ \cup {"eof"}]
  <2>1. seen'[c] = seen[c] \cup {"eof"}
    BY <1>6 DEF OwnTurnInv, TypeInv, ChannelType
  <2>2. "done" \in seen[c]
    BY <1>6 DEF DoneInv, DoneWaits, Ended
  <2>3. seen[c] = {"done"}
    BY <1>1, <1>6, <2>2
  <2>4. PhaseOf(c) = "delivered" /\ PhaseOf(c)' = "ended"
    BY <2>1, <2>3 DEF PhaseOf
  <2>5. Promise!End(c)
    BY <1>1, <1>3, <2>4, PromiseMoves DEF Promise!End
  <2> QED
    BY <2>5 DEF Promise!Next
<1> QED
  BY <1>4, <1>5, <1>6 DEF ClientRead

\* Every step of SessionRuntime is one of ChatPromise, or none.
LEMMA PromiseStep ==
    ASSUME ClientPolicy = "waitEOF", OwnTurnInv, DoneInv, [Next]_vars
    PROVE  [Promise!Next]_Promise!vars
<1>1. ASSUME UNCHANGED <<seen, finished, eventCh>>,
             \A c \in Chats : chatPc'[c] = "idle" <=> chatPc[c] = "idle"
      PROVE  [Promise!Next]_Promise!vars
  BY <1>1, PhaseFrame, PromiseStutter
<1>2. ASSUME NEW c \in Chats, ChatBegin(c) \/ Forward(c)
      PROVE  [Promise!Next]_Promise!vars
  BY <1>2, ChatBeginPromise, ForwardPromise DEF Promise!Next
<1>3. ASSUME NEW c \in Chats,
             \/ CreateSession(c) \/ SubscribeLookup(c) \/ SubscribeAttach(c)
             \/ EnqueueLookup(c) \/ EnqueueMessage(c) \/ EnqueueFails(c)
             \/ StartProcessing(c) \/ StopProcessing(c) \/ ChatEnd(c)
      PROVE  [Promise!Next]_Promise!vars
  <2>1. UNCHANGED <<seen, finished, eventCh>>
    BY <1>3 DEF CreateSession, SubscribeLookup, SubscribeAttach, EnqueueLookup,
                EnqueueMessage, EnqueueFails, StartProcessing, StopProcessing, ChatEnd,
                channelVars, historyVars
  <2>2. /\ chatPc[c] # "idle"
        /\ \E pc : pc # "idle" /\ chatPc' = [chatPc EXCEPT ![c] = pc]
    BY <1>3 DEF CreateSession, SubscribeLookup, SubscribeAttach, EnqueueLookup,
                EnqueueMessage, EnqueueFails, StartProcessing, StopProcessing, ChatEnd
  <2>3. \A d \in Chats : chatPc'[d] = "idle" <=> chatPc[d] = "idle"
    BY <2>2 DEF OwnTurnInv, TypeInv, SubInv, SubType
  <2> QED
    BY <1>1, <2>1, <2>3
<1>4. ASSUME \/ \E l \in Loops, reply \in {"yes", "no"} : SendAskUserReply(l, reply)
             \/ \E l \in Loops : ReplyArrives(l)
             \/ Cancel \/ UNCHANGED vars
      PROVE  [Promise!Next]_Promise!vars
  <2>1. UNCHANGED <<seen, finished, eventCh, chatPc>>
    BY <1>4 DEF SendAskUserReply, ReplyArrives, Cancel, vars, chatVars,
                channelVars, historyVars
  <2> QED
    BY <1>1, <2>1
<1> QED
  BY <1>2, <1>3, <1>4, LoopPromise, StreamEndsOwn, ClientReadPromise
     DEF Next, ChatStep

\* For any number of chats and any capacities, and clients that wait for the
\* end of a stream before they send again, SessionRuntime implements
\* ChatPromise: one message at a time, events of its own turn only and none
\* after it, "done" once the turn is over, and the end after "done".
THEOREM SpecKeepsChatPromise ==
    ClientPolicy = "waitEOF" => (Spec => KeepsChatPromise)
<1> SUFFICES ASSUME ClientPolicy = "waitEOF"
             PROVE  Spec => KeepsChatPromise
  OBVIOUS
<1>1. Init => DoneInv
  <2> SUFFICES ASSUME Init PROVE DoneInv
    OBVIOUS
  <2>1. \A c \in Chats : chatPc[c] \notin Ended /\ seen[c] = {} /\ sseCh[c] = <<>>
    BY DEF Init, Ended
  <2>2. 1..Len(<<>>) = {}
    OBVIOUS
  <2>3. \A c \in Chats : ~DoneWaits(c)
    BY <2>1, <2>2 DEF DoneWaits
  <2> QED
    BY <2>1, <2>3 DEF DoneInv
<1>2. Init => Promise!Init
  <2> SUFFICES ASSUME Init PROVE Promise!Init
    OBVIOUS
  <2>1. \A c \in Chats : PhaseOf(c) = "unsent"
    BY DEF Init, PhaseOf
  <2>2. \A c \in Chats : Messages(eventCh[c]) = <<>>
    <3>1. Messages(<<>>) = <<>>
      BY DEF Messages
    <3> QED
      BY <3>1 DEF Init
  <2> QED
    BY <2>1, <2>2 DEF Promise!Init
<1>3. OwnTurnInv /\ DoneInv /\ [Next]_vars => OwnTurnInv' /\ DoneInv'
  BY NextOwnTurn, NextDone
<1>4. OwnTurnInv /\ DoneInv /\ [Next]_vars => [Promise!Next]_Promise!vars
  BY PromiseStep
<1> QED
  BY <1>1, <1>2, <1>3, <1>4, InitOwnTurn, PTL DEF Spec, KeepsChatPromise, Promise!Spec
=============================================================================
