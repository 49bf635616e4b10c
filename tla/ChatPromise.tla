----------------------------- MODULE ChatPromise -----------------------------
(***************************************************************************)
(* What a session promises to clients that send a message only when the    *)
(* stream of the previous one has ended.  Messages are answered one at a   *)
(* time.  A stream carries events of the turn of its own message and no    *)
(* others; when that turn is over nothing follows, the client is told that *)
(* it is done, once it is over and not before, and only then the stream    *)
(* ends.                                                                   *)
(***************************************************************************)
EXTENDS Sequences

CONSTANT Chats

VARIABLES
    phase,      \* phase[c]: how far chat c is
    waiting     \* waiting[c]: whose events its stream still has to carry

vars == <<phase, waiting>>

Init ==
    /\ phase = [c \in Chats |-> "unsent"]
    /\ waiting = [c \in Chats |-> <<>>]

Moves(c, from, to) == phase[c] = from /\ phase' = [phase EXCEPT ![c] = to]

\* The client sends its message.
Send(c) ==
    /\ \A d \in Chats \ {c} : phase[d] \in {"unsent", "ended"}
    /\ Moves(c, "unsent", "open")
    /\ UNCHANGED waiting

\* The turn of c publishes an event.
Publish(c) ==
    /\ phase[c] = "open"
    /\ waiting' = [waiting EXCEPT ![c] = Append(@, c)]
    /\ UNCHANGED phase

\* The turn of c ends, and says so unless there is no room for it.
Answer(c) ==
    /\ Moves(c, "open", "answered")
    /\ \/ waiting' = [waiting EXCEPT ![c] = Append(@, c)]
       \/ UNCHANGED waiting

\* The stream passes an event on.
Carry(c) ==
    /\ phase[c] \in {"open", "answered"}
    /\ waiting[c] # <<>>
    /\ waiting' = [waiting EXCEPT ![c] = Tail(@)]
    /\ UNCHANGED phase

\* The client reads that the turn is done.
Deliver(c) == Moves(c, "answered", "delivered") /\ UNCHANGED waiting

\* The client reads the end of the stream.
End(c) == Moves(c, "delivered", "ended") /\ UNCHANGED waiting

Next ==
    \E c \in Chats :
        Send(c) \/ Publish(c) \/ Answer(c) \/ Carry(c) \/ Deliver(c) \/ End(c)

Spec == Init /\ [][Next]_vars
=============================================================================
