--------------------------- MODULE RegistryPromise ---------------------------
(***************************************************************************)
(* What a cache of agent definitions promises to those who change them.    *)
(* Changes are numbered as they are committed.  A change is acknowledged   *)
(* when the request that made it returns; from then on the cache is either *)
(* empty or holds a state that includes it.                                *)
(***************************************************************************)
EXTENDS Integers

VARIABLES
    written,    \* number of the last committed change
    acked,      \* the last change that has been acknowledged
    cached      \* the last change the cached state includes, 0 if empty

vars == <<written, acked, cached>>

Init == written = 1 /\ acked = 0 /\ cached \in 0..1

\* A change is committed.
Commit ==
    /\ written' = written + 1
    /\ UNCHANGED <<acked, cached>>

\* A change is acknowledged, by someone who has seen to it that the cache
\* does not contradict it.
Acknowledge ==
    /\ acked' \in acked..written
    /\ \/ cached' = 0
       \/ cached' = cached /\ cached >= acked'
    /\ UNCHANGED written

\* The cache is filled with a state that includes all that was acknowledged.
Fill ==
    /\ cached' \in acked..written
    /\ UNCHANGED <<written, acked>>

Next == Commit \/ Acknowledge \/ Fill
Spec == Init /\ [][Next]_vars
=============================================================================
