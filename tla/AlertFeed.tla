------------------------------ MODULE AlertFeed ------------------------------
(***************************************************************************)
(* What the recipient of the prefix alerts may rely on: of each user it is *)
(* told of drops, each later than all it was told before, and of the       *)
(* recovery from the drop it was last told of.                             *)
(***************************************************************************)
EXTENDS Naturals

CONSTANTS
    Users,
    News,   \* notifications: [user, event, at, base, since]
    NoNews  \* nothing was told yet

VARIABLE told  \* the last notification about each user

Init == told = [u \in Users |-> NoNews]

TellDrop(u, n) ==
    /\ n.user = u
    /\ n.event = "drop"
    /\ told[u] # NoNews => told[u].at < n.at
    /\ told' = [told EXCEPT ![u] = n]

\* A recovery names the drop it ends: when it began, and the count before it.
TellRecovery(u, n) ==
    /\ n.user = u
    /\ n.event = "recovered"
    /\ told[u] # NoNews
    /\ told[u].event = "drop"
    /\ n.since = told[u].at
    /\ n.base = told[u].base
    /\ n.at > told[u].at
    /\ told' = [told EXCEPT ![u] = n]

Next == \E u \in Users, n \in News : TellDrop(u, n) \/ TellRecovery(u, n)

Spec == Init /\ [][Next]_told

=============================================================================
