------------------------------- MODULE Mutex -------------------------------
(***************************************************************************)
(* What the lease lock of internal/state/lock.go promises its callers: a   *)
(* call waits, then holds the lock alone, then is over.  It may give up    *)
(* while it waits, and its process may die at any point.                   *)
(***************************************************************************)
CONSTANT Calls      \* the calls that ask for the lock

VARIABLE phase      \* phase[c]: how far call c has got

Phases == {"out", "waiting", "in", "over"}

Init == phase = [c \in Calls |-> "out"]

Request(c) ==
    /\ phase[c] = "out"
    /\ phase' = [phase EXCEPT ![c] = "waiting"]

Enter(c) ==
    /\ phase[c] = "waiting"
    /\ \A d \in Calls : phase[d] # "in"
    /\ phase' = [phase EXCEPT ![c] = "in"]

Leave(c) ==
    /\ phase[c] \in {"waiting", "in"}
    /\ phase' = [phase EXCEPT ![c] = "over"]

(* A process dies, and every call it was making with it. *)
Die(S) == phase' = [c \in Calls |-> IF c \in S THEN "over" ELSE phase[c]]

Next ==
    \/ \E c \in Calls : Request(c) \/ Enter(c) \/ Leave(c)
    \/ \E S \in SUBSET Calls : Die(S)

Spec == Init /\ [][Next]_phase
=============================================================================
