----------------------------- MODULE NameTable -----------------------------
(***************************************************************************)
(* What names promise, as types.go and run.go describe them: a task has    *)
(* one name at a time, takes a name only while no other task has it, in    *)
(* one step, and an id never comes back.                                   *)
(***************************************************************************)
CONSTANTS Names, IDs, None

VARIABLES
    nameOf,      \* nameOf[i]: the name of task i, or None
    spent        \* the ids that were ever given to a task

vars == <<nameOf, spent>>

Free(n) == \A i \in IDs : nameOf[i] # n

Init ==
    /\ spent \in SUBSET IDs
    /\ nameOf \in [IDs -> Names \cup {None}]
    /\ \A i \in IDs \ spent : nameOf[i] = None
    /\ \A i, j \in IDs : nameOf[i] = nameOf[j] => i = j \/ nameOf[i] = None

Claim(i, n) ==
    /\ i \notin spent /\ Free(n)
    /\ nameOf' = [nameOf EXCEPT ![i] = n]
    /\ spent' = spent \cup {i}

Move(i, n) ==
    /\ nameOf[i] # None /\ Free(n)
    /\ nameOf' = [nameOf EXCEPT ![i] = n]
    /\ UNCHANGED spent

Give(i) ==
    /\ nameOf[i] # None
    /\ nameOf' = [nameOf EXCEPT ![i] = None]
    /\ UNCHANGED spent

Next ==
    \E i \in IDs : Give(i) \/ \E n \in Names : Claim(i, n) \/ Move(i, n)

Spec == Init /\ [][Next]_vars
=============================================================================
