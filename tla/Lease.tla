------------------------------- MODULE Lease -------------------------------
(***************************************************************************)
(* The lease lock of internal/state/lock.go: one lock file, taken with an  *)
(* exclusive create, kept fresh by a heartbeat, removed by Unlock, and     *)
(* reaped by a waiter that finds its owner dead.                           *)
(*                                                                         *)
(* One element of Calls is one acquireLease call together with the Lease   *)
(* it returns, so it also stands for the call's random nonce.  ProcOf      *)
(* gives the OS process (pid and creation time) that makes the call.  A    *)
(* file system operation on the path is one step; the content of the file  *)
(* is kept apart from its name because a writer's descriptor still leads   *)
(* to a file that another process has unlinked.                            *)
(*                                                                         *)
(* Three constants say what the environment may do:                        *)
(*   Stalls      a live process may stop running for leaseStaleAfter (30s) *)
(*   TornCrash   a process may die between the create and the write        *)
(*   LateRemove  others may run between a reaper's second read and its     *)
(*               os.Remove                                                 *)
(***************************************************************************)
EXTENDS Naturals

CONSTANTS
    Calls, Procs, ProcOf,
    MaxBeats,                        \* bound on the renewals of one lease
    Stalls, TornCrash, LateRemove,
    NoFile                           \* there is no file at the path

(* leaseRecord.  An unwritten file is the empty file the create leaves;    *)
(* call then only says which descriptor leads to it.  aged: heartbeat_at   *)
(* (the modification time of an unwritten file) is leaseStaleAfter ago.    *)
LeaseRecord ==
    [call : Calls, written : BOOLEAN, beat : 0..MaxBeats, aged : BOOLEAN]

ASSUME ProcAssumption == ProcOf \in [Calls -> Procs]
ASSUME EnvAssumption ==
    /\ MaxBeats \in Nat
    /\ Stalls \in BOOLEAN /\ TornCrash \in BOOLEAN /\ LateRemove \in BOOLEAN
ASSUME NoFileAssumption == NoFile \notin LeaseRecord

VARIABLES
    file,     \* what is at the path: a LeaseRecord or NoFile
    pc,       \* pc[c]: the next step of call c
    hb,       \* hb[c]: the heartbeat goroutine of c's lease
    beats,    \* beats[c]: the renewals c has written
    seen,     \* seen[c]: what c's reap attempt read first
    alive     \* the processes that run

vars == <<file, pc, hb, beats, seen, alive>>

Steps == {"idle", "create", "write", "first", "stale", "second", "remove",
          "poll", "held", "stopping", "check", "delete", "done", "failed"}

(* The call has created the file and not yet given it back. *)
OwnerSteps == {"write", "held", "stopping", "check", "delete"}

Live(c) == ProcOf[c] \in alive

(* Mutant: the file is removed whatever the second read finds. *)
SameBytes_Unchecked(a, b) == a # NoFile /\ b # NoFile

(* The two reads of tryReapStaleLease return the same bytes: nonce and     *)
(* heartbeat_at are in them, and nothing tells one empty file from another.*)
SameBytes(a, b) ==
    /\ a # NoFile /\ b # NoFile
    /\ a.written = b.written
    /\ a.written => a.call = b.call /\ a.beat = b.beat

At(c, s) == Live(c) /\ pc[c] = s

Goto(c, s) == pc' = [pc EXCEPT ![c] = s]

Init ==
    /\ file = NoFile
    /\ pc = [c \in Calls |-> "idle"]
    /\ hb = [c \in Calls |-> "off"]
    /\ beats = [c \in Calls |-> 0]
    /\ seen = [c \in Calls |-> NoFile]
    /\ alive = Procs

-----------------------------------------------------------------------------
(* acquireLease: create, else try to reap, else poll until the context ends.*)

Acquire(c) ==
    /\ At(c, "idle")
    /\ Goto(c, "create")
    /\ UNCHANGED <<file, hb, beats, seen, alive>>

NewFile(c) == [call |-> c, written |-> FALSE, beat |-> 0, aged |-> FALSE]

(* Mutant: the create is not exclusive. *)
Create_NotExclusive(c) ==
    /\ At(c, "create")
    /\ file' = NewFile(c)
    /\ Goto(c, "write")
    /\ UNCHANGED <<hb, beats, seen, alive>>

Create(c) ==
    /\ At(c, "create")
    /\ file = NoFile
    /\ file' = NewFile(c)
    /\ Goto(c, "write")
    /\ UNCHANGED <<hb, beats, seen, alive>>

CreateExists(c) ==
    /\ At(c, "create")
    /\ file # NoFile
    /\ Goto(c, "first")
    /\ UNCHANGED <<file, hb, beats, seen, alive>>

(* The write goes to the descriptor: it shows at the path only while the   *)
(* file c created is still there.                                          *)
Write(c) ==
    /\ At(c, "write")
    /\ file' = IF file # NoFile /\ file.call = c
               THEN [file EXCEPT !.written = TRUE, !.aged = FALSE] ELSE file
    /\ Goto(c, "held")
    /\ hb' = [hb EXCEPT ![c] = "tick"]
    /\ UNCHANGED <<beats, seen, alive>>

(* A failed write or close removes whatever is at the path. *)
WriteFails(c) ==
    /\ At(c, "write")
    /\ file' = NoFile
    /\ Goto(c, "failed")
    /\ UNCHANGED <<hb, beats, seen, alive>>

Poll(c) ==
    /\ At(c, "poll")
    /\ Goto(c, "create")
    /\ UNCHANGED <<file, hb, beats, seen, alive>>

CtxDone(c) ==
    /\ At(c, "poll")
    /\ Goto(c, "failed")
    /\ UNCHANGED <<file, hb, beats, seen, alive>>

-----------------------------------------------------------------------------
(* tryReapStaleLease *)

FirstRead(c) ==
    /\ At(c, "first")
    /\ seen' = [seen EXCEPT ![c] = file]
    /\ Goto(c, IF file = NoFile THEN "poll" ELSE "stale")
    /\ UNCHANGED <<file, hb, beats, alive>>

(* What was read goes out of scope when tryReapStaleLease returns. *)
Forget(c) == seen' = [seen EXCEPT ![c] = NoFile]

(* Mutant: an unparseable file is taken for abandoned at once. *)
StaleSeen_EmptyAtOnce(c) ==
    IF seen[c].written THEN seen[c].aged /\ ~Live(seen[c].call)
                       ELSE file # NoFile

(* Mutant: an unparseable file is never reaped. *)
StaleSeen_EmptyNever(c) ==
    seen[c].written /\ seen[c].aged /\ ~Live(seen[c].call)

(* A parsed record is stale if it is old and its owner is dead; for an     *)
(* unparseable one only the age of what is at the path now counts.         *)
StaleSeen(c) ==
    IF seen[c].written THEN seen[c].aged /\ ~Live(seen[c].call)
                       ELSE file # NoFile /\ file.aged

Stale(c) ==
    /\ At(c, "stale")
    /\ StaleSeen(c)
    /\ Goto(c, "second")
    /\ UNCHANGED <<file, hb, beats, seen, alive>>

NotStale(c) ==
    /\ At(c, "stale")
    /\ ~StaleSeen(c)
    /\ Goto(c, "poll")
    /\ Forget(c)
    /\ UNCHANGED <<file, hb, beats, alive>>

SecondReadDiffers(c) ==
    /\ At(c, "second")
    /\ ~SameBytes(seen[c], file)
    /\ Goto(c, "poll")
    /\ Forget(c)
    /\ UNCHANGED <<file, hb, beats, alive>>

SecondReadSame(c) ==
    /\ At(c, "second")
    /\ SameBytes(seen[c], file)
    /\ IF LateRemove
       THEN Goto(c, "remove") /\ UNCHANGED file
       ELSE Goto(c, "create") /\ file' = NoFile
    /\ Forget(c)
    /\ UNCHANGED <<hb, beats, alive>>

(* A reaper that finds nothing to remove polls; one that removed a file    *)
(* tries to create it at once.                                             *)
Remove(c) ==
    /\ At(c, "remove")
    /\ file' = NoFile
    /\ Goto(c, IF file = NoFile THEN "poll" ELSE "create")
    /\ UNCHANGED <<hb, beats, seen, alive>>

-----------------------------------------------------------------------------
(* heartbeatLoop and renew, which run beside the holder *)

OwnsFile(c) == file # NoFile /\ file.call = c /\ file.written

RenewRead(c) ==
    /\ Live(c) /\ hb[c] = "tick"
    /\ OwnsFile(c) /\ beats[c] < MaxBeats
    /\ hb' = [hb EXCEPT ![c] = "renew"]
    /\ UNCHANGED <<file, pc, beats, seen, alive>>

(* AtomicReplace renames over whatever is at the path by now. *)
RenewWrite(c) ==
    /\ Live(c) /\ hb[c] = "renew"
    /\ beats' = [beats EXCEPT ![c] = @ + 1]
    /\ file' = [call |-> c, written |-> TRUE, beat |-> beats[c] + 1,
                aged |-> FALSE]
    /\ hb' = [hb EXCEPT ![c] = "tick"]
    /\ UNCHANGED <<pc, seen, alive>>

-----------------------------------------------------------------------------
(* Unlock: stop the heartbeat, wait for it to end, remove the file if it   *)
(* is still this lease's.                                                  *)

Unlock(c) ==
    /\ At(c, "held")
    /\ Goto(c, "stopping")
    /\ UNCHANGED <<file, hb, beats, seen, alive>>

(* Mutant: Unlock closes stopHeartbeat and does not wait. *)
HeartbeatStopped_NoWait(c) ==
    /\ At(c, "stopping")
    /\ Goto(c, "check")
    /\ UNCHANGED <<file, hb, beats, seen, alive>>

HeartbeatStopped(c) ==
    /\ At(c, "stopping") /\ hb[c] = "tick"
    /\ hb' = [hb EXCEPT ![c] = "off"]
    /\ Goto(c, "check")
    /\ UNCHANGED <<file, beats, seen, alive>>

OwnershipHolds(c) ==
    /\ At(c, "check")
    /\ OwnsFile(c)
    /\ Goto(c, "delete")
    /\ UNCHANGED <<file, hb, beats, seen, alive>>

(* The file is gone, another nonce's, or unreadable to the last attempt.   *)
OwnershipLost(c) ==
    /\ At(c, "check")
    /\ ~OwnsFile(c)
    /\ Goto(c, "done")
    /\ UNCHANGED <<file, hb, beats, seen, alive>>

Delete(c) ==
    /\ At(c, "delete")
    /\ file' = NoFile
    /\ Goto(c, "done")
    /\ UNCHANGED <<hb, beats, seen, alive>>

-----------------------------------------------------------------------------
(* The environment: processes die, time passes. *)

Crash(p) ==
    /\ p \in alive
    /\ TornCrash \/ \A c \in Calls : ProcOf[c] = p => pc[c] # "write"
    /\ alive' = alive \ {p}
    /\ UNCHANGED <<file, pc, hb, beats, seen>>

(* leaseStaleAfter passes without a write to the file.  A live owner that  *)
(* does not stall has renewed it by then; and while a file stays written   *)
(* that long, no reap attempt that saw an empty file is still under way.   *)
Age ==
    /\ file # NoFile /\ ~file.aged
    /\ ~Stalls =>
         /\ ~Live(file.call)
         /\ file.written =>
              \A c \in Calls : pc[c] \in {"stale", "second"} /\ Live(c)
                                  => seen[c].written
    /\ file' = [file EXCEPT !.aged = TRUE]
    /\ UNCHANGED <<pc, hb, beats, seen, alive>>

(* What a call does when it runs and its context does not end. *)
Run(c) ==
    \/ Create(c) \/ CreateExists(c) \/ Write(c) \/ Poll(c)
    \/ FirstRead(c) \/ Stale(c) \/ NotStale(c)
    \/ SecondReadDiffers(c) \/ SecondReadSame(c) \/ Remove(c)
    \/ RenewWrite(c)
    \/ Unlock(c) \/ HeartbeatStopped(c)
    \/ OwnershipHolds(c) \/ OwnershipLost(c) \/ Delete(c)

Next ==
    \/ \E c \in Calls : Run(c) \/ Acquire(c) \/ WriteFails(c) \/ CtxDone(c)
                         \/ RenewRead(c)
    \/ \E p \in Procs : Crash(p)
    \/ Age

Spec == Init /\ [][Next]_vars

(* Live goroutines run, callers leave their critical sections (every wait  *)
(* in one is bounded), and time passes.                                    *)
Fairness == WF_vars(Age) /\ \A c \in Calls : WF_vars(Run(c))

FairSpec == Spec /\ Fairness

-----------------------------------------------------------------------------
(* Types; and a heartbeat runs only while its lease is held, so that       *)
(* removeLeaseIfOwned never races with the lease's own renewal (Unlock     *)
(* waits on heartbeatDone before it looks at the file).                    *)
TypeOK ==
    /\ file \in LeaseRecord \cup {NoFile}
    /\ pc \in [Calls -> Steps]
    /\ hb \in [Calls -> {"off", "tick", "renew"}]
    /\ beats \in [Calls -> 0..MaxBeats]
    /\ seen \in [Calls -> LeaseRecord \cup {NoFile}]
    /\ alive \in SUBSET Procs
    /\ \A c \in Calls : hb[c] # "off" => pc[c] \in {"held", "stopping"}

(* Mutual exclusion among callers that are still running: between the      *)
(* return of acquireLease and the call of Unlock a caller is alone.        *)
AtMostOneHolder ==
    \A c, d \in Calls : At(c, "held") /\ At(d, "held") => c = d

(* A lock file whose writer is alive belongs to a call that will still     *)
(* remove it.  A file left behind by a call that is over would block every *)
(* later caller for the life of its process, because ownerAlive forbids    *)
(* reaping it (the orphan leaseRemoveAttempts is about).                   *)
NoOrphanLock ==
    file # NoFile /\ Live(file.call) => pc[file.call] \in OwnerSteps

(* No file of one call is ever removed or replaced by another while its    *)
(* caller holds: once held, the file at the path stays the holder's own    *)
(* until Unlock removes it (the claim of lock.go:80-82 and 313-315).       *)
HolderKeepsFile ==
    \A c \in Calls : At(c, "held") => OwnsFile(c)

(* Every caller gets the lock, or its context ends, or its process dies,   *)
(* however many owners died holding: a dead owner's file is reclaimed.     *)
CallsEnd ==
    \A c \in Calls : pc[c] = "create" ~> (pc[c] \in {"done", "failed"} \/ ~Live(c))

(* The lease implements the abstract lock: what a caller can see of its    *)
(* call is that it waits, is alone inside, and is over.                    *)
Phase ==
    [c \in Calls |->
        IF ~Live(c) \/ pc[c] \in {"stopping", "check", "delete", "done", "failed"}
        THEN "over"
        ELSE IF pc[c] = "held" THEN "in"
        ELSE IF pc[c] = "idle" THEN "out" ELSE "waiting"]

Lock == INSTANCE Mutex WITH phase <- Phase

ImplementsMutex == Lock!Spec
=============================================================================
