--------------------------- MODULE TaskLifecycle ---------------------------
(***************************************************************************)
(* One task and everything that acts on it: the requests of                *)
(* internal/taskservice (run, start, stop, restart, remove, cleanup, and   *)
(* the replacement of a task by a run of the same name), the supervisors   *)
(* they launch, and the children these start.  What they share is the task *)
(* directory, the lock of the task and the signals between processes.      *)
(*                                                                         *)
(* The lock is the abstract one that Lease implements.  A supervisor is    *)
(* the sequence of its effects on the directory and on its child; what its *)
(* goroutines may do to each other is in Supervisor, and its stopCh is     *)
(* prompt here.  The k-th supervisor has pid k and creation time k, the    *)
(* k-th child likewise; no pid is used twice.                              *)
(*                                                                         *)
(* Constants for what may go wrong around the program:                     *)
(*   GivesUp      a request may end its wait for readiness, or its lock be *)
(*                reclaimed, before the launched supervisor has recorded   *)
(*                its pid                                                  *)
(*   EarlyAccess  others may lock a new task before the run that made it   *)
(*   KillsInStart a supervisor may be killed after it started a child and  *)
(*                before it recorded it                                    *)
(*   Ends         what an ended supervisor may be: "gone", or a "zombie"   *)
(*                of the long-lived server that launched it                *)
(***************************************************************************)
EXTENDS Naturals, FiniteSets

CONSTANTS
    Callers, None, Ops, Ends, GivesUp, EarlyAccess, KillsInStart,
    MaxSups, MaxChildren,            \* bounds on what is launched and started
    MaxOps,                          \* bound on the requests
    MaxExits,                        \* bound on the children that end by themselves
    MaxCrashes                       \* bound on the processes killed from outside

AllOps == {"run", "start", "stop", "forceStop", "restart", "forceRestart",
           "remove", "forceRemove", "cleanup", "replace"}

ASSUME OpAssumption == Ops \subseteq AllOps /\ None \notin Callers
ASSUME FaultAssumption ==
    /\ Ends \subseteq {"gone", "zombie"} /\ Ends # {}
    /\ GivesUp \in BOOLEAN /\ EarlyAccess \in BOOLEAN /\ KillsInStart \in BOOLEAN
ASSUME BoundAssumption ==
    {MaxSups, MaxChildren, MaxOps, MaxExits, MaxCrashes} \subseteq Nat

VARIABLES
    meta,        \* does the task directory exist?
    rec,         \* the files in it: supervisor.pid, createtime, child.pid,
                 \* child.createtime (0: absent) and exit.json
    lock,        \* who holds the task's lock
    sup,         \* sup[k]: the k-th supervisor
    up,          \* the children that run
    call,        \* call[c]: the request c is making
    again,       \* meta.Restart = "always"
    autoRm,      \* meta.AutoRm
    started, ops, exits, crashes     \* counters for the bounds

task == <<meta, rec>>
config == <<again, autoRm>>
bounds == <<started, ops, exits, crashes>>
vars == <<task, lock, sup, up, call, config, bounds>>

Sups == 1..MaxSups
Children == 1..MaxChildren

NoRecord == [sup |-> 0, time |-> 0, child |-> 0, ctime |-> 0, exit |-> FALSE]

(* at "none": not launched yet *)
Unborn == [at |-> "none", kid |-> 0, sig |-> {}, flag |-> {}]

Booting == {"launched", "meta", "pid", "time"}

(* The process exists and is no zombie; IsAlive does not tell the latter.  *)
Running(k) == sup[k].at \notin {"none", "gone", "zombie"}
IsAlive(k) == sup[k].at \notin {"none", "gone"}

(* The supervisor k may not have written its pid yet. *)
Starting(k) == sup[k].at \in {"launched", "meta", "pid"}

(* Creation times tell k from the process of the record, if there is one.  *)
VerifyPID(k, time) == time = 0 \/ time = k

Init ==
    /\ meta = FALSE /\ rec = NoRecord
    /\ lock = None
    /\ sup = [k \in Sups |-> Unborn]
    /\ up = {}
    /\ call = [c \in Callers |-> [at |-> "idle", op |-> "none", pid |-> 0]]
    /\ again \in BOOLEAN /\ autoRm \in BOOLEAN
    /\ started = 0 /\ ops = 0 /\ exits = 0 /\ crashes = 0

-----------------------------------------------------------------------------
(* Processes: how they end and what a signal does to them. *)

(* The supervisor k, at its step s, does something and goes on to t. *)
SupStep(k, s, t) ==
    /\ sup[k].at = s
    /\ sup' = [sup EXCEPT ![k].at = t]

Ended(k) == \E e \in Ends : sup' = [sup EXCEPT ![k] = [Unborn EXCEPT !.at = e]]

(* SIGKILL.  The child of a killed supervisor lives on. *)
SignalKill(k) ==
    IF Running(k)
    THEN /\ KillsInStart \/ sup[k].at \notin {"started", "recorded"}
         /\ Ended(k)
    ELSE UNCHANGED sup

(* SIGTERM and SIGHUP end a supervisor that is not in signal.Notify yet.   *)
Signal(k, s) ==
    IF sup[k].at \in Booting THEN Ended(k)
    ELSE IF Running(k) THEN sup' = [sup EXCEPT ![k].sig = @ \cup {s}]
    ELSE UNCHANGED sup

-----------------------------------------------------------------------------
(* A supervisor: SupervisorCmd.Run and supervisor.Run *)

(* A step that needs the task directory; without it the supervisor ends.   *)
NeedsDir(k, s, t, newRec) ==
    /\ sup[k].at = s
    /\ IF meta THEN SupStep(k, s, t) /\ rec' = newRec
               ELSE Ended(k) /\ UNCHANGED rec
    /\ UNCHANGED <<meta, lock, up, call, config, bounds>>

ReadsMeta(k) == NeedsDir(k, "launched", "meta", rec)
WritesPID(k) == NeedsDir(k, "meta", "pid", [rec EXCEPT !.sup = k])
WritesTime(k) == NeedsDir(k, "pid", "time", [rec EXCEPT !.time = k])
OpensLog(k) == NeedsDir(k, "time", "run", rec)

(* Errors of these writes are ignored. *)
IfDir(newRec) == rec' = IF meta THEN newRec ELSE rec

StartsChild(k) ==
    /\ sup[k].at = "run" /\ started < MaxChildren
    /\ started' = started + 1
    /\ sup' = [sup EXCEPT ![k].at = "started", ![k].kid = started + 1]
    /\ up' = up \cup {started + 1}
    /\ UNCHANGED <<task, lock, call, config, ops, exits, crashes>>

RecordsChild(k) ==
    /\ SupStep(k, "started", "recorded")
    /\ IfDir([rec EXCEPT !.child = sup[k].kid])
    /\ UNCHANGED <<meta, lock, up, call, config, bounds>>

(* Mutant: the creation time of a later child is not recorded. *)
RecordsChildTime_OnlyFirst(k) ==
    /\ SupStep(k, "recorded", "wait")
    /\ IfDir([rec EXCEPT !.ctime = IF @ = 0 THEN sup[k].kid ELSE @])
    /\ UNCHANGED <<meta, lock, up, call, config, bounds>>

RecordsChildTime(k) ==
    /\ SupStep(k, "recorded", "wait")
    /\ IfDir([rec EXCEPT !.ctime = sup[k].kid])
    /\ UNCHANGED <<meta, lock, up, call, config, bounds>>

(* The signal handler, which ignores SIGHUP once a stop was requested.     *)
HandlesSignal(k) ==
    /\ Running(k)
    /\ \E s \in sup[k].sig :
          sup' = [sup EXCEPT ![k].sig = @ \ {s},
                             ![k].flag = IF s = "TERM" THEN @ \cup {"stop"}
                                         ELSE IF "stop" \in @ THEN @
                                         ELSE @ \cup {"restart"}]
    /\ UNCHANGED <<task, lock, up, call, config, bounds>>

(* The monitor: SIGTERM, then SIGKILL to the child. *)
EndsChild(k) ==
    /\ sup[k].at = "wait" /\ sup[k].flag # {} /\ sup[k].kid \in up
    /\ up' = up \ {sup[k].kid}
    /\ UNCHANGED <<task, lock, sup, call, config, bounds>>

Decision(flag) ==
    IF "stop" \in flag THEN "stopped"
    ELSE IF "restart" \in flag THEN "run"
    ELSE IF again THEN "backoff" ELSE "exited"

(* The child has ended and Run decides. *)
Decides(k) ==
    /\ sup[k].at = "wait" /\ sup[k].kid \notin up
    /\ sup' = [sup EXCEPT ![k].at = Decision(sup[k].flag), ![k].kid = 0,
                          ![k].flag = @ \ {"restart"}]
    /\ UNCHANGED <<task, lock, up, call, config, bounds>>

(* A child that cannot be started counts as one that failed. *)
StartFails(k) ==
    /\ sup[k].at = "run" /\ exits < MaxExits
    /\ exits' = exits + 1
    /\ sup' = [sup EXCEPT ![k].at = Decision(sup[k].flag),
                          ![k].flag = @ \ {"restart"}]
    /\ UNCHANGED <<task, lock, up, call, config, started, ops, crashes>>

BackoffTimer(k) ==
    /\ SupStep(k, "backoff", "run")
    /\ UNCHANGED <<task, lock, up, call, config, bounds>>

BackoffWoken(k) ==
    /\ sup[k].at = "backoff" /\ sup[k].flag # {}
    /\ sup' = [sup EXCEPT ![k].at = IF "stop" \in sup[k].flag THEN "stopped" ELSE "run",
                          ![k].flag = @ \ {"restart"}]
    /\ UNCHANGED <<task, lock, up, call, config, bounds>>

(* Only a child that ended by itself takes the directory of an --rm task   *)
(* with it.                                                                *)
WritesExit(k) ==
    /\ \/ SupStep(k, "stopped", "end")
       \/ SupStep(k, "exited", IF autoRm THEN "rm" ELSE "end")
    /\ IfDir([rec EXCEPT !.exit = TRUE])
    /\ UNCHANGED <<meta, lock, up, call, config, bounds>>

(* Store.Remove, without the lock *)
AutoRemoves(k) ==
    /\ SupStep(k, "rm", "end")
    /\ meta' = FALSE /\ rec' = NoRecord
    /\ UNCHANGED <<lock, up, call, config, bounds>>

Leaves(k) ==
    /\ sup[k].at = "end"
    /\ Ended(k)
    /\ UNCHANGED <<task, lock, up, call, config, bounds>>

SupervisorRuns(k) ==
    \/ ReadsMeta(k) \/ WritesPID(k) \/ WritesTime(k) \/ OpensLog(k)
    \/ StartsChild(k) \/ RecordsChild(k) \/ RecordsChildTime(k)
    \/ HandlesSignal(k) \/ EndsChild(k) \/ Decides(k) \/ BackoffTimer(k) \/ BackoffWoken(k)
    \/ WritesExit(k) \/ AutoRemoves(k) \/ Leaves(k)

(* Children end by themselves; supervisors are killed from outside. *)
ChildExits ==
    /\ exits < MaxExits
    /\ exits' = exits + 1
    /\ \E b \in up : up' = up \ {b}
    /\ UNCHANGED <<task, lock, sup, call, config, started, ops, crashes>>

SupCrashes(k) ==
    /\ crashes < MaxCrashes /\ Running(k)
    /\ crashes' = crashes + 1
    /\ SignalKill(k)
    /\ UNCHANGED <<task, lock, up, call, config, started, ops, exits>>

-----------------------------------------------------------------------------
(* A request: resolve the task, take its lock, act on what is found, unlock.*)

CallStep(c, s, t) ==
    /\ call[c].at = s
    /\ call' = [call EXCEPT ![c].at = t]

(* Run creates a new task, the first request of all; the others find it by *)
(* its name or id.                                                         *)
Ask(c, o) ==
    /\ call[c].at = "idle" /\ ops < MaxOps
    /\ ops' = ops + 1
    /\ IF o = "run" THEN ops = 0 /\ meta' = TRUE ELSE meta /\ UNCHANGED meta
    /\ call' = [call EXCEPT ![c] = [at |-> "lock", op |-> o, pid |-> 0]]
    /\ UNCHANGED <<rec, lock, sup, up, config, started, exits, crashes>>

(* Run looks at nothing once it has the lock of its new task. *)
Lock(c) ==
    /\ lock = None
    /\ CallStep(c, "lock", IF call[c].op = "run" THEN "launch" ELSE "read")
    /\ EarlyAccess \/ \A d \in Callers \ {c} : call[d].at = "lock" => call[d].op # "run"
    /\ lock' = c
    /\ UNCHANGED <<task, sup, up, config, bounds>>

(* The context ends; Run removes what it created. *)
LockFails(c) ==
    /\ CallStep(c, "lock", "idle")
    /\ meta' = (meta /\ call[c].op # "run")
    /\ rec' = IF call[c].op = "run" THEN NoRecord ELSE rec
    /\ UNCHANGED <<lock, sup, up, config, bounds>>

ReadMeta(c) ==
    /\ CallStep(c, "read", IF meta THEN "verify" ELSE "unlock")
    /\ UNCHANGED <<task, lock, sup, up, config, bounds>>

(* verifyAndGetPID, and what each request does about the answer *)
Recorded == rec.sup # 0 /\ IsAlive(rec.sup) /\ VerifyPID(rec.sup, rec.time)

IfAlive(o) ==
    CASE o \in {"stop", "remove", "replace"} -> "term"
      [] o \in {"forceStop", "forceRemove"} -> "kill"
      [] o = "restart" -> "hup"
      [] o = "forceRestart" -> "killChild"
      [] o \in {"start", "cleanup"} -> "unlock"

(* Mutant: Start takes it for granted that a dead supervisor's child died. *)
IfDead_NoOrphan(o) ==
    CASE o \in {"stop", "forceStop", "restart", "forceRestart"} -> "unlock"
      [] o \in {"remove", "forceRemove", "cleanup"} -> "remove"
      [] o = "start" -> "clear"
      [] o = "replace" -> "killChild"

IfDead(o) ==
    CASE o \in {"stop", "forceStop", "restart", "forceRestart"} -> "unlock"
      [] o \in {"remove", "forceRemove", "cleanup"} -> "remove"
      [] o \in {"start", "replace"} -> "killChild"

Verify(c) ==
    /\ call[c].at = "verify"
    /\ call' = IF Recorded
               THEN [call EXCEPT ![c].at = IfAlive(call[c].op), ![c].pid = rec.sup]
               ELSE [call EXCEPT ![c].at = IfDead(call[c].op)]
    /\ UNCHANGED <<task, lock, sup, up, config, bounds>>

(* gracefulStop *)
Terminate(c) ==
    /\ CallStep(c, "term", "wait")
    /\ Signal(call[c].pid, "TERM")
    /\ UNCHANGED <<task, lock, up, config, bounds>>

WaitOver(c) ==
    /\ CallStep(c, "wait", "killChild")
    /\ ~IsAlive(call[c].pid)
    /\ UNCHANGED <<task, lock, sup, up, config, bounds>>

(* Mutant: a supervisor that does not end in time is left alone. *)
WaitTimesOut_NoKill(c) ==
    /\ CallStep(c, "wait", "killChild")
    /\ IsAlive(call[c].pid)
    /\ UNCHANGED <<task, lock, sup, up, config, bounds>>

WaitTimesOut(c) ==
    /\ CallStep(c, "wait", "killChild")
    /\ IsAlive(call[c].pid)
    /\ SignalKill(call[c].pid)
    /\ UNCHANGED <<task, lock, up, config, bounds>>

Kill(c) ==
    /\ CallStep(c, "kill", "killChild")
    /\ SignalKill(call[c].pid)
    /\ UNCHANGED <<task, lock, up, config, bounds>>

AfterKill(o) ==
    CASE o \in {"stop", "forceStop"} -> "unlock"
      [] o \in {"remove", "forceRemove", "replace", "run"} -> "remove"
      [] o = "forceRestart" -> "hup"
      [] o = "start" -> "clear"

(* killChildIfVerified *)
KillChild(c) ==
    /\ CallStep(c, "killChild", AfterKill(call[c].op))
    /\ up' = IF VerifyPID(rec.child, rec.ctime) THEN up \ {rec.child} ELSE up
    /\ UNCHANGED <<task, lock, sup, config, bounds>>

Hangup(c) ==
    /\ CallStep(c, "hup", "unlock")
    /\ Signal(call[c].pid, "HUP")
    /\ UNCHANGED <<task, lock, up, config, bounds>>

Remove(c) ==
    /\ CallStep(c, "remove", "unlock")
    /\ meta' = FALSE /\ rec' = NoRecord
    /\ UNCHANGED <<lock, sup, up, config, bounds>>

-----------------------------------------------------------------------------
(* Launching: the rest of startByRef and of Run *)

(* Mutant: the exit of the last supervisor is kept. *)
ClearExit_Not(c) ==
    /\ CallStep(c, "clear", "launch")
    /\ UNCHANGED <<task, lock, sup, up, config, bounds>>

ClearExit(c) ==
    /\ CallStep(c, "clear", "launch")
    /\ rec' = [rec EXCEPT !.exit = FALSE]
    /\ UNCHANGED <<meta, lock, sup, up, config, bounds>>

Launch(c) ==
    /\ call[c].at = "launch"
    /\ \E k \in Sups :
          /\ \A j \in Sups : sup[j].at = "none" <=> j >= k
          /\ sup' = [sup EXCEPT ![k].at = "launched"]
          /\ call' = [call EXCEPT ![c].at = "await", ![c].pid = k]
    /\ UNCHANGED <<task, lock, up, config, bounds>>

(* checkLaunched *)
Evidence(k) ==
    \/ rec.exit
    \/ ~meta
    \/ rec.sup = k /\ (VerifyPID(k, rec.time) \/ ~IsAlive(k))

(* Mutant: a launch is taken to succeed. *)
LaunchConfirmed_AtOnce(c) ==
    /\ CallStep(c, "await", "unlock")
    /\ UNCHANGED <<task, lock, sup, up, config, bounds>>

LaunchConfirmed(c) ==
    /\ CallStep(c, "await", "unlock")
    /\ Evidence(call[c].pid)
    /\ UNCHANGED <<task, lock, sup, up, config, bounds>>

(* Run abandons what it launched; Start leaves it alone. *)
LaunchDied(c) ==
    /\ CallStep(c, "await", IF call[c].op = "run" THEN "killChild" ELSE "unlock")
    /\ ~Evidence(call[c].pid) /\ ~IsAlive(call[c].pid)
    /\ UNCHANGED <<task, lock, sup, up, config, bounds>>

(* The timeout, or the end of the request's context. *)
LaunchGivenUp(c) ==
    /\ call[c].at = "await"
    /\ GivesUp \/ ~Starting(call[c].pid)
    /\ CallStep(c, "await", IF call[c].op # "run" THEN "unlock"
                            ELSE IF IsAlive(call[c].pid) THEN "term" ELSE "killChild")
    /\ UNCHANGED <<task, lock, sup, up, config, bounds>>

Unlock(c) ==
    /\ CallStep(c, "unlock", "idle")
    /\ lock' = None
    /\ UNCHANGED <<task, sup, up, config, bounds>>

(* The caller's process dies at any point; its lock goes stale and is      *)
(* reaped after leaseStaleAfter.                                           *)
CallerDies(c) ==
    /\ crashes < MaxCrashes /\ call[c].at \notin {"idle", "dead"}
    /\ crashes' = crashes + 1
    /\ call' = [call EXCEPT ![c].at = "dead"]
    /\ UNCHANGED <<task, lock, sup, up, config, started, ops, exits>>

(* Mutant: a lease is reclaimed from a caller that lives. *)
LeaseReaped_LiveOwner(c) ==
    /\ lock = c
    /\ GivesUp \/ \A k \in Sups : ~Starting(k)
    /\ lock' = None
    /\ UNCHANGED <<task, sup, up, call, config, bounds>>

LeaseReaped(c) ==
    /\ lock = c /\ call[c].at = "dead"
    /\ GivesUp \/ \A k \in Sups : ~Starting(k)
    /\ lock' = None
    /\ UNCHANGED <<task, sup, up, call, config, bounds>>

RequestRuns(c) ==
    \/ Lock(c) \/ ReadMeta(c) \/ Verify(c)
    \/ Terminate(c) \/ WaitOver(c) \/ WaitTimesOut(c) \/ Kill(c) \/ KillChild(c)
    \/ Hangup(c) \/ Remove(c)
    \/ ClearExit(c) \/ Launch(c) \/ LaunchConfirmed(c) \/ LaunchDied(c)
    \/ Unlock(c) \/ LeaseReaped(c)

Next ==
    \/ \E c \in Callers :
          \/ RequestRuns(c) \/ LockFails(c) \/ LaunchGivenUp(c) \/ CallerDies(c)
          \/ \E o \in Ops : Ask(c, o)
    \/ \E k \in Sups : SupervisorRuns(k) \/ StartFails(k) \/ SupCrashes(k)
    \/ ChildExits

Spec == Init /\ [][Next]_vars

-----------------------------------------------------------------------------
CallSteps == {"idle", "lock", "read", "verify", "term", "wait", "kill", "killChild",
              "hup", "remove", "clear", "launch", "await", "unlock", "dead"}

SupSteps == Booting \cup {"none", "run", "started", "recorded", "wait", "backoff",
                          "stopped", "exited", "rm", "end", "gone", "zombie"}

Records ==
    [sup : 0..MaxSups, time : 0..MaxSups, child : 0..MaxChildren,
     ctime : 0..MaxChildren, exit : BOOLEAN]

Supervisors ==
    [Sups -> [at : SupSteps, kid : 0..MaxChildren, sig : SUBSET {"TERM", "HUP"},
              flag : SUBSET {"stop", "restart"}]]

Requests ==
    [Callers -> [at : CallSteps, op : AllOps \cup {"none"}, pid : 0..MaxSups]]

(* Types; and a request that has got past "lock" holds the lock. *)
TypeOK ==
    /\ meta \in BOOLEAN /\ rec \in Records
    /\ lock \in Callers \cup {None}
    /\ sup \in Supervisors /\ up \subseteq Children
    /\ call \in Requests
    /\ again \in BOOLEAN /\ autoRm \in BOOLEAN
    /\ \A c \in Callers : call[c].at \notin {"idle", "lock", "dead"} => lock = c

(* At most one supervisor serves the task, whatever requests, crashes and  *)
(* abandoned launches come together (lifecycle.go:149-153, run.go:29-31).  *)
(* One that only has to exit serves no more.                               *)
OneSupervisor ==
    \A j, k \in Sups :
        /\ Running(j) /\ sup[j].at # "end"
        /\ Running(k) /\ sup[k].at # "end"
        => j = k

(* The task's command never runs twice at a time: a child that outlived    *)
(* its supervisor is killed before another one is launched.                *)
OneChild == Cardinality(up) <= 1

(* A child whose supervisor is gone is still on record, pid and creation   *)
(* time, so that the next start or replacement can find it and kill it.    *)
StrayOnRecord ==
    \A b \in up :
        \/ \E k \in Sups : Running(k) /\ sup[k].kid = b
        \/ meta => rec.child = b /\ VerifyPID(b, rec.ctime)

(* A request that stopped a task has stopped all of it: when it unlocks,   *)
(* the supervisor it found has ended and no child runs.                    *)
StopsAll ==
    \A c \in Callers :
        /\ call[c].at = "unlock" /\ call[c].pid # 0
        /\ call[c].op \in {"stop", "forceStop", "remove", "forceRemove", "replace"}
        => ~Running(call[c].pid) /\ up = {}

(* A task with an exit on record is reported as exited, whatever its pid   *)
(* files say: no supervisor may still be going to serve it, and no child   *)
(* of one run.                                                             *)
ExitIsFinal ==
    rec.exit => \A k \in Sups : Running(k) => sup[k].at \in {"rm", "end"}

(* "The supervisor stays alive throughout" a restart (help.go:122-124): a  *)
(* supervisor that was sent a restart does not end for want of a policy.   *)
RestartKeepsSupervisor ==
    \A k \in Sups :
        sup[k].at = "exited" => "HUP" \notin sup[k].sig

(* Start relaunches a task that has exited: it refuses one as running only *)
(* if its supervisor does run (lifecycle.go:142-143, help.go:131).         *)
RefusesOnlyRunning ==
    [][\A c \in Callers :
          /\ call[c].op = "start" /\ call[c].at = "verify"
          /\ call'[c].at = "unlock"
          => Running(rec.sup)]_vars
=============================================================================
