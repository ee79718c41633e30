----------------------------- MODULE Supervisor -----------------------------
(***************************************************************************)
(* internal/supervisor/supervisor.go, the process that runs one task: the  *)
(* main loop of Run, the signal handler goroutine, the health check        *)
(* goroutine, and the monitor goroutine runChild starts for each child.    *)
(* They share the atomic flags stopRequested and restartRequested and the  *)
(* channel stopCh (capacity 1, sent to without blocking).  restartCh is    *)
(* left out: it is sent to and drained, and nothing waits on it.  The      *)
(* attempt count only sets the length of the backoff and is left out too.  *)
(*                                                                         *)
(* A goroutine blocked on stopCh is handed a token as it is sent; here the *)
(* token lies in stopCh until it is taken.  The receiver may then choose   *)
(* its other case instead, which leaves what the other order of the two    *)
(* events leaves.                                                          *)
(***************************************************************************)
EXTENDS Integers, Sequences

CONSTANTS
    Policies,       \* the restart policies: subset of {"no", "on-failure", "always"}
    Schedules,      \* subset of {"prompt", "late"}, see schedule
    Signals,        \* what others may send: subset of {"TERM", "HUP"}
    MaxSignals,     \* bound on the signals sent
    MaxExits,       \* bound on the children that end or fail to start by themselves
    MaxProbes,      \* bound on the health checks; 0: no health check configured
    MaxChildren     \* bound on the children, large enough never to be reached

ASSUME BoundAssumption ==
    /\ MaxSignals \in Nat /\ MaxExits \in Nat /\ MaxProbes \in Nat
    /\ MaxChildren \in Nat \ {0}
ASSUME ChoiceAssumption ==
    /\ Policies \subseteq {"no", "on-failure", "always"}
    /\ Schedules \subseteq {"prompt", "late"}
    /\ Signals \subseteq {"TERM", "HUP"}

UnhealthyAfter == 3

(* A child ends by itself, or for a signal, or for UnhealthyAfter probes.  *)
ASSUME ChildrenAssumption ==
    UnhealthyAfter * MaxChildren > UnhealthyAfter * (MaxExits + MaxSignals) + MaxProbes

VARIABLES
    policy,            \* cfg.Restart
    schedule,          \* "late": a monitor may first run after its child was reaped
    m,                 \* the next step of Run
    h,                 \* the next step of the signal handler
    hc,                \* the next step of the health checker
    mon,               \* mon[k]: the monitor of the k-th child
    sigCh,             \* signals not handled yet
    stopRequested, restartRequested,
    stopCh,            \* is there a token in stopCh?
    n,                 \* children started so far
    child,             \* the n-th child's process
    code,              \* its exit code
    killed,            \* runChild's killed, of the n-th child
    failures,          \* consecutiveFailures
    exit,              \* the records in exit.json: none, or the one Run wrote
    sent, exits, probes,         \* counters for the bounds
    asked,             \* restarts requested, by signal or health check
    lateStarts,        \* children started after the stop request
    failingSince       \* the child the first counted failure was about

env == <<policy, schedule, sent, exits, probes>>
flags == <<stopRequested, restartRequested, stopCh>>
proc == <<n, child, code, killed, lateStarts>>
health == <<hc, failures, failingSince>>
vars == <<env, flags, proc, health, m, h, mon, sigCh, exit, asked>>

MainSteps == {"boot", "run", "wait", "reaped", "closed", "ended", "notStopped",
              "drain", "decide", "backoff", "woken", "exited", "dead"}

(* Run has not returned and the process has not been killed. *)
Running == m \notin {"exited", "dead"}

Init ==
    /\ policy \in Policies /\ schedule \in Schedules
    /\ m = "boot" /\ h = "idle" /\ hc = "tick"
    /\ mon = [k \in 1..MaxChildren |-> "none"]
    /\ sigCh = <<>>
    /\ stopRequested = FALSE /\ restartRequested = FALSE /\ stopCh = FALSE
    /\ n = 0 /\ child = "none" /\ code = 0 /\ killed = FALSE
    /\ failures = 0 /\ exit = {}
    /\ sent = 0 /\ exits = 0 /\ probes = 0
    /\ asked = 0 /\ lateStarts = 0 /\ failingSince = 0

-----------------------------------------------------------------------------
(* Others: signals from the service, and the child's own life. *)

(* Until signal.Notify a signal takes its default action, death; the pid   *)
(* file that invites signals is already written then.                      *)
SignalBeforeNotify ==
    /\ m = "boot" /\ sent < MaxSignals /\ Signals # {}
    /\ sent' = sent + 1
    /\ m' = "dead"
    /\ UNCHANGED <<policy, schedule, exits, probes, flags, proc, health, h, mon,
                   sigCh, exit, asked>>

Signal(s) ==
    /\ Running /\ m # "boot" /\ sent < MaxSignals
    /\ sent' = sent + 1
    /\ sigCh' = Append(sigCh, s)
    /\ UNCHANGED <<policy, schedule, exits, probes, flags, proc, health, m, h,
                   mon, exit, asked>>

ChildExits(c) ==
    /\ child \in {"up", "terminated"} /\ exits < MaxExits
    /\ exits' = exits + 1
    /\ child' = "down" /\ code' = c
    /\ UNCHANGED <<policy, schedule, sent, probes, flags, n, killed, lateStarts,
                   health, m, h, mon, sigCh, exit, asked>>

(* A child may obey SIGTERM or ignore it; it cannot ignore SIGKILL. *)
ChildObeys ==
    /\ child \in {"terminated", "killed"}
    /\ child' = "down" /\ code' = -1
    /\ UNCHANGED <<env, flags, n, killed, lateStarts, health, m, h, mon, sigCh,
                   exit, asked>>

-----------------------------------------------------------------------------
(* The signal handler *)

HandleTerm ==
    /\ Running /\ h = "idle" /\ sigCh # <<>> /\ Head(sigCh) = "TERM"
    /\ sigCh' = Tail(sigCh)
    /\ stopRequested' = TRUE
    /\ h' = "send"
    /\ UNCHANGED <<env, restartRequested, stopCh, proc, health, m, mon, exit, asked>>

HandleHup ==
    /\ Running /\ h = "idle" /\ sigCh # <<>> /\ Head(sigCh) = "HUP"
    /\ ~stopRequested
    /\ sigCh' = Tail(sigCh)
    /\ restartRequested' = TRUE /\ asked' = asked + 1
    /\ h' = "send"
    /\ UNCHANGED <<env, stopRequested, stopCh, proc, health, m, mon, exit>>

IgnoreHup ==
    /\ Running /\ h = "idle" /\ sigCh # <<>> /\ Head(sigCh) = "HUP"
    /\ stopRequested
    /\ sigCh' = Tail(sigCh)
    /\ UNCHANGED <<env, flags, proc, health, m, h, mon, exit, asked>>

(* Mutant: a restart is announced on restartCh alone. *)
HandlerSend_RestartChOnly ==
    /\ Running /\ h = "send"
    /\ stopCh' = (stopCh \/ stopRequested)
    /\ h' = "idle"
    /\ UNCHANGED <<env, stopRequested, restartRequested, proc, health, m, mon,
                   sigCh, exit, asked>>

(* A send to a full stopCh is dropped. *)
HandlerSend ==
    /\ Running /\ h = "send"
    /\ stopCh' = TRUE
    /\ h' = "idle"
    /\ UNCHANGED <<env, stopRequested, restartRequested, proc, health, m, mon,
                   sigCh, exit, asked>>

-----------------------------------------------------------------------------
(* The health checker *)

HealthSkip ==
    /\ Running /\ m # "boot" /\ hc = "tick" /\ probes < MaxProbes
    /\ restartRequested
    /\ probes' = probes + 1
    /\ failures' = 0 /\ failingSince' = 0
    /\ UNCHANGED <<policy, schedule, sent, exits, flags, proc, hc, m, h, mon,
                   sigCh, exit, asked>>

HealthProbe ==
    /\ Running /\ m # "boot" /\ hc = "tick" /\ probes < MaxProbes
    /\ ~restartRequested
    /\ probes' = probes + 1
    /\ hc' = "probe"
    /\ UNCHANGED <<policy, schedule, sent, exits, flags, proc, failures,
                   failingSince, m, h, mon, sigCh, exit, asked>>

HealthOk ==
    /\ Running /\ hc = "probe"
    /\ hc' = "tick" /\ failures' = 0 /\ failingSince' = 0
    /\ UNCHANGED <<env, flags, proc, m, h, mon, sigCh, exit, asked>>

GivesUpOnChild ==
    /\ policy \in {"on-failure", "always"}
    /\ failures + 1 >= UnhealthyAfter
    /\ ~stopRequested /\ ~restartRequested

HealthFail ==
    /\ Running /\ hc = "probe"
    /\ ~GivesUpOnChild
    /\ hc' = "tick"
    /\ failures' = failures + 1
    /\ failingSince' = IF failures = 0 THEN n ELSE failingSince
    /\ UNCHANGED <<env, flags, proc, m, h, mon, sigCh, exit, asked>>

HealthRestart ==
    /\ Running /\ hc = "probe"
    /\ GivesUpOnChild
    /\ hc' = "send"
    /\ failures' = failures + 1
    /\ restartRequested' = TRUE /\ asked' = asked + 1
    /\ UNCHANGED <<env, stopRequested, stopCh, proc, failingSince, m, h, mon,
                   sigCh, exit>>

HealthSend ==
    /\ Running /\ hc = "send"
    /\ stopCh' = TRUE
    /\ hc' = "tick" /\ failures' = 0 /\ failingSince' = 0
    /\ UNCHANGED <<env, stopRequested, restartRequested, proc, m, h, mon, sigCh,
                   exit, asked>>

-----------------------------------------------------------------------------
(* runChild's monitor goroutine.  It is "spawned" until it first runs, then *)
(* "blocked" in its select on stopCh and done.                              *)

(* done of the k-th runChild is closed. *)
DoneClosed(k) == k < n \/ m \notin {"wait", "reaped"}

MonitorBlocks(k) ==
    /\ mon[k] = "spawned"
    /\ ~stopCh /\ ~DoneClosed(k)
    /\ mon' = [mon EXCEPT ![k] = "blocked"]
    /\ UNCHANGED <<env, flags, proc, health, m, h, sigCh, exit, asked>>

(* The token is taken, killed is set and the child gets SIGTERM.  With      *)
(* done closed too, select picks either case; the child is then gone.       *)
MonitorTakes(k) ==
    /\ mon[k] \in {"spawned", "blocked"}
    /\ stopCh
    /\ stopCh' = FALSE
    /\ mon' = [mon EXCEPT ![k] = "grace"]
    /\ killed' = IF k = n THEN TRUE ELSE killed
    /\ child' = IF k = n /\ child = "up" THEN "terminated" ELSE child
    /\ UNCHANGED <<env, stopRequested, restartRequested, n, code, lateStarts,
                   health, m, h, sigCh, exit, asked>>

(* Mutant: the escalation to SIGKILL is left out. *)
MonitorKills_NotAtAll(k) ==
    /\ mon[k] = "grace"
    /\ ~DoneClosed(k)
    /\ mon' = [mon EXCEPT ![k] = "over"]
    /\ UNCHANGED <<env, flags, proc, health, m, h, sigCh, exit, asked>>

(* The child did not end within 5 seconds of SIGTERM. *)
MonitorKills(k) ==
    /\ mon[k] = "grace"
    /\ ~DoneClosed(k)
    /\ mon' = [mon EXCEPT ![k] = "over"]
    /\ child' = IF child = "terminated" THEN "killed" ELSE child
    /\ UNCHANGED <<env, flags, n, code, killed, lateStarts, health, m, h, sigCh,
                   exit, asked>>

MonitorEnds(k) ==
    /\ mon[k] \in {"spawned", "grace"}
    /\ DoneClosed(k)
    /\ mon' = [mon EXCEPT ![k] = "over"]
    /\ UNCHANGED <<env, flags, proc, health, m, h, sigCh, exit, asked>>

-----------------------------------------------------------------------------
(* Run: the main loop *)

Notify ==
    /\ m = "boot"
    /\ m' = "run"
    /\ UNCHANGED <<env, flags, proc, health, h, mon, sigCh, exit, asked>>

StartChild ==
    /\ m = "run" /\ n < MaxChildren
    /\ n' = n + 1
    /\ child' = "up" /\ code' = 0 /\ killed' = FALSE
    /\ mon' = [mon EXCEPT ![n + 1] = "spawned"]
    /\ lateStarts' = lateStarts + IF stopRequested THEN 1 ELSE 0
    /\ m' = "wait"
    /\ UNCHANGED <<env, flags, health, h, sigCh, exit, asked>>

StartFails ==
    /\ m = "run" /\ exits < MaxExits
    /\ exits' = exits + 1
    /\ code' = -1 /\ killed' = FALSE
    /\ m' = "ended"
    /\ UNCHANGED <<policy, schedule, sent, probes, flags, n, child, lateStarts,
                   health, h, mon, sigCh, exit, asked>>

Wait ==
    /\ m = "wait" /\ child = "down"
    /\ m' = "reaped"
    /\ UNCHANGED <<env, flags, proc, health, h, mon, sigCh, exit, asked>>

(* Mutant: done is never closed. *)
CloseDone_Not ==
    /\ m = "reaped"
    /\ schedule = "prompt" => mon[n] # "spawned"
    /\ m' = "closed"
    /\ UNCHANGED <<env, flags, proc, health, h, mon, sigCh, exit, asked>>

(* close(done) wakes a blocked monitor, which then takes no token.          *)
CloseDone ==
    /\ m = "reaped"
    /\ schedule = "prompt" => mon[n] # "spawned"
    /\ mon' = IF mon[n] = "blocked" THEN [mon EXCEPT ![n] = "over"] ELSE mon
    /\ m' = "closed"
    /\ UNCHANGED <<env, flags, proc, health, h, sigCh, exit, asked>>

(* Mutant: the code of a killed child is its own. *)
RunChildReturns_OwnCode ==
    /\ m = "closed"
    /\ m' = "ended"
    /\ UNCHANGED <<env, flags, proc, health, h, mon, sigCh, exit, asked>>

RunChildReturns ==
    /\ m = "closed"
    /\ code' = IF killed THEN -1 ELSE code
    /\ m' = "ended"
    /\ UNCHANGED <<env, flags, n, child, killed, lateStarts, health, h, mon,
                   sigCh, exit, asked>>

ReturnStopped ==
    /\ m = "ended" /\ stopRequested
    /\ exit' = {[code |-> code, signal |-> TRUE]}
    /\ m' = "exited"
    /\ UNCHANGED <<env, flags, proc, health, h, mon, sigCh, asked>>

(* Mutant: only the restart policy is looked at. *)
NotStopped_Unchecked ==
    /\ m = "ended"
    /\ m' = "notStopped"
    /\ UNCHANGED <<env, flags, proc, health, h, mon, sigCh, exit, asked>>

NotStopped ==
    /\ m = "ended" /\ ~stopRequested
    /\ m' = "notStopped"
    /\ UNCHANGED <<env, flags, proc, health, h, mon, sigCh, exit, asked>>

RestartNow ==
    /\ m = "notStopped" /\ restartRequested
    /\ restartRequested' = FALSE
    /\ m' = "drain"
    /\ UNCHANGED <<env, stopRequested, stopCh, proc, health, h, mon, sigCh, exit,
                   asked>>

Drain ==
    /\ m = "drain"
    /\ stopCh' = FALSE
    /\ m' = "run"
    /\ UNCHANGED <<env, stopRequested, restartRequested, proc, health, h, mon,
                   sigCh, exit, asked>>

NoRestartAsked ==
    /\ m = "notStopped" /\ ~restartRequested
    /\ m' = "decide"
    /\ UNCHANGED <<env, flags, proc, health, h, mon, sigCh, exit, asked>>

(* Mutant: every failure is retried. *)
ShouldRestart_AnyFailure ==
    policy = "always" \/ code # 0

ShouldRestart ==
    \/ policy = "always"
    \/ policy = "on-failure" /\ code # 0

ReturnExited ==
    /\ m = "decide" /\ ~ShouldRestart
    /\ exit' = {[code |-> code, signal |-> FALSE]}
    /\ m' = "exited"
    /\ UNCHANGED <<env, flags, proc, health, h, mon, sigCh, asked>>

BackOff ==
    /\ m = "decide" /\ ShouldRestart
    /\ m' = "backoff"
    /\ UNCHANGED <<env, flags, proc, health, h, mon, sigCh, exit, asked>>

BackoffTimer ==
    /\ m = "backoff"
    /\ m' = "run"
    /\ UNCHANGED <<env, flags, proc, health, h, mon, sigCh, exit, asked>>

BackoffWoken ==
    /\ m = "backoff" /\ stopCh
    /\ stopCh' = FALSE
    /\ m' = "woken"
    /\ UNCHANGED <<env, stopRequested, restartRequested, proc, health, h, mon,
                   sigCh, exit, asked>>

(* Stopped between two children: the exit carries no signal. *)
WokenStopped ==
    /\ m = "woken" /\ stopRequested
    /\ exit' = {[code |-> code, signal |-> FALSE]}
    /\ m' = "exited"
    /\ UNCHANGED <<env, flags, proc, health, h, mon, sigCh, asked>>

WokenRestart ==
    /\ m = "woken" /\ ~stopRequested
    /\ restartRequested' = FALSE
    /\ m' = "run"
    /\ UNCHANGED <<env, stopRequested, stopCh, proc, health, h, mon, sigCh, exit,
                   asked>>

Monitors == \E k \in 1..n :
    MonitorBlocks(k) \/ MonitorTakes(k) \/ MonitorKills(k) \/ MonitorEnds(k)

Main ==
    \/ Notify \/ StartChild \/ Wait \/ CloseDone \/ RunChildReturns
    \/ ReturnStopped \/ NotStopped \/ RestartNow \/ Drain \/ NoRestartAsked
    \/ ReturnExited \/ BackOff \/ BackoffTimer \/ BackoffWoken
    \/ WokenStopped \/ WokenRestart

Handler == HandleTerm \/ HandleHup \/ IgnoreHup \/ HandlerSend

Checker ==
    HealthSkip \/ HealthProbe \/ HealthOk \/ HealthFail \/ HealthRestart \/ HealthSend

(* Nothing runs once the process has ended. *)
Next ==
    \/ Main \/ StartFails \/ Handler \/ Checker
    \/ Running /\ Monitors
    \/ \E s \in Signals : Signal(s)
    \/ SignalBeforeNotify
    \/ \E c \in {0, 1} : ChildExits(c)
    \/ ChildObeys

Spec == Init /\ [][Next]_vars

(* Goroutines run; a killed child dies; a child may run for ever otherwise.*)
Fairness ==
    /\ WF_vars(Main) /\ WF_vars(Handler)
    /\ WF_vars(hc \in {"probe", "send"} /\ Checker)
    /\ \A k \in 1..MaxChildren :
          WF_vars(Running /\ k <= n /\ (MonitorBlocks(k) \/ MonitorTakes(k)
                                        \/ MonitorKills(k) \/ MonitorEnds(k)))
    /\ WF_vars(child = "killed" /\ ChildObeys)

FairSpec == Spec /\ Fairness

-----------------------------------------------------------------------------
(* Types; a monitor waits for a token only while its child's runChild is   *)
(* under way; and the bound on the children never stops the model.         *)
TypeOK ==
    /\ policy \in Policies /\ schedule \in Schedules
    /\ m \in MainSteps
    /\ h \in {"idle", "send"} /\ hc \in {"tick", "probe", "send"}
    /\ mon \in [1..MaxChildren -> {"none", "spawned", "blocked", "grace", "over"}]
    /\ sigCh \in Seq(Signals)
    /\ stopRequested \in BOOLEAN /\ restartRequested \in BOOLEAN
    /\ stopCh \in BOOLEAN /\ killed \in BOOLEAN
    /\ n \in 0..MaxChildren /\ failingSince \in 0..MaxChildren
    /\ child \in {"none", "up", "terminated", "killed", "down"}
    /\ code \in {-1, 0, 1}
    /\ failures \in Nat /\ asked \in Nat /\ lateStarts \in Nat
    /\ sent \in 0..MaxSignals /\ exits \in 0..MaxExits /\ probes \in 0..MaxProbes
    /\ exit \subseteq [code : {-1, 0, 1}, signal : BOOLEAN]
    /\ \A k \in 1..MaxChildren : mon[k] = "blocked" => ~DoneClosed(k)
    /\ m = "run" => n < MaxChildren

(* However stop, restarts, health checks and child exits interleave, at    *)
(* most one child is started after a stop was requested.                   *)
OneStartAfterStop == lateStarts <= 1

(* Without a restart policy every child but the first was asked for: a     *)
(* restart request is consumed by the restart it causes, so one request    *)
(* never restarts the task twice.                                          *)
RestartsAskedFor == policy = "no" => n <= 1 + asked

(* A supervisor that returns leaves no child running and has recorded how  *)
(* the last one ended: a signal only if a stop was requested, and code -1  *)
(* for a child its monitor signalled, whatever code that child exited with *)
(* (a monitor that first runs after the child was reaped comes too late).  *)
ExitRecorded ==
    m = "exited" =>
        /\ child \in {"none", "down"}
        /\ exit # {}
        /\ \A e \in exit : e.signal => stopRequested
        /\ schedule = "prompt" /\ killed => \A e \in exit : e.code = -1

(* A stop request ends the supervisor even if the child ignores SIGTERM    *)
(* and would run for ever, provided that no restart is requested as well   *)
(* and that a child's monitor first runs before the child was reaped.      *)
StopEnds == (schedule = "prompt" /\ stopRequested) ~> (~Running \/ asked > 0)

(* A single restart request is served: a child is started for it or the    *)
(* supervisor ends.                                                        *)
RestartServed ==
    (schedule = "prompt" /\ restartRequested)
        ~> (~restartRequested \/ ~Running \/ asked > 1)

(* Draining stopCh prevents "stale signals from killing the next child"    *)
(* (supervisor.go:282-283): a child killed by its monitor was killed for a *)
(* stop or a restart that is still to be carried out when Run looks.       *)
KilledOnRequest == m = "decide" => ~killed

(* The failure count does not carry over into the next child's life        *)
(* (supervisor.go:215-217): the failures that make the health checker ask  *)
(* for a restart began with the child it replaces.                         *)
HealthJudgesOneChild ==
    [][hc = "probe" /\ hc' = "send" => failingSince \in {0, n}]_vars
=============================================================================
