-------------------------- MODULE SupervisorProofs --------------------------
(***************************************************************************)
(* Theorems about the supervisor, for every number of signals, child       *)
(* exits, health checks and children, and every schedule of its goroutines.*)
(***************************************************************************)
EXTENDS Supervisor, TLAPS

(* The facts the invariants need of the types. *)
Counters ==
    /\ n \in Nat /\ asked \in Nat /\ lateStarts \in Nat
    /\ stopRequested \in BOOLEAN /\ restartRequested \in BOOLEAN

(* Once the one child after a stop request runs, runChild's return is the  *)
(* end: the flag is never cleared and is looked at first.                  *)
StopInv ==
    /\ lateStarts <= 1
    /\ lateStarts = 1 =>
         /\ stopRequested
         /\ m \in {"wait", "reaped", "closed", "ended", "exited", "dead"}

(* Without a policy each request is still pending, or about to start a     *)
(* child, or has started one; it is never two of these.                    *)
AboutToStart == m \in {"boot", "run", "drain"}

AskedInv ==
    policy = "no" =>
        /\ n <= asked + 1
        /\ AboutToStart => n <= asked
        /\ restartRequested => n <= asked
        /\ AboutToStart /\ restartRequested => n + 1 <= asked
        /\ m \notin {"backoff", "woken"}

SupInv == Counters /\ StopInv /\ AskedInv

LEMMA InitInv == Init => SupInv
  <1> SUFFICES ASSUME Init PROVE SupInv
    OBVIOUS
  <1>1. stopRequested \in BOOLEAN /\ restartRequested \in BOOLEAN /\ ~restartRequested
    BY Zenon DEF Init
  <1>2. n = 0 /\ asked = 0 /\ lateStarts = 0 /\ m = "boot"
    BY DEF Init
  <1>3. QED
    BY <1>1, <1>2 DEF SupInv, Counters, StopInv, AskedInv, AboutToStart

(* The steps of the main loop. *)
LEMMA MainInv ==
    ASSUME SupInv, Main \/ StartFails
    PROVE  SupInv'
  <1> USE DEF SupInv, Counters, StopInv, AskedInv, AboutToStart,
              env, flags, proc, health
  <1>1. CASE Notify \/ StartFails
    BY <1>1 DEF Notify, StartFails
  <1>2. CASE StartChild
    BY <1>2 DEF StartChild
  <1>3. CASE Wait \/ CloseDone \/ RunChildReturns
    BY <1>3 DEF Wait, CloseDone, RunChildReturns
  <1>4. CASE ReturnStopped \/ NotStopped \/ NoRestartAsked
    BY <1>4 DEF ReturnStopped, NotStopped, NoRestartAsked
  <1>5. CASE RestartNow
    BY <1>5 DEF RestartNow
  <1>6. CASE Drain
    BY <1>6 DEF Drain
  <1>7. CASE ReturnExited \/ BackOff
    BY <1>7 DEF ReturnExited, BackOff, ShouldRestart
  <1>8. CASE BackoffTimer \/ BackoffWoken \/ WokenStopped \/ WokenRestart
    BY <1>8 DEF BackoffTimer, BackoffWoken, WokenStopped, WokenRestart
  <1>9. QED
    BY <1>1, <1>2, <1>3, <1>4, <1>5, <1>6, <1>7, <1>8 DEF Main

(* The steps of the other goroutines and of the outside. *)
LEMMA OthersInv ==
    ASSUME SupInv,
           \/ Handler \/ Checker \/ Monitors \/ ChildObeys \/ SignalBeforeNotify
           \/ (\E s \in Signals : Signal(s)) \/ (\E c \in {0, 1} : ChildExits(c))
    PROVE  SupInv'
  <1> USE DEF SupInv, Counters, StopInv, AskedInv, AboutToStart,
              env, flags, proc, health
  <1>1. CASE Handler
    <2>1. CASE HandleTerm
      <3>1. stopRequested' /\ stopRequested' \in BOOLEAN
        BY <2>1, Zenon DEF HandleTerm
      <3>2. UNCHANGED <<policy, n, asked, lateStarts, restartRequested, m>>
        BY <2>1 DEF HandleTerm
      <3>3. QED
        BY <3>1, <3>2
    <2>4. CASE IgnoreHup \/ HandlerSend
      BY <2>4 DEF IgnoreHup, HandlerSend
    <2>2. CASE HandleHup
      BY <2>2 DEF HandleHup
    <2>3. QED
      BY <1>1, <2>1, <2>2, <2>4 DEF Handler
  <1>2. CASE Checker
    <2>1. CASE HealthRestart
      BY <2>1 DEF HealthRestart, GivesUpOnChild
    <2>2. CASE HealthSkip \/ HealthProbe \/ HealthOk \/ HealthFail \/ HealthSend
      BY <2>2 DEF HealthSkip, HealthProbe, HealthOk, HealthFail, HealthSend
    <2>3. QED
      BY <1>2, <2>1, <2>2 DEF Checker
  <1>3. CASE Monitors
    <2>1. UNCHANGED <<policy, n, asked, lateStarts, stopRequested, restartRequested, m>>
      BY <1>3 DEF Monitors, MonitorBlocks, MonitorTakes, MonitorKills, MonitorEnds
    <2>2. QED
      BY <2>1
  <1>4. CASE ChildObeys \/ SignalBeforeNotify
    BY <1>4 DEF ChildObeys, SignalBeforeNotify
  <1>5. CASE \E s \in Signals : Signal(s)
    BY <1>5 DEF Signal
  <1>6. CASE \E c \in {0, 1} : ChildExits(c)
    BY <1>6 DEF ChildExits
  <1>7. QED
    BY <1>1, <1>2, <1>3, <1>4, <1>5, <1>6

LEMMA Invariant == Spec => []SupInv
  <1>1. SupInv /\ [Next]_vars => SupInv'
    <2>1. ASSUME SupInv, UNCHANGED vars
          PROVE  SupInv'
      BY <2>1 DEF SupInv, Counters, StopInv, AskedInv, AboutToStart,
                  vars, env, flags, proc, health
    <2>2. QED
      BY <2>1, MainInv, OthersInv DEF Next
  <1>2. QED
    BY <1>1, InitInv, PTL DEF Spec

(* After a stop request at most one more child is ever started, even when  *)
(* the token that should have killed it is lost (Run, supervisor.go:265).  *)
THEOREM AtMostOneStartAfterStop == Spec => []OneStartAfterStop
  <1>1. SupInv => OneStartAfterStop
    BY DEF SupInv, StopInv, OneStartAfterStop
  <1>2. QED
    BY <1>1, Invariant, PTL

(* Without a restart policy a restart request starts at most one child.    *)
THEOREM OneRestartPerRequest == Spec => []RestartsAskedFor
  <1>1. SupInv => RestartsAskedFor
    BY DEF SupInv, Counters, AskedInv, AboutToStart, RestartsAskedFor
  <1>2. QED
    BY <1>1, Invariant, PTL

-----------------------------------------------------------------------------
(* Exit records *)

(* Only a child that Run waits for may run; only then may its monitor be   *)
(* about to take a token, if monitors run in time; and what a signalled    *)
(* child leaves is code -1 from the return of runChild on.                 *)
Returned == {"run", "ended", "notStopped", "drain", "decide", "backoff", "woken", "exited"}

ExitInv ==
    /\ n \in 0..MaxChildren
    /\ mon \in [1..MaxChildren -> {"none", "spawned", "blocked", "grace", "over"}]
    /\ m = "boot" => n = 0 /\ ~killed
    /\ m # "wait" => child \in {"none", "down"}
    /\ schedule = "prompt" /\ m \notin {"wait", "reaped"} =>
          \A k \in 1..MaxChildren : k = n => mon[k] \notin {"spawned", "blocked"}
    /\ schedule = "prompt" /\ killed /\ m \in Returned => code = -1
    /\ m = "exited" =>
          /\ exit # {}
          /\ \A e \in exit : (e.signal => stopRequested) /\ e.code = code

LEMMA ExitInit == Init => ExitInv
  BY BoundAssumption DEF Init, ExitInv, Returned

LEMMA ExitMain ==
    ASSUME ExitInv, Main \/ StartFails
    PROVE  ExitInv'
  <1> USE BoundAssumption DEF ExitInv, Returned, env, flags, proc, health
  <1>1. CASE Notify \/ StartFails
    BY <1>1 DEF Notify, StartFails
  <1>2. CASE StartChild
    BY <1>2 DEF StartChild
  <1>3. CASE Wait \/ RunChildReturns
    BY <1>3 DEF Wait, RunChildReturns
  <1>4. CASE CloseDone
    BY <1>4 DEF CloseDone
  <1>5. CASE ReturnStopped \/ ReturnExited \/ WokenStopped
    <2>1. /\ m \in {"ended", "decide", "woken"} /\ m' = "exited"
          /\ UNCHANGED <<schedule, stopRequested, n, child, code, killed, mon>>
      BY <1>5 DEF ReturnStopped, ReturnExited, WokenStopped
    <2>2. \/ stopRequested /\ exit' = {[code |-> code, signal |-> TRUE]}
          \/ exit' = {[code |-> code, signal |-> FALSE]}
      BY <1>5, Zenon DEF ReturnStopped, ReturnExited, WokenStopped
    <2>3. ASSUME NEW e \in exit' PROVE (e.signal => stopRequested) /\ e.code = code
      <3>1. CASE stopRequested /\ e = [code |-> code, signal |-> TRUE]
        BY <3>1, Zenon
      <3>2. CASE e = [code |-> code, signal |-> FALSE]
        BY <3>2, Zenon
      <3>3. QED
        BY <2>2, <3>1, <3>2
    <2>4. exit' # {}
      BY <2>2
    <2>5. QED
      BY <2>1, <2>3, <2>4
  <1>6. CASE NotStopped \/ NoRestartAsked \/ BackOff \/ BackoffTimer
    BY <1>6 DEF NotStopped, NoRestartAsked, BackOff, BackoffTimer
  <1>7. CASE RestartNow \/ Drain \/ BackoffWoken \/ WokenRestart
    BY <1>7 DEF RestartNow, Drain, BackoffWoken, WokenRestart
  <1>8. QED
    BY <1>1, <1>2, <1>3, <1>4, <1>5, <1>6, <1>7 DEF Main

(* No handler, checker or monitor runs once Run has returned, and only a   *)
(* monitor of the child Run waits for changes what that child leaves.      *)
LEMMA ExitOthers ==
    ASSUME ExitInv,
           \/ Handler \/ Checker \/ (Running /\ Monitors) \/ ChildObeys \/ SignalBeforeNotify
           \/ (\E s \in Signals : Signal(s)) \/ (\E c \in {0, 1} : ChildExits(c))
    PROVE  ExitInv'
  <1> USE BoundAssumption DEF ExitInv, Returned, env, flags, proc, health
  <1>1. CASE Handler
    BY <1>1 DEF Handler, HandleTerm, HandleHup, IgnoreHup, HandlerSend, Running
  <1>2. CASE Checker
    BY <1>2 DEF Checker, HealthSkip, HealthProbe, HealthOk, HealthFail, HealthRestart, HealthSend
  <1>3. ASSUME Running, NEW k \in 1..n,
               MonitorBlocks(k) \/ MonitorTakes(k) \/ MonitorKills(k) \/ MonitorEnds(k)
        PROVE  ExitInv'
    <2>1. CASE MonitorBlocks(k)
      BY <2>1 DEF MonitorBlocks, DoneClosed
    <2>2. CASE MonitorTakes(k)
      BY <2>2, <1>3 DEF MonitorTakes, Running
    <2>3. CASE MonitorKills(k)
      BY <2>3 DEF MonitorKills
    <2>4. CASE MonitorEnds(k)
      BY <2>4 DEF MonitorEnds
    <2>5. QED
      BY <1>3, <2>1, <2>2, <2>3, <2>4
  <1>4. CASE ChildObeys \/ SignalBeforeNotify
    BY <1>4 DEF ChildObeys, SignalBeforeNotify
  <1>5. CASE \E s \in Signals : Signal(s)
    BY <1>5 DEF Signal
  <1>6. CASE \E c \in {0, 1} : ChildExits(c)
    BY <1>6 DEF ChildExits
  <1>7. QED
    BY <1>1, <1>2, <1>3, <1>4, <1>5, <1>6 DEF Monitors

(* A supervisor that returns leaves no child behind and a truthful exit:   *)
(* a signal only after a stop request, and code -1 for a child it killed.  *)
THEOREM ExitsRecorded == Spec => []ExitRecorded
  <1>1. ExitInv /\ [Next]_vars => ExitInv'
    <2>1. ASSUME ExitInv, UNCHANGED vars
          PROVE  ExitInv'
      BY <2>1 DEF ExitInv, Returned, vars, env, flags, proc, health
    <2>2. QED
      BY <2>1, ExitMain, ExitOthers DEF Next
  <1>2. ExitInv => ExitRecorded
    BY DEF ExitInv, Returned, ExitRecorded
  <1>3. QED
    BY <1>1, <1>2, ExitInit, PTL DEF Spec

-----------------------------------------------------------------------------
(* Types, and the number of children                                       *)

Flags ==
    /\ stopRequested \in BOOLEAN /\ restartRequested \in BOOLEAN
    /\ stopCh \in BOOLEAN /\ killed \in BOOLEAN

Chosen ==
    /\ policy \in Policies /\ schedule \in Schedules
    /\ m \in MainSteps /\ h \in {"idle", "send"} /\ hc \in {"tick", "probe", "send"}
    /\ child \in {"none", "up", "terminated", "killed", "down"} /\ code \in {-1, 0, 1}
    /\ mon \in [1..MaxChildren -> {"none", "spawned", "blocked", "grace", "over"}]
    /\ sigCh \in Seq(Signals)
    /\ exit \subseteq [code : {-1, 0, 1}, signal : BOOLEAN]

Counts ==
    /\ n \in 0..MaxChildren /\ failingSince \in 0..MaxChildren
    /\ failures \in Nat /\ asked \in Nat /\ lateStarts \in Nat
    /\ sent \in 0..MaxSignals /\ exits \in 0..MaxExits /\ probes \in 0..MaxProbes

(* A monitor is blocked only while Run waits for its child. *)
BlockedInv ==
    \A k \in 1..MaxChildren : mon[k] = "blocked" => k = n /\ m \in {"wait", "reaped"}

(* Every child that is gone, or is about to go, went by itself or took one *)
(* of the tokens that signals and health checks put into stopCh; it takes  *)
(* UnhealthyAfter health checks to send one.                               *)
Gone(k, at, c) == k - IF at = "wait" /\ c = "up" THEN 1 ELSE 0

One(b) == IF b THEN 1 ELSE 0

Tokens(ch, x, y) ==
    One(ch) + (IF x = "send" THEN 1 ELSE 0) + (IF y = "send" THEN 1 ELSE 0)

Failing(f, y) ==
    f + CASE y = "probe" -> 1 [] y = "send" -> -UnhealthyAfter [] OTHER -> 0

Balanced(g, t, f, e, s, l, p) == UnhealthyAfter * (g + t) + f <= UnhealthyAfter * (e + s - l) + p

GoneInv ==
    /\ hc = "send" => failures >= UnhealthyAfter
    /\ Balanced(Gone(n, m, child), Tokens(stopCh, h, hc), Failing(failures, hc),
                exits, sent, Len(sigCh), probes)

TypeInv == Flags /\ Chosen /\ Counts /\ BlockedInv /\ GoneInv

LEMMA TypeInit == Init => TypeInv
  <1> SUFFICES ASSUME Init PROVE TypeInv
    OBVIOUS
  <1>1. Flags
    BY Zenon DEF Init, Flags
  <1>2. Chosen
    BY DEF Init, Chosen, MainSteps
  <1>3. Counts /\ BlockedInv
    BY BoundAssumption DEF Init, Counts, BlockedInv
  <1>4. GoneInv
    <2>1. Len(<<>>) = 0 /\ ~stopCh
      BY DEF Init
    <2>2. QED
      BY <2>1 DEF Init, GoneInv, Gone, Tokens, Failing, UnhealthyAfter, One, Balanced
  <1>5. QED
    BY <1>1, <1>2, <1>3, <1>4 DEF TypeInv

LEMMA FlagsStep == ASSUME Flags, Next PROVE Flags'
  <1> USE DEF Flags, env, flags, proc, health
  <1>1. CASE Main \/ StartFails
    BY <1>1, Zenon DEF Main, StartFails, Notify, StartChild, Wait, CloseDone, RunChildReturns,
          ReturnStopped, NotStopped, RestartNow, Drain, NoRestartAsked, ReturnExited, BackOff,
          BackoffTimer, BackoffWoken, WokenStopped, WokenRestart
  <1>2. CASE Handler \/ Checker
    BY <1>2, Zenon DEF Handler, HandleTerm, HandleHup, IgnoreHup, HandlerSend, Checker, HealthSkip,
          HealthProbe, HealthOk, HealthFail, HealthRestart, HealthSend
  <1>3. CASE Running /\ Monitors
    <2>1. PICK k \in 1..n : MonitorBlocks(k) \/ MonitorTakes(k) \/ MonitorKills(k) \/ MonitorEnds(k)
      BY <1>3 DEF Monitors
    <2>2. CASE k = n
      BY <2>1, <2>2, Zenon DEF MonitorBlocks, MonitorTakes, MonitorKills, MonitorEnds
    <2>3. CASE k # n
      BY <2>1, <2>3, Zenon DEF MonitorBlocks, MonitorTakes, MonitorKills, MonitorEnds
    <2>4. QED
      BY <2>2, <2>3
  <1>4. CASE ChildObeys \/ SignalBeforeNotify
    BY <1>4, Zenon DEF ChildObeys, SignalBeforeNotify
  <1>5. CASE (\E s \in Signals : Signal(s)) \/ (\E c \in {0, 1} : ChildExits(c))
    BY <1>5, Zenon DEF Signal, ChildExits
  <1>6. QED
    BY <1>1, <1>2, <1>3, <1>4, <1>5 DEF Next

LEMMA ChosenStep == ASSUME Chosen, Counts, Next PROVE Chosen'
  <1> USE DEF Chosen, MainSteps, env, flags, proc, health
  <1>1. CASE StartChild
    BY <1>1 DEF StartChild, Counts
  <1>2. CASE ReturnStopped \/ ReturnExited \/ WokenStopped
    <2>0. exit' \subseteq {[code |-> code, signal |-> TRUE], [code |-> code, signal |-> FALSE]}
      BY <1>2, Zenon DEF ReturnStopped, ReturnExited, WokenStopped
    <2>1. exit' \subseteq [code : {-1, 0, 1}, signal : BOOLEAN]
      <3>1. TRUE \in BOOLEAN /\ FALSE \in BOOLEAN /\ code \in {-1, 0, 1}
        OBVIOUS
      <3>2. \A b \in BOOLEAN : [code |-> code, signal |-> b] \in [code : {-1, 0, 1}, signal : BOOLEAN]
        BY <3>1, Zenon
      <3>3. QED
        BY <2>0, <3>1, <3>2, Zenon
    <2>2. QED
      BY <1>2, <2>1 DEF ReturnStopped, ReturnExited, WokenStopped
  <1>3. CASE Main /\ ~StartChild /\ ~ReturnStopped /\ ~ReturnExited /\ ~WokenStopped
    BY <1>3 DEF Main, Notify, Wait, CloseDone, RunChildReturns, NotStopped, RestartNow, Drain,
          NoRestartAsked, BackOff, BackoffTimer, BackoffWoken, WokenRestart
  <1>4. CASE StartFails \/ ChildObeys \/ SignalBeforeNotify
    BY <1>4 DEF StartFails, ChildObeys, SignalBeforeNotify
  <1>5. CASE Handler
    <2>1. CASE HandlerSend
      BY <2>1 DEF HandlerSend
    <2>2. CASE HandleTerm \/ HandleHup \/ IgnoreHup
      <3>1. sigCh' = Tail(sigCh) /\ sigCh # <<>>
        BY <2>2 DEF HandleTerm, HandleHup, IgnoreHup
      <3>2. sigCh' \in Seq(Signals)
        BY <3>1
      <3>3. QED
        BY <2>2, <3>2 DEF HandleTerm, HandleHup, IgnoreHup
    <2>3. QED
      BY <1>5, <2>1, <2>2 DEF Handler
  <1>6. CASE Checker
    BY <1>6 DEF Checker, HealthSkip, HealthProbe, HealthOk, HealthFail, HealthRestart, HealthSend
  <1>7. CASE Running /\ Monitors
    BY ZenonT(30), <1>7 DEF Monitors, MonitorBlocks, MonitorTakes, MonitorKills, MonitorEnds
  <1>8. CASE \E s \in Signals : Signal(s)
    BY <1>8 DEF Signal
  <1>9. CASE \E c \in {0, 1} : ChildExits(c)
    BY <1>9 DEF ChildExits
  <1>10. QED
    BY <1>1, <1>2, <1>3, <1>4, <1>5, <1>6, <1>7, <1>8, <1>9 DEF Next, Main

LEMMA CountsStep == ASSUME Counts, Next PROVE Counts'
  <1> USE BoundAssumption DEF Counts, env, flags, proc, health
  <1>1. CASE Main \/ StartFails
    BY <1>1 DEF Main, StartFails, Notify, StartChild, Wait, CloseDone, RunChildReturns,
          ReturnStopped, NotStopped, RestartNow, Drain, NoRestartAsked, ReturnExited, BackOff,
          BackoffTimer, BackoffWoken, WokenStopped, WokenRestart
  <1>2. CASE Handler
    BY SMTT(30), <1>2 DEF Handler, HandleTerm, HandleHup, IgnoreHup, HandlerSend
  <1>3. CASE Checker
    BY <1>3 DEF Checker, HealthSkip, HealthProbe, HealthOk, HealthFail, HealthRestart, HealthSend
  <1>4. CASE Running /\ Monitors
    BY <1>4 DEF Monitors, MonitorBlocks, MonitorTakes, MonitorKills, MonitorEnds
  <1>5. CASE ChildObeys \/ SignalBeforeNotify
    BY <1>5 DEF ChildObeys, SignalBeforeNotify
  <1>6. CASE \E s \in Signals : Signal(s)
    BY <1>6 DEF Signal
  <1>7. CASE \E c \in {0, 1} : ChildExits(c)
    BY <1>7 DEF ChildExits
  <1>8. QED
    BY <1>1, <1>2, <1>3, <1>4, <1>5, <1>6, <1>7 DEF Next

LEMMA BlockedStep == ASSUME Chosen, Counts, BlockedInv, Next PROVE BlockedInv'
  <1> USE BoundAssumption DEF Chosen, Counts, BlockedInv, env, flags, proc, health
  <1>1. CASE Main \/ StartFails
    <2>1. CASE CloseDone
      BY <2>1 DEF CloseDone
    <2>2. CASE StartChild
      BY <2>2 DEF StartChild
    <2>3. CASE (Main \/ StartFails) /\ ~CloseDone /\ ~StartChild
      BY <2>3 DEF Main, StartFails, Notify, Wait, RunChildReturns, ReturnStopped, NotStopped,
            RestartNow, Drain, NoRestartAsked, ReturnExited, BackOff, BackoffTimer, BackoffWoken,
            WokenStopped, WokenRestart
    <2>4. QED
      BY <1>1, <2>1, <2>2, <2>3
  <1>2. CASE Handler \/ Checker
    BY <1>2 DEF Handler, HandleTerm, HandleHup, IgnoreHup, HandlerSend, Checker, HealthSkip,
          HealthProbe, HealthOk, HealthFail, HealthRestart, HealthSend
  <1>3. ASSUME NEW k \in 1..n,
               MonitorBlocks(k) \/ MonitorTakes(k) \/ MonitorKills(k) \/ MonitorEnds(k)
        PROVE  BlockedInv'
    <2>1. CASE MonitorBlocks(k)
      BY <2>1 DEF MonitorBlocks, DoneClosed
    <2>2. CASE MonitorTakes(k) \/ MonitorKills(k) \/ MonitorEnds(k)
      BY <2>2 DEF MonitorTakes, MonitorKills, MonitorEnds
    <2>3. QED
      BY <1>3, <2>1, <2>2
  <1>4. CASE ChildObeys \/ SignalBeforeNotify
    BY <1>4 DEF ChildObeys, SignalBeforeNotify
  <1>5. CASE (\E s \in Signals : Signal(s)) \/ (\E c \in {0, 1} : ChildExits(c))
    BY <1>5 DEF Signal, ChildExits
  <1>6. QED
    BY <1>1, <1>2, <1>3, <1>4, <1>5 DEF Next, Monitors

LEMMA Ones == /\ \A b : One(b) \in {0, 1}
              /\ One(TRUE) = 1 /\ One(FALSE) = 0 /\ \A b : b => One(b) = 1
  BY Zenon DEF One

LEMMA GoneTyped == \A k \in Int : \A at, c : Gone(k, at, c) \in Int
  BY DEF Gone

LEMMA TokensTyped == \A ch, x, y : Tokens(ch, x, y) \in Nat
  BY Ones DEF Tokens

LEMMA FailingTyped == \A f \in Int : \A y : Failing(f, y) \in Int
  BY Ones DEF Failing, UnhealthyAfter

Ints ==
    /\ Gone(n, m, child) \in Int /\ Tokens(stopCh, h, hc) \in Int /\ Failing(failures, hc) \in Int
    /\ n \in Nat /\ failures \in Nat
    /\ exits \in Nat /\ sent \in Nat /\ probes \in Nat /\ Len(sigCh) \in Nat

LEMMA IntsTyped == ASSUME Chosen, Counts PROVE Ints
  <1>1. n \in Int /\ failures \in Int /\ n \in Nat /\ failures \in Nat
    BY BoundAssumption DEF Counts
  <1>2. exits \in Nat /\ sent \in Nat /\ probes \in Nat
    BY BoundAssumption DEF Counts
  <1>3. Len(sigCh) \in Nat
    BY DEF Chosen
  <1>4. QED
    BY <1>1, <1>2, <1>3, GoneTyped, TokensTyped, FailingTyped DEF Ints

LEMMA IntsTypedNext == ASSUME Chosen', Counts' PROVE Ints'
  <1>1. n' \in Int /\ failures' \in Int /\ n' \in Nat /\ failures' \in Nat
    BY BoundAssumption DEF Counts
  <1>2. exits' \in Nat /\ sent' \in Nat /\ probes' \in Nat
    BY BoundAssumption DEF Counts
  <1>3. Len(sigCh') \in Nat
    BY DEF Chosen
  <1>4. QED
    BY <1>1, <1>2, <1>3, GoneTyped, TokensTyped, FailingTyped DEF Ints

(* A step that no count depends on. *)
Counted == <<h, hc, stopCh, failures, sigCh, exits, sent, probes>>

LEMMA GoneSame ==
    ASSUME GoneInv, UNCHANGED Counted, Gone(n, m, child)' = Gone(n, m, child)
    PROVE  GoneInv'
  BY DEF GoneInv, Counted

LEMMA GoneMain ==
    ASSUME Ints, Ints', GoneInv, ExitInv, Main \/ StartFails
    PROVE  GoneInv'
  <1>1. CASE StartFails
    <2>1. /\ UNCHANGED <<h, hc, stopCh, failures, sigCh, sent, probes, n>>
          /\ m = "run" /\ m' = "ended" /\ exits' = exits + 1
      BY <1>1 DEF StartFails, flags, health
    <2>2. Gone(n, m, child)' = Gone(n, m, child)
      BY <2>1 DEF Gone
    <2>3. QED
      BY <2>1, <2>2 DEF GoneInv, Ints, Balanced, UnhealthyAfter
  <1>2. CASE Drain \/ BackoffWoken
    <2>1. /\ UNCHANGED <<h, hc, failures, sigCh, exits, sent, probes, n>>
          /\ m \in {"drain", "backoff"} /\ m' \in {"run", "woken"} /\ stopCh' = FALSE
      BY <1>2 DEF Drain, BackoffWoken, env, proc, health
    <2>2. Gone(n, m, child)' = Gone(n, m, child)
      BY <2>1 DEF Gone
    <2>3. Tokens(stopCh, h, hc)' <= Tokens(stopCh, h, hc)
      <3>1. One(stopCh') = 0
        BY <2>1, Ones
      <3>2. QED
        BY <2>1, <3>1, Ones DEF Tokens
    <2>4. QED
      BY <2>1, <2>2, <2>3 DEF GoneInv, Ints, Balanced, UnhealthyAfter
  <1>3. CASE \/ Notify \/ StartChild \/ Wait \/ CloseDone \/ RunChildReturns
             \/ ReturnStopped \/ NotStopped \/ RestartNow \/ NoRestartAsked \/ ReturnExited
             \/ BackOff \/ BackoffTimer \/ WokenStopped \/ WokenRestart
    <2>1. UNCHANGED Counted
      BY <1>3 DEF Notify, StartChild, Wait, CloseDone, RunChildReturns, ReturnStopped, NotStopped,
            RestartNow, NoRestartAsked, ReturnExited, BackOff, BackoffTimer, WokenStopped,
            WokenRestart, Counted, env, flags, health
    <2>2. CASE StartChild
      BY <2>1, <2>2, GoneSame DEF StartChild, Gone, Ints
    <2>3. CASE Wait
      BY <2>1, <2>3, GoneSame DEF Wait, Gone, proc
    <2>4. CASE ~StartChild /\ ~Wait
      <3>1. m # "wait" /\ m' # "wait" /\ n' = n
        BY <1>3, <2>4 DEF Notify, CloseDone, RunChildReturns, ReturnStopped, NotStopped,
              RestartNow, NoRestartAsked, ReturnExited, BackOff, BackoffTimer, WokenStopped,
              WokenRestart, proc
      <3>2. QED
        BY <2>1, <3>1, GoneSame DEF Gone
    <2>5. QED
      BY <2>2, <2>3, <2>4
  <1>4. QED
    BY <1>1, <1>2, <1>3 DEF Main

LEMMA GoneHandler ==
    ASSUME Chosen, Ints, Ints', GoneInv, Handler
    PROVE  GoneInv'
  <1>1. UNCHANGED <<hc, failures, exits, sent, probes, n, m, child>>
    BY DEF Handler, HandleTerm, HandleHup, IgnoreHup, HandlerSend, env, proc, health
  <1>2. CASE HandlerSend
    <2>1. h = "send" /\ h' = "idle" /\ stopCh' = TRUE /\ sigCh' = sigCh
      BY <1>2 DEF HandlerSend
    <2>2. Tokens(stopCh, h, hc)' <= Tokens(stopCh, h, hc)
      <3>1. One(stopCh') = 1
        BY <2>1, Ones
      <3>2. h = "send" /\ h' # "send"
        BY <2>1
      <3>3. QED
        BY <1>1, <3>1, <3>2, Ones DEF Tokens
    <2>3. /\ Gone(n, m, child)' = Gone(n, m, child)
          /\ Failing(failures, hc)' = Failing(failures, hc)
          /\ UNCHANGED <<hc, failures, exits, sent, probes, sigCh>>
      BY <1>1, <2>1
    <2>4. QED
      BY <2>2, <2>3 DEF GoneInv, Ints, Balanced, UnhealthyAfter
  <1>3. CASE HandleTerm \/ HandleHup \/ IgnoreHup
    <2>1. /\ sigCh' = Tail(sigCh) /\ sigCh # <<>> /\ stopCh' = stopCh
          /\ h = "idle"
      BY <1>3 DEF HandleTerm, HandleHup, IgnoreHup, flags
    <2>2. Len(sigCh') = Len(sigCh) - 1
      BY <2>1 DEF Chosen
    <2>3. Tokens(stopCh, h, hc)' <= Tokens(stopCh, h, hc) + 1
      BY <1>1, <2>1, Ones DEF Tokens
    <2>4. QED
      BY SMTT(30), <1>1, <2>2, <2>3 DEF GoneInv, Ints, Balanced, UnhealthyAfter
  <1>4. QED
    BY <1>2, <1>3 DEF Handler

LEMMA GoneChecker ==
    ASSUME Ints, Ints', GoneInv, Checker
    PROVE  GoneInv'
  <1>1. UNCHANGED <<h, sigCh, exits, sent, n, m, child>>
    BY DEF Checker, HealthSkip, HealthProbe, HealthOk, HealthFail, HealthRestart, HealthSend,
           env, proc
  <1>2. CASE HealthSkip \/ HealthProbe
    <2>1. /\ hc = "tick" /\ probes' = probes + 1 /\ stopCh' = stopCh
          /\ (hc' = "tick" /\ failures' = 0) \/ (hc' = "probe" /\ failures' = failures)
      BY <1>2 DEF HealthSkip, HealthProbe, flags
    <2>2. Tokens(stopCh, h, hc)' = Tokens(stopCh, h, hc)
      BY <1>1, <2>1 DEF Tokens, One
    <2>3. Failing(failures, hc)' <= Failing(failures, hc) + 1
      BY <1>1, <2>1 DEF Failing, One, Ints
    <2>4. QED
      BY SMTT(30), <1>1, <2>1, <2>2, <2>3 DEF GoneInv, Ints, Balanced, UnhealthyAfter
  <1>3. CASE HealthOk \/ HealthFail
    <2>1. /\ hc = "probe" /\ hc' = "tick" /\ UNCHANGED <<probes, stopCh>>
          /\ (failures' = 0 \/ failures' = failures + 1)
      BY <1>3 DEF HealthOk, HealthFail, flags, env
    <2>2. Tokens(stopCh, h, hc)' = Tokens(stopCh, h, hc)
      BY <1>1, <2>1 DEF Tokens, One
    <2>3. Failing(failures, hc)' <= Failing(failures, hc)
      BY <1>1, <2>1 DEF Failing, One, Ints
    <2>4. QED
      BY <1>1, <2>1, <2>2, <2>3 DEF GoneInv, Ints, Balanced, UnhealthyAfter
  <1>4. CASE HealthRestart
    <2>1. /\ hc = "probe" /\ hc' = "send" /\ UNCHANGED <<probes, stopCh>>
          /\ failures' = failures + 1 /\ failures' >= UnhealthyAfter
      BY <1>4 DEF HealthRestart, GivesUpOnChild, env
    <2>2. Tokens(stopCh, h, hc)' = Tokens(stopCh, h, hc) + 1
      BY <1>1, <2>1, Ones DEF Tokens
    <2>3. Failing(failures, hc)' = Failing(failures, hc) - UnhealthyAfter
      BY <2>1 DEF Failing, UnhealthyAfter, Ints
    <2>4. QED
      BY SMTT(30), <1>1, <2>1, <2>2, <2>3 DEF GoneInv, Ints, Balanced, UnhealthyAfter
  <1>5. CASE HealthSend
    <2>1. hc = "send" /\ hc' = "tick" /\ probes' = probes /\ failures' = 0 /\ failures >= UnhealthyAfter
      BY <1>5 DEF HealthSend, env, GoneInv
    <2>2. One(stopCh') = 1
      BY <1>5, Ones DEF HealthSend
    <2>3. Tokens(stopCh, h, hc)' <= Tokens(stopCh, h, hc)
      BY <1>1, <2>1, <2>2, Ones DEF Tokens
    <2>4. Failing(failures, hc)' <= Failing(failures, hc)
      BY SMTT(30), <2>1 DEF Failing, UnhealthyAfter, Ints
    <2>5. QED
      BY <1>1, <2>1, <2>3, <2>4 DEF GoneInv, Ints, Balanced, UnhealthyAfter
  <1>6. QED
    BY <1>2, <1>3, <1>4, <1>5 DEF Checker

LEMMA GoneTakes ==
    ASSUME NEW k, MonitorTakes(k), Ints, Ints', GoneInv
    PROVE  GoneInv'
  <1>1. UNCHANGED <<h, hc, failures, sigCh, exits, sent, probes, n, m>>
    BY DEF MonitorTakes, env, health
  <1>2. One(stopCh) = 1 /\ One(stopCh') = 0
    BY Zenon DEF MonitorTakes, One
  <1>3. Tokens(stopCh, h, hc)' = Tokens(stopCh, h, hc) - 1
    BY <1>1, <1>2, Ones DEF Tokens
  <1>4. Gone(n, m, child)' <= Gone(n, m, child) + 1
    BY <1>1 DEF Gone, Ints
  <1>5. Failing(failures, hc)' = Failing(failures, hc)
    BY <1>1
  <1>6. Gone(n, m, child)' \in Int /\ Tokens(stopCh, h, hc)' \in Int
    BY DEF Ints
  <1>7. Gone(n, m, child) \in Int /\ Tokens(stopCh, h, hc) \in Int
    BY DEF Ints
  <1>8. Gone(n, m, child)' + Tokens(stopCh, h, hc)' <= Gone(n, m, child) + Tokens(stopCh, h, hc)
    BY <1>3, <1>4, <1>6, <1>7
  <1>9. /\ Failing(failures, hc) \in Int /\ Len(sigCh) \in Nat
        /\ exits \in Nat /\ sent \in Nat /\ probes \in Nat
        /\ Balanced(Gone(n, m, child), Tokens(stopCh, h, hc), Failing(failures, hc), exits, sent,
                    Len(sigCh), probes)
    BY DEF Ints, GoneInv
  <1>10. Balanced(Gone(n, m, child)', Tokens(stopCh, h, hc)', Failing(failures, hc), exits, sent,
                 Len(sigCh), probes)
    BY <1>6, <1>7, <1>8, <1>9 DEF Balanced, UnhealthyAfter
  <1>11. QED
    BY <1>1, <1>5, <1>10 DEF GoneInv

LEMMA GoneObeys ==
    ASSUME Ints, Ints', GoneInv, ChildObeys \/ SignalBeforeNotify
    PROVE  GoneInv'
  <1>1. UNCHANGED <<h, hc, stopCh, failures, sigCh, exits, probes, n>> /\ (sent' = sent \/ sent' = sent + 1)
    BY DEF ChildObeys, SignalBeforeNotify, Counted, env, flags, health, proc
  <1>2. Gone(n, m, child)' = Gone(n, m, child)
    <2>1. CASE ChildObeys
      BY <2>1 DEF ChildObeys, Gone
    <2>2. CASE SignalBeforeNotify
      BY <2>2 DEF SignalBeforeNotify, Gone, proc
    <2>3. QED
      BY <2>1, <2>2
  <1>3. /\ Failing(failures, hc)' = Failing(failures, hc)
        /\ Tokens(stopCh, h, hc)' = Tokens(stopCh, h, hc)
    BY <1>1
  <1>4. sent' >= sent
    BY <1>1 DEF Ints
  <1>5. /\ Failing(failures, hc) \in Int /\ Len(sigCh) \in Nat
        /\ exits \in Nat /\ sent \in Nat /\ probes \in Nat
        /\ Balanced(Gone(n, m, child), Tokens(stopCh, h, hc), Failing(failures, hc), exits, sent,
                    Len(sigCh), probes)
    BY DEF Ints, GoneInv
  <1>6. Gone(n, m, child) \in Int /\ Tokens(stopCh, h, hc) \in Int /\ sent' \in Nat
    BY DEF Ints
  <1>7. Balanced(Gone(n, m, child), Tokens(stopCh, h, hc), Failing(failures, hc), exits, sent',
                 Len(sigCh), probes)
    <2>1. UnhealthyAfter * (exits + sent - Len(sigCh)) <= UnhealthyAfter * (exits + sent' - Len(sigCh))
      BY <1>4, <1>5, <1>6 DEF UnhealthyAfter
    <2>2. /\ UnhealthyAfter * (exits + sent - Len(sigCh)) \in Int
          /\ UnhealthyAfter * (exits + sent' - Len(sigCh)) \in Int
          /\ UnhealthyAfter * (Gone(n, m, child) + Tokens(stopCh, h, hc)) \in Int
      BY <1>5, <1>6 DEF UnhealthyAfter
    <2>3. QED
      BY <2>1, <2>2, <1>5 DEF Balanced
  <1>8. QED
    BY <1>1, <1>2, <1>3, <1>7 DEF GoneInv

LEMMA GoneOthers ==
    ASSUME Chosen, Ints, Ints', GoneInv, ExitInv,
           \/ Monitors \/ ChildObeys \/ SignalBeforeNotify
           \/ (\E s \in Signals : Signal(s)) \/ (\E c \in {0, 1} : ChildExits(c))
    PROVE  GoneInv'
  <1>1. ASSUME NEW k \in 1..n, MonitorTakes(k)
        PROVE  GoneInv'
    BY <1>1, GoneTakes
  <1>2. ASSUME NEW k \in 1..n, MonitorBlocks(k) \/ MonitorKills(k) \/ MonitorEnds(k)
        PROVE  GoneInv'
    <2>1. UNCHANGED Counted /\ UNCHANGED <<n, m>> /\ (child = "up" <=> child' = "up")
      BY <1>2 DEF MonitorBlocks, MonitorKills, MonitorEnds, Counted, env, flags, health, proc
    <2>2. QED
      BY <2>1, GoneSame DEF Gone
  <1>3. CASE ChildObeys \/ SignalBeforeNotify
    BY <1>3, GoneObeys
  <1>4. ASSUME NEW s \in Signals, Signal(s)
        PROVE  GoneInv'
    <2>1. /\ UNCHANGED <<h, hc, stopCh, failures, exits, probes, n, m, child>>
          /\ sigCh' = Append(sigCh, s) /\ sent' = sent + 1
      BY <1>4 DEF Signal, flags, proc, health
    <2>2. Len(sigCh') = Len(sigCh) + 1
      BY <2>1 DEF Chosen
    <2>3. QED
      BY <2>1, <2>2 DEF GoneInv, Ints, Balanced, UnhealthyAfter
  <1>5. ASSUME NEW c \in {0, 1}, ChildExits(c)
        PROVE  GoneInv'
    <2>1. /\ UNCHANGED <<h, hc, stopCh, failures, sigCh, sent, probes, n, m>>
          /\ exits' = exits + 1
      BY <1>5 DEF ChildExits, flags, health
    <2>2. Gone(n, m, child)' <= Gone(n, m, child) + 1
      BY <2>1 DEF Gone, Ints
    <2>3. QED
      BY SMTT(30), <2>1, <2>2 DEF GoneInv, Ints, Balanced, UnhealthyAfter
  <1>6. QED
    BY <1>1, <1>2, <1>3, <1>4, <1>5 DEF Monitors

LEMMA Typed == TypeInv => TypeOK
  <1> SUFFICES ASSUME TypeInv PROVE TypeOK
    OBVIOUS
  <1>1. Flags /\ Chosen /\ Counts /\ BlockedInv /\ GoneInv
    BY DEF TypeInv
  <1>2. \A k \in 1..MaxChildren : mon[k] = "blocked" => ~DoneClosed(k)
    BY <1>1 DEF BlockedInv, DoneClosed, Counts
  <1>3. m = "run" => n < MaxChildren
    <2>1. Ints
      BY <1>1, IntsTyped
    <2>2. Tokens(stopCh, h, hc) >= 0
      BY Ones DEF Tokens
    <2>3. Failing(failures, hc) >= 0
      BY <1>1, <2>1, Ones DEF Failing, One, Ints, GoneInv, UnhealthyAfter
    <2>4. m = "run" => Gone(n, m, child) = n
      BY <2>1 DEF Gone, Ints
    <2>5. exits <= MaxExits /\ sent <= MaxSignals /\ probes <= MaxProbes
      BY <1>1, BoundAssumption DEF Counts
    <2>6. QED
      BY <1>1, <2>1, <2>2, <2>3, <2>4, <2>5, BoundAssumption, ChildrenAssumption
         DEF GoneInv, Ints, Balanced, UnhealthyAfter
  <1>4. QED
    BY <1>1, <1>2, <1>3 DEF Flags, Chosen, Counts, TypeOK

(* Types at every step; a monitor waits for a token only while its child's *)
(* runChild is under way (supervisor.go:419-440).  Children are as many as *)
(* signals, exits and UnhealthyAfter health checks at a time account for,  *)
(* so that the bound on them hides no start (supervisor.go:264-363).       *)
THEOREM TypeCorrect == Spec => []TypeOK
  <1>1. Init => TypeInv /\ ExitInv
    BY TypeInit, ExitInit
  <1>2. TypeInv /\ ExitInv /\ [Next]_vars => TypeInv' /\ ExitInv'
    <2>1. ASSUME TypeInv, ExitInv, UNCHANGED vars
          PROVE  TypeInv' /\ ExitInv'
      BY <2>1 DEF TypeInv, Flags, Chosen, Counts, BlockedInv, GoneInv, ExitInv, Returned, vars, env, flags, proc, health
    <2>2. ASSUME TypeInv, ExitInv, Next
          PROVE  TypeInv' /\ ExitInv'
      <3>1. Flags' /\ Chosen' /\ Counts' /\ BlockedInv'
        BY <2>2, FlagsStep, ChosenStep, CountsStep, BlockedStep DEF TypeInv
      <3>2. Ints /\ Ints'
        BY <2>2, <3>1, IntsTyped, IntsTypedNext DEF TypeInv
      <3>3. GoneInv'
        BY <2>2, <3>2, GoneMain, GoneHandler, GoneChecker, GoneOthers DEF TypeInv, Next
      <3>4. ExitInv'
        BY <2>2, ExitMain, ExitOthers DEF Next
      <3>5. QED
        BY <3>1, <3>3, <3>4 DEF TypeInv
    <2>3. QED
      BY <2>1, <2>2
  <1>3. TypeInv => TypeOK
    BY Typed
  <1>4. QED
    BY <1>1, <1>2, <1>3, PTL DEF Spec
====
