------------------------- MODULE TaskLifecycleProofs -------------------------
(***************************************************************************)
(* Theorems about one task, for any number of callers, requests,           *)
(* supervisors, children and processes killed from outside: first its      *)
(* supervisors, then its children (the command never runs twice at a time, *)
(* a child that outlives its supervisor can be found, and a stop stops all *)
(* of it).                                                                 *)
(***************************************************************************)
EXTENDS TaskLifecycle, FiniteSetTheorems, TLAPS

(* The environment of the theorems about supervisors: a request does not   *)
(* end its wait before the supervisor has recorded its pid, and nobody     *)
(* locks a new task before the run that made it.                           *)
Gentle == ~GivesUp /\ ~EarlyAccess

Serving(k) == sup[k].at \notin {"none", "gone", "zombie", "end"}

(* The holder of the lock waits for the launch of k, or died waiting.      *)
Awaited(k) ==
    /\ lock # None
    /\ call[lock].at \in {"await", "dead"}
    /\ call[lock].at = "await" => call[lock].pid = k

(* Until the first request, which is the run, there is nothing. *)
Fresh ==
    ops = 0 =>
        /\ lock = None /\ rec = NoRecord
        /\ \A c \in Callers : call[c].at = "idle"
        /\ \A k \in Sups : sup[k].at = "none"

(* A run that waits for the lock of its new task has the task to itself.   *)
RunWaits ==
    \A c \in Callers : call[c].at = "lock" /\ call[c].op = "run" =>
        /\ lock = None /\ rec = NoRecord
        /\ \A k \in Sups : sup[k].at = "none"

(* A supervisor on record was launched. *)
Known == rec.sup # 0 => sup[rec.sup].at # "none"

(* Where a serving supervisor is found: by the request that waits for it,  *)
(* then by its pid, then by pid and creation time.                         *)
Found(k) ==
    /\ sup[k].at \in {"launched", "meta"} =>
         IF meta THEN Awaited(k) /\ rec.sup # k
         ELSE \/ lock = None \/ call[lock].at \in {"read", "unlock"}
              \/ Awaited(k)
    /\ sup[k].at = "pid" =>
         /\ meta /\ rec.sup = k
         /\ rec.time \in {0, k} \/ Awaited(k)
    /\ Serving(k) /\ sup[k].at \notin {"launched", "meta", "pid"} =>
         meta /\ rec.sup = k /\ rec.time = k
    /\ Serving(k) /\ sup[k].at # "rm" => ~rec.exit

(* What a request knows of the supervisors at each of its steps. *)
Knows(c) ==
    /\ call[c].at = "verify" =>
         \A k \in Sups : sup[k].at \notin {"launched", "meta"}
    /\ call[c].at \in {"term", "wait", "kill", "await"} =>
         \A k \in Sups : Serving(k) => k = call[c].pid
    /\ \/ call[c].at \in {"remove", "clear", "launch"}
       \/ call[c].at = "killChild" /\ call[c].op # "forceRestart"
       => \A k \in Sups : ~Serving(k)
    /\ call[c].at = "launch" => ~rec.exit

SupInv ==
    /\ OneSupervisor /\ Fresh /\ RunWaits /\ Known
    /\ \A k \in Sups : Found(k)
    /\ \A c \in Callers : Knows(c)

(* What a request may be at each of its steps. *)
StepsOfOp(c) ==
    /\ call[c].at = "lock" => call[c].op \in AllOps
    /\ call[c].at \in {"read", "verify"} => call[c].op \in AllOps \ {"run"}
    /\ call[c].at \in {"term", "wait", "kill"} =>
         call[c].op \in {"stop", "forceStop", "remove", "forceRemove", "replace", "run"}
    /\ call[c].at = "killChild" =>
         call[c].op \in AllOps \ {"restart", "cleanup"}
    /\ \/ call[c].at \in {"term", "wait", "kill", "hup", "await"}
       \/ call[c].at = "killChild" /\ call[c].op = "forceRestart"
       => call[c].pid \in Sups

TypeInv ==
    /\ TypeOK
    /\ started \in 0..MaxChildren /\ ops \in Nat
    /\ \A c \in Callers : StepsOfOp(c)
-----------------------------------------------------------------------------
(* Types *)

LEMMA TypeInit == Init => TypeInv
  <1> SUFFICES ASSUME Init PROVE TypeInv
    OBVIOUS
  <1> USE BoundAssumption DEF Sups, Children
  <1>1. meta \in BOOLEAN /\ again \in BOOLEAN /\ autoRm \in BOOLEAN
    BY Zenon DEF Init
  <1>2. rec \in Records
    BY DEF Init, NoRecord, Records
  <1>3. sup \in Supervisors
    BY DEF Init, Unborn, Supervisors, SupSteps
  <1>4. call \in Requests
    BY DEF Init, Requests, CallSteps
  <1>5. \A c \in Callers : call[c].at = "idle"
    BY DEF Init
  <1>6. lock \in Callers \cup {None} /\ up \subseteq Children
    BY DEF Init
  <1>7. started \in 0..MaxChildren /\ ops \in Nat
    BY DEF Init
  <1>8. QED
    BY <1>1, <1>2, <1>3, <1>4, <1>5, <1>6, <1>7 DEF TypeInv, TypeOK, StepsOfOp

(* What the steps do to the records they change. *)
LEMMA SupStepType ==
    ASSUME TypeInv, NEW k \in Sups, NEW s, NEW t \in SupSteps, SupStep(k, s, t)
    PROVE  /\ sup' \in Supervisors
           /\ sup[k].at = s /\ sup'[k].at = t
           /\ \A j \in Sups \ {k} : sup'[j] = sup[j]
  BY DEF TypeInv, TypeOK, SupStep, Supervisors

LEMMA EndedType ==
    ASSUME TypeInv, NEW k \in Sups, Ended(k)
    PROVE  /\ sup' \in Supervisors
           /\ sup'[k].at \in {"gone", "zombie"}
           /\ \A j \in Sups \ {k} : sup'[j] = sup[j]
  <1>1. PICK e \in Ends : sup' = [sup EXCEPT ![k] = [Unborn EXCEPT !.at = e]]
    BY DEF Ended
  <1>2. e \in {"gone", "zombie"}
    BY FaultAssumption
  <1>3. [Unborn EXCEPT !.at = e] = [at |-> e, kid |-> 0, sig |-> {}, flag |-> {}]
    BY DEF Unborn
  <1>4. QED
    BY <1>1, <1>2, <1>3, BoundAssumption DEF TypeInv, TypeOK, SupSteps, Supervisors

LEMMA CallStepType ==
    ASSUME TypeInv, NEW c \in Callers, NEW s, NEW t \in CallSteps, CallStep(c, s, t)
    PROVE  /\ call' \in Requests
           /\ call[c].at = s /\ call'[c].at = t
           /\ call'[c].op = call[c].op /\ call'[c].pid = call[c].pid
           /\ \A d \in Callers \ {c} : call'[d] = call[d]
  BY DEF TypeInv, TypeOK, CallStep, Requests

(* One field of one supervisor changes. *)
LEMMA AtType ==
    ASSUME NEW S \in Supervisors, NEW k \in Sups, NEW a \in SupSteps
    PROVE  [S EXCEPT ![k].at = a] \in Supervisors
  BY DEF Supervisors

LEMMA KidType ==
    ASSUME NEW S \in Supervisors, NEW k \in Sups, NEW b \in 0..MaxChildren
    PROVE  [S EXCEPT ![k].kid = b] \in Supervisors
  BY DEF Supervisors

LEMMA SigType ==
    ASSUME NEW S \in Supervisors, NEW k \in Sups, NEW g \in SUBSET {"TERM", "HUP"}
    PROVE  [S EXCEPT ![k].sig = g] \in Supervisors
  BY DEF Supervisors

LEMMA FlagType ==
    ASSUME NEW S \in Supervisors, NEW k \in Sups, NEW f \in SUBSET {"stop", "restart"}
    PROVE  [S EXCEPT ![k].flag = f] \in Supervisors
  BY DEF Supervisors

LEMMA DecisionType ==
    ASSUME NEW f
    PROVE  Decision(f) \in SupSteps
  BY DEF Decision, SupSteps

(* A supervisor that served its flags goes on to a. *)
LEMMA ServedType ==
    ASSUME sup \in Supervisors, NEW k \in Sups, NEW a \in SupSteps
    PROVE  /\ [sup EXCEPT ![k].at = a, ![k].flag = @ \ {"restart"}] \in Supervisors
           /\ [sup EXCEPT ![k].at = a, ![k].kid = 0,
                          ![k].flag = @ \ {"restart"}] \in Supervisors
  <1> DEFINE S == [sup EXCEPT ![k].at = a]
             R == [S EXCEPT ![k].kid = 0]
             f == sup[k].flag \ {"restart"}
  <1>1. S \in Supervisors
    BY AtType
  <1>2. f \in SUBSET {"stop", "restart"}
    BY DEF Supervisors
  <1>3. [sup EXCEPT ![k].at = a, ![k].flag = @ \ {"restart"}] = [S EXCEPT ![k].flag = f]
    BY DEF Supervisors
  <1>4. [sup EXCEPT ![k].at = a, ![k].kid = 0, ![k].flag = @ \ {"restart"}]
          = [R EXCEPT ![k].flag = f]
    BY DEF Supervisors
  <1>5. R \in Supervisors
    <2> HIDE DEF S
    <2>1. 0 \in 0..MaxChildren
      BY BoundAssumption
    <2>2. QED
      BY <1>1, <2>1, KidType
  <1> HIDE DEF S, R, f
  <1>6. [S EXCEPT ![k].flag = f] \in Supervisors
    BY <1>1, <1>2, FlagType
  <1>7. [R EXCEPT ![k].flag = f] \in Supervisors
    BY <1>2, <1>5, FlagType
  <1>8. QED
    BY <1>3, <1>4, <1>6, <1>7, Zenon

(* A step of processes, which leaves the requests alone. *)
LEMMA ProcessTypes ==
    ASSUME TypeInv, UNCHANGED <<lock, call, config, ops>>,
           meta' \in BOOLEAN, rec' \in Records, sup' \in Supervisors,
           up' \subseteq Children, started' \in 0..MaxChildren
    PROVE  TypeInv'
  BY DEF TypeInv, TypeOK, StepsOfOp, config

LEMMA NeedsDirType ==
    ASSUME TypeInv, NEW k \in Sups, NEW s, NEW t \in SupSteps,
           NEW r \in Records, NeedsDir(k, s, t, r)
    PROVE  TypeInv'
  <1>1. sup' \in Supervisors /\ rec' \in Records
    BY SupStepType, EndedType DEF NeedsDir, TypeInv, TypeOK
  <1>2. UNCHANGED <<meta, lock, up, call, config, ops, started>>
    BY DEF NeedsDir, bounds
  <1>3. QED
    BY <1>1, <1>2, ProcessTypes DEF TypeInv, TypeOK

LEMMA SupervisorType ==
    ASSUME TypeInv, NEW k \in Sups, SupervisorRuns(k)
    PROVE  TypeInv'
  <1> USE BoundAssumption DEF Sups, task, bounds
  <1>0. /\ meta \in BOOLEAN /\ rec \in Records /\ sup \in Supervisors
        /\ up \subseteq Children /\ started \in 0..MaxChildren
        /\ sup[k].kid \in 0..MaxChildren
    BY DEF TypeInv, TypeOK, Supervisors
  <1>1. CASE ReadsMeta(k) \/ OpensLog(k)
    BY <1>0, <1>1, NeedsDirType DEF ReadsMeta, OpensLog, SupSteps, Booting
  <1>2. CASE WritesPID(k) \/ WritesTime(k)
    <2>1. [rec EXCEPT !.sup = k] \in Records /\ [rec EXCEPT !.time = k] \in Records
      BY <1>0 DEF Records
    <2>2. QED
      BY <1>2, <2>1, NeedsDirType DEF WritesPID, WritesTime, SupSteps, Booting
  <1>3. CASE StartsChild(k)
    <2>1. sup' \in Supervisors
      <3> DEFINE S == [sup EXCEPT ![k].at = "started"]
      <3>1. S \in Supervisors
        BY <1>0, AtType DEF SupSteps
      <3>2. sup' = [S EXCEPT ![k].kid = started + 1]
        BY <1>3 DEF StartsChild
      <3>3. started + 1 \in 0..MaxChildren
        BY <1>0, <1>3 DEF StartsChild
      <3> HIDE DEF S
      <3>4. QED
        BY <3>1, <3>2, <3>3, KidType
    <2>2. up' \subseteq Children /\ started' \in 0..MaxChildren
      BY <1>0, <1>3 DEF StartsChild, Children
    <2>3. QED
      BY <1>0, <1>3, <2>1, <2>2, ProcessTypes DEF StartsChild
  <1>4. CASE RecordsChild(k) \/ RecordsChildTime(k)
    <2>1. sup' \in Supervisors
      BY <1>4, SupStepType DEF RecordsChild, RecordsChildTime, SupSteps
    <2>2. rec' \in Records
      BY <1>0, <1>4 DEF RecordsChild, RecordsChildTime, IfDir, Records
    <2>3. QED
      BY <1>0, <1>4, <2>1, <2>2, ProcessTypes DEF RecordsChild, RecordsChildTime
  <1>5. CASE HandlesSignal(k)
    <2>1. sup' \in Supervisors
      <3>1. PICK s \in sup[k].sig :
              sup' = [sup EXCEPT ![k].sig = @ \ {s},
                                 ![k].flag = IF s = "TERM" THEN @ \cup {"stop"}
                                             ELSE IF "stop" \in @ THEN @
                                             ELSE @ \cup {"restart"}]
        BY <1>5 DEF HandlesSignal
      <3> DEFINE S == [sup EXCEPT ![k].sig = sup[k].sig \ {s}]
                 f == IF s = "TERM" THEN sup[k].flag \cup {"stop"}
                      ELSE IF "stop" \in sup[k].flag THEN sup[k].flag
                      ELSE sup[k].flag \cup {"restart"}
      <3>2. sup[k].sig \in SUBSET {"TERM", "HUP"} /\ sup[k].flag \in SUBSET {"stop", "restart"}
        BY <1>0 DEF Supervisors
      <3>3. S \in Supervisors
        BY <1>0, <3>2, SigType
      <3>4. sup' = [S EXCEPT ![k].flag = f]
        BY <3>1, <1>0 DEF Supervisors
      <3>5. f \in SUBSET {"stop", "restart"}
        BY <3>2
      <3> HIDE DEF S, f
      <3>6. QED
        BY <3>3, <3>4, <3>5, FlagType
    <2>2. QED
      BY <1>0, <1>5, <2>1, ProcessTypes DEF HandlesSignal
  <1>6. CASE EndsChild(k)
    BY <1>0, <1>6, ProcessTypes DEF EndsChild
  <1>7. CASE Decides(k) \/ BackoffWoken(k)
    <2>1. sup' \in Supervisors
      <3>1. CASE Decides(k)
        BY <1>0, <3>1, DecisionType, ServedType DEF Decides
      <3>2. CASE BackoffWoken(k)
        <4>1. (IF "stop" \in sup[k].flag THEN "stopped" ELSE "run") \in SupSteps
          BY DEF SupSteps
        <4>2. QED
          BY <1>0, <3>2, <4>1, ServedType DEF BackoffWoken
      <3>3. QED
        BY <1>7, <3>1, <3>2
    <2>2. QED
      BY <1>0, <1>7, <2>1, ProcessTypes DEF Decides, BackoffWoken
  <1>8. CASE BackoffTimer(k)
    BY <1>0, <1>8, SupStepType, ProcessTypes DEF BackoffTimer, SupSteps
  <1>9. CASE WritesExit(k)
    <2>1. sup' \in Supervisors
      BY <1>9, SupStepType DEF WritesExit, SupSteps
    <2>2. rec' \in Records
      BY <1>0, <1>9 DEF WritesExit, IfDir, Records
    <2>3. QED
      BY <1>0, <1>9, <2>1, <2>2, ProcessTypes DEF WritesExit
  <1>10. CASE AutoRemoves(k)
    <2>1. sup' \in Supervisors /\ NoRecord \in Records
      BY <1>10, SupStepType DEF AutoRemoves, SupSteps, NoRecord, Records
    <2>2. QED
      BY <1>0, <1>10, <2>1, ProcessTypes DEF AutoRemoves
  <1>11. CASE Leaves(k)
    BY <1>0, <1>11, EndedType, ProcessTypes DEF Leaves
  <1>12. QED
    BY <1>1, <1>2, <1>3, <1>4, <1>5, <1>6, <1>7, <1>8, <1>9, <1>10, <1>11
    DEF SupervisorRuns

(* The processes' other steps. *)
LEMMA ProcessType ==
    ASSUME TypeInv,
           ChildExits \/ (\E k \in Sups : StartFails(k) \/ SupCrashes(k))
    PROVE  TypeInv'
  <1> USE DEF task, bounds
  <1>0. /\ meta \in BOOLEAN /\ rec \in Records /\ sup \in Supervisors
        /\ up \subseteq Children /\ started \in 0..MaxChildren
    BY DEF TypeInv, TypeOK
  <1>1. CASE ChildExits
    BY <1>0, <1>1, ProcessTypes DEF ChildExits
  <1>2. ASSUME NEW k \in Sups, StartFails(k)
        PROVE  TypeInv'
    <2>1. sup' \in Supervisors
      BY <1>0, <1>2, DecisionType, ServedType DEF StartFails
    <2>2. QED
      BY <1>0, <1>2, <2>1, ProcessTypes DEF StartFails
  <1>3. ASSUME NEW k \in Sups, SupCrashes(k)
        PROVE  TypeInv'
    <2>1. sup' \in Supervisors
      BY <1>0, <1>3, EndedType DEF SupCrashes, SignalKill
    <2>2. QED
      BY <1>0, <1>3, <2>1, ProcessTypes DEF SupCrashes
  <1>4. QED
    BY <1>1, <1>2, <1>3

(* A step of the request of the lock's holder, which keeps the lock. *)
LEMMA HolderTypes ==
    ASSUME TypeInv, NEW c \in Callers, NEW s, NEW t \in CallSteps,
           CallStep(c, s, t), s \notin {"idle", "lock", "dead"},
           UNCHANGED <<lock, config, ops, started>>,
           meta' \in BOOLEAN, rec' \in Records, sup' \in Supervisors,
           up' \subseteq Children,
           StepsOfOp(c)'
    PROVE  TypeInv'
  <1>1. /\ call' \in Requests /\ call[c].at = s
        /\ \A d \in Callers \ {c} : call'[d] = call[d]
    BY CallStepType
  <1>2. lock = c
    BY <1>1 DEF TypeInv, TypeOK
  <1>3. \A d \in Callers : call'[d].at \notin {"idle", "lock", "dead"} => lock' = d
    BY <1>1, <1>2 DEF TypeInv, TypeOK
  <1>4. \A d \in Callers : StepsOfOp(d)'
    BY <1>1 DEF TypeInv, StepsOfOp
  <1>5. QED
    BY <1>1, <1>3, <1>4 DEF TypeInv, TypeOK, config

(* What a signal does to a supervisor's record. *)
LEMMA SignalType ==
    ASSUME TypeInv, NEW k \in Sups, NEW s \in {"TERM", "HUP"}, Signal(k, s)
    PROVE  sup' \in Supervisors
  <1>0. sup \in Supervisors
    BY DEF TypeInv, TypeOK
  <1>1. sup[k].sig \cup {s} \in SUBSET {"TERM", "HUP"}
    BY <1>0 DEF Supervisors
  <1>2. QED
    BY <1>0, <1>1, EndedType, SigType DEF Signal

LEMMA KillType ==
    ASSUME TypeInv, NEW k \in Sups, SignalKill(k)
    PROVE  sup' \in Supervisors
  BY EndedType DEF SignalKill, TypeInv, TypeOK

LEMMA NextStepTypes ==
    ASSUME NEW o \in AllOps
    PROVE  /\ o # "run" => /\ IfAlive(o) \in {"term", "kill", "hup", "killChild", "unlock"}
                           /\ IfDead(o) \in {"unlock", "remove", "killChild"}
                           /\ IfAlive(o) \in {"term", "kill"} =>
                                o \in {"stop", "forceStop", "remove", "forceRemove", "replace"}
                           /\ IfAlive(o) = "killChild" => o = "forceRestart"
                           /\ IfDead(o) = "killChild" => o \in {"start", "replace"}
           /\ o \notin {"restart", "cleanup"} =>
                /\ AfterKill(o) \in {"unlock", "hup", "remove", "clear"}
                /\ AfterKill(o) = "hup" <=> o = "forceRestart"
  BY DEF AllOps, IfAlive, IfDead, AfterKill

(* Requests on an existing task. *)
LEMMA RequestType ==
    ASSUME TypeInv, NEW c \in Callers,
           \/ ReadMeta(c) \/ Verify(c) \/ Terminate(c) \/ WaitOver(c) \/ WaitTimesOut(c)
           \/ Kill(c) \/ KillChild(c) \/ Hangup(c) \/ Remove(c)
    PROVE  TypeInv'
  <1> USE DEF task, bounds
  <1>0. /\ meta \in BOOLEAN /\ rec \in Records /\ sup \in Supervisors
        /\ up \subseteq Children /\ call \in Requests /\ StepsOfOp(c)
    BY DEF TypeInv, TypeOK
  <1>1. CASE ReadMeta(c)
    <2>1. StepsOfOp(c)'
      BY <1>0, <1>1, CallStepType DEF ReadMeta, StepsOfOp, CallSteps
    <2>2. QED
      BY <1>0, <1>1, <2>1, HolderTypes DEF ReadMeta, CallSteps
  <1>2. CASE Verify(c)
    <2>1. call[c].at = "verify" /\ call[c].op \in AllOps \ {"run"} /\ lock = c
      BY <1>0, <1>2 DEF Verify, StepsOfOp, TypeInv, TypeOK
    <2>2. \A d \in Callers \ {c} : call'[d] = call[d]
      BY <1>0, <1>2 DEF Verify, Requests
    <2>3. call' \in Requests /\ StepsOfOp(c)'
      <3>1. CASE Recorded
        <4> DEFINE t == IfAlive(call[c].op)
        <4>1. call' = [call EXCEPT ![c].at = t, ![c].pid = rec.sup]
          BY <1>2, <3>1 DEF Verify
        <4>2. rec.sup \in Sups
          BY <1>0, <3>1 DEF Recorded, Records, Sups
        <4>3. /\ t \in {"term", "kill", "hup", "killChild", "unlock"}
              /\ t \in {"term", "kill"} =>
                   call[c].op \in {"stop", "forceStop", "remove", "forceRemove", "replace"}
              /\ t = "killChild" => call[c].op = "forceRestart"
          BY <2>1, NextStepTypes
        <4> HIDE DEF t
        <4>4. call'[c].at = t /\ call'[c].pid = rec.sup /\ call'[c].op = call[c].op
          BY <1>0, <4>1 DEF Requests
        <4>5. call' \in Requests
          <5> DEFINE C == [call EXCEPT ![c].at = t]
          <5>1. t \in CallSteps /\ rec.sup \in 0..MaxSups
            BY <4>2, <4>3 DEF CallSteps, Sups
          <5>2. C \in Requests
            BY <1>0, <5>1 DEF Requests
          <5>3. call' = [C EXCEPT ![c].pid = rec.sup]
            BY <4>1
          <5> HIDE DEF C
          <5>4. QED
            BY <5>1, <5>2, <5>3 DEF Requests
        <4>6. StepsOfOp(c)'
          BY <4>2, <4>3, <4>4 DEF StepsOfOp, Sups, AllOps
        <4>7. QED
          BY <4>5, <4>6
      <3>2. CASE ~Recorded
        <4>1. CallStep(c, "verify", IfDead(call[c].op))
          BY <1>2, <3>2 DEF Verify, CallStep
        <4>2. /\ IfDead(call[c].op) \in {"unlock", "remove", "killChild"}
              /\ IfDead(call[c].op) = "killChild" => call[c].op \in {"start", "replace"}
          BY <2>1, NextStepTypes
        <4>3. call' \in Requests /\ call'[c].at = IfDead(call[c].op) /\ call'[c].op = call[c].op
          BY <4>1, <4>2, CallStepType DEF CallSteps
        <4>4. QED
          BY <4>2, <4>3 DEF StepsOfOp, AllOps
      <3>3. QED
        BY <3>1, <3>2
    <2>4. \A d \in Callers : call'[d].at \notin {"idle", "lock", "dead"} => lock' = d
      BY <1>2, <2>1, <2>2 DEF TypeInv, TypeOK, Verify
    <2>5. \A d \in Callers : StepsOfOp(d)'
      BY <2>2, <2>3 DEF TypeInv, StepsOfOp
    <2>6. UNCHANGED <<meta, rec, lock, sup, up, config, started, ops>>
      BY <1>2 DEF Verify
    <2>7. QED
      BY <2>3, <2>4, <2>5, <2>6 DEF TypeInv, TypeOK, config
  <1>3. CASE Terminate(c) \/ Hangup(c)
    <2>1. call[c].pid \in Sups /\ sup' \in Supervisors
      BY <1>0, <1>3, SignalType DEF Terminate, Hangup, CallStep, StepsOfOp
    <2>2. StepsOfOp(c)'
      BY <1>0, <1>3, CallStepType DEF Terminate, Hangup, StepsOfOp, CallSteps
    <2>3. QED
      BY <1>0, <1>3, <2>1, <2>2, HolderTypes DEF Terminate, Hangup, CallSteps
  <1>4. CASE WaitOver(c) \/ WaitTimesOut(c) \/ Kill(c)
    <2>1. call[c].pid \in Sups /\ sup' \in Supervisors
      BY <1>0, <1>4, KillType DEF WaitOver, WaitTimesOut, Kill, CallStep, StepsOfOp
    <2>2. StepsOfOp(c)'
      BY <1>0, <1>4, CallStepType
      DEF WaitOver, WaitTimesOut, Kill, StepsOfOp, CallSteps, AllOps
    <2>3. QED
      BY <1>0, <1>4, <2>1, <2>2, HolderTypes DEF WaitOver, WaitTimesOut, Kill, CallSteps
  <1>5. CASE KillChild(c)
    <2>1. call[c].op \in AllOps \ {"restart", "cleanup"}
      BY <1>0, <1>5 DEF KillChild, CallStep, StepsOfOp
    <2>2. /\ AfterKill(call[c].op) \in {"unlock", "hup", "remove", "clear"}
          /\ AfterKill(call[c].op) = "hup" => call[c].op = "forceRestart"
      BY <2>1, NextStepTypes
    <2>3. StepsOfOp(c)'
      BY <1>0, <1>5, <2>2, CallStepType DEF KillChild, StepsOfOp, CallSteps
    <2>4. up' \subseteq Children
      BY <1>0, <1>5 DEF KillChild
    <2>5. QED
      BY <1>0, <1>5, <2>2, <2>3, <2>4, HolderTypes DEF KillChild, CallSteps
  <1>6. CASE Remove(c)
    <2>1. StepsOfOp(c)'
      BY <1>0, <1>6, CallStepType DEF Remove, StepsOfOp, CallSteps
    <2>2. NoRecord \in Records
      BY BoundAssumption DEF NoRecord, Records
    <2>3. QED
      BY <1>0, <1>6, <2>1, <2>2, HolderTypes DEF Remove, CallSteps
  <1>7. QED
    BY <1>1, <1>2, <1>3, <1>4, <1>5, <1>6

(* Launching. *)
LEMMA LaunchType ==
    ASSUME TypeInv, NEW c \in Callers,
           \/ ClearExit(c) \/ Launch(c) \/ LaunchConfirmed(c) \/ LaunchDied(c)
           \/ LaunchGivenUp(c)
    PROVE  TypeInv'
  <1> USE DEF task, bounds
  <1>0. /\ meta \in BOOLEAN /\ rec \in Records /\ sup \in Supervisors
        /\ up \subseteq Children /\ call \in Requests /\ StepsOfOp(c)
    BY DEF TypeInv, TypeOK
  <1>1. CASE ClearExit(c)
    <2>1. StepsOfOp(c)' /\ rec' \in Records
      BY <1>0, <1>1, CallStepType DEF ClearExit, StepsOfOp, CallSteps, Records
    <2>2. QED
      BY <1>0, <1>1, <2>1, HolderTypes DEF ClearExit, CallSteps
  <1>2. CASE Launch(c)
    <2>1. PICK k \in Sups :
            /\ sup' = [sup EXCEPT ![k].at = "launched"]
            /\ call' = [call EXCEPT ![c].at = "await", ![c].pid = k]
      BY <1>2 DEF Launch
    <2>2. sup' \in Supervisors
      BY <1>0, <2>1, AtType DEF SupSteps, Booting
    <2>3. /\ call' \in Requests
          /\ \A d \in Callers \ {c} : call'[d] = call[d]
          /\ call'[c].at = "await" /\ call'[c].pid = k
      <3> DEFINE C == [call EXCEPT ![c].at = "await"]
      <3>1. C \in Requests /\ C[c].at = "await" /\ \A d \in Callers \ {c} : C[d] = call[d]
        BY <1>0 DEF Requests, CallSteps
      <3>2. call' = [C EXCEPT ![c].pid = k] /\ k \in 0..MaxSups
        BY <2>1, <1>0 DEF Sups
      <3> HIDE DEF C
      <3>3. QED
        BY <3>1, <3>2 DEF Requests
    <2>4. call[c].at = "launch" /\ lock = c
      BY <1>2 DEF Launch, TypeInv, TypeOK
    <2>5. \A d \in Callers : StepsOfOp(d)'
      BY <2>3 DEF TypeInv, StepsOfOp
    <2>6. \A d \in Callers : call'[d].at \notin {"idle", "lock", "dead"} => lock' = d
      BY <1>2, <2>3, <2>4 DEF TypeInv, TypeOK, Launch
    <2>7. UNCHANGED <<meta, rec, lock, up, config, started, ops>>
      BY <1>2 DEF Launch
    <2>8. QED
      BY <2>2, <2>3, <2>5, <2>6, <2>7 DEF TypeInv, TypeOK, config
  <1>3. CASE LaunchConfirmed(c) \/ LaunchDied(c)
    <2>1. StepsOfOp(c)'
      BY <1>0, <1>3, CallStepType
      DEF LaunchConfirmed, LaunchDied, StepsOfOp, CallSteps, AllOps
    <2>2. QED
      BY <1>0, <1>3, <2>1, HolderTypes DEF LaunchConfirmed, LaunchDied, CallSteps
  <1>4. CASE LaunchGivenUp(c)
    <2>1. StepsOfOp(c)'
      BY <1>0, <1>4, CallStepType DEF LaunchGivenUp, StepsOfOp, CallSteps, AllOps
    <2>2. QED
      BY <1>0, <1>4, <2>1, HolderTypes DEF LaunchGivenUp, CallSteps
  <1>5. QED
    BY <1>1, <1>2, <1>3, <1>4

(* Beginning and end of a request. *)
LEMMA LockType ==
    ASSUME TypeInv, NEW c \in Callers,
           \/ (\E o \in Ops : Ask(c, o)) \/ Lock(c) \/ LockFails(c)
           \/ Unlock(c) \/ CallerDies(c) \/ LeaseReaped(c)
    PROVE  TypeInv'
  <1> USE DEF task, bounds
  <1>0. /\ meta \in BOOLEAN /\ rec \in Records /\ sup \in Supervisors
        /\ up \subseteq Children /\ call \in Requests /\ StepsOfOp(c)
        /\ lock \in Callers \cup {None}
        /\ \A d \in Callers : call[d].at \notin {"idle", "lock", "dead"} => lock = d
        /\ \A d \in Callers : StepsOfOp(d)
    BY DEF TypeInv, TypeOK
  <1>1. ASSUME NEW o \in Ops, Ask(c, o)
        PROVE  TypeInv'
    <2>1. o \in AllOps
      BY OpAssumption
    <2>2. call' \in Requests
      BY <1>0, <1>1, <2>1, BoundAssumption DEF Ask, Requests, CallSteps
    <2>3. /\ call'[c] = [at |-> "lock", op |-> o, pid |-> 0]
          /\ \A d \in Callers \ {c} : call'[d] = call[d]
      BY <1>0, <1>1 DEF Ask, Requests
    <2>4. /\ \A d \in Callers : StepsOfOp(d)'
          /\ \A d \in Callers : call'[d].at \notin {"idle", "lock", "dead"} => lock' = d
      BY <1>0, <1>1, <2>1, <2>3 DEF Ask, StepsOfOp
    <2>5. meta' \in BOOLEAN
      BY <1>0, <1>1, Zenon DEF Ask
    <2>6. UNCHANGED <<rec, lock, sup, up, config, started>> /\ ops' = ops + 1
      BY <1>1 DEF Ask
    <2>7. QED
      BY <2>2, <2>4, <2>5, <2>6 DEF TypeInv, TypeOK, config
  <1>2. CASE Lock(c)
    <2>1. /\ call' \in Requests /\ call[c].at = "lock" /\ call'[c].op = call[c].op
          /\ call'[c].at = IF call[c].op = "run" THEN "launch" ELSE "read"
          /\ \A d \in Callers \ {c} : call'[d] = call[d]
      BY <1>2, CallStepType DEF Lock, CallSteps
    <2>2. \A d \in Callers : StepsOfOp(d)'
      BY <1>0, <2>1 DEF StepsOfOp
    <2>3. \A d \in Callers \ {c} : call[d].at \in {"idle", "lock", "dead"}
      BY <1>0, <1>2, OpAssumption DEF Lock
    <2>4. lock' = c /\ UNCHANGED <<meta, rec, sup, up, config, started, ops>>
      BY <1>2 DEF Lock
    <2>5. QED
      BY <2>1, <2>2, <2>3, <2>4 DEF TypeInv, TypeOK, config
  <1>3. CASE LockFails(c)
    <2>1. /\ call' \in Requests /\ call'[c].at = "idle"
          /\ \A d \in Callers \ {c} : call'[d] = call[d]
      BY <1>3, CallStepType DEF LockFails, CallSteps
    <2>2. \A d \in Callers : StepsOfOp(d)'
      BY <1>0, <2>1 DEF StepsOfOp
    <2>3. meta' \in BOOLEAN
      BY <1>0, <1>3, Zenon DEF LockFails
    <2>4. rec' \in Records
      BY <1>0, <1>3, BoundAssumption DEF LockFails, NoRecord, Records
    <2>5. UNCHANGED <<lock, sup, up, config, started, ops>>
      BY <1>3 DEF LockFails
    <2>6. QED
      BY <2>1, <2>2, <2>3, <2>4, <2>5 DEF TypeInv, TypeOK, config
  <1>4. CASE Unlock(c)
    <2>1. /\ call' \in Requests /\ call[c].at = "unlock" /\ call'[c].at = "idle"
          /\ \A d \in Callers \ {c} : call'[d] = call[d]
      BY <1>4, CallStepType DEF Unlock, CallSteps
    <2>2. \A d \in Callers : StepsOfOp(d)'
      BY <1>0, <2>1 DEF StepsOfOp
    <2>3. \A d \in Callers \ {c} : call[d].at \in {"idle", "lock", "dead"}
      BY <1>0, <2>1
    <2>4. lock' = None /\ UNCHANGED <<meta, rec, sup, up, config, started, ops>>
      BY <1>4 DEF Unlock
    <2>5. QED
      BY <2>1, <2>2, <2>3, <2>4 DEF TypeInv, TypeOK, config
  <1>5. CASE CallerDies(c)
    <2>1. /\ call' \in Requests /\ call'[c].at = "dead"
          /\ \A d \in Callers \ {c} : call'[d] = call[d]
      BY <1>0, <1>5 DEF CallerDies, Requests, CallSteps
    <2>2. \A d \in Callers : StepsOfOp(d)'
      BY <1>0, <2>1 DEF StepsOfOp
    <2>3. UNCHANGED <<meta, rec, lock, sup, up, config, started, ops>>
      BY <1>5 DEF CallerDies
    <2>4. QED
      BY <2>1, <2>2, <2>3 DEF TypeInv, TypeOK, config
  <1>6. CASE LeaseReaped(c)
    <2>1. \A d \in Callers : call[d].at \in {"idle", "lock", "dead"}
      BY <1>0, <1>6 DEF LeaseReaped
    <2>2. lock' = None /\ UNCHANGED <<meta, rec, sup, up, call, config, started, ops>>
      BY <1>6 DEF LeaseReaped
    <2>3. QED
      BY <1>0, <2>1, <2>2 DEF TypeInv, TypeOK, StepsOfOp, config
  <1>7. QED
    BY <1>1, <1>2, <1>3, <1>4, <1>5, <1>6

LEMMA TypeInvariant == Spec => []TypeInv
  <1>1. ASSUME TypeInv, [Next]_vars
        PROVE  TypeInv'
    <2>1. CASE UNCHANGED vars
      BY <1>1, <2>1 DEF TypeInv, TypeOK, StepsOfOp, vars, task, config, bounds
    <2>2. CASE Next
      BY <1>1, <2>2, SupervisorType, ProcessType, RequestType, LaunchType, LockType
      DEF Next, RequestRuns
    <2>3. QED
      BY <1>1, <2>1, <2>2
  <1>2. QED
    BY <1>1, TypeInit, PTL DEF Spec

(* Types, and a request past "lock" holds the lock of the task. *)
THEOREM TypeCorrect == Spec => []TypeOK
  <1>1. TypeInv => TypeOK
    BY DEF TypeInv
  <1>2. QED
    BY <1>1, TypeInvariant, PTL

-----------------------------------------------------------------------------
(* One supervisor *)

LEMMA SupInit == Init => SupInv
  <1> SUFFICES ASSUME Init PROVE SupInv
    OBVIOUS
  <1>1. /\ \A k \in Sups : sup[k].at = "none"
        /\ \A c \in Callers : call[c].at = "idle"
        /\ rec = NoRecord /\ rec.sup = 0 /\ lock = None
    BY DEF Init, Unborn, NoRecord
  <1>2. QED
    BY <1>1 DEF SupInv, OneSupervisor, Running, Fresh, RunWaits, Known, Found,
                Serving, Knows

(* Some supervisors may end, the others stay where they are. *)
OnlyEnds ==
    \A j \in Sups :
        \/ sup'[j].at = sup[j].at
        \/ sup[j].at # "none" /\ sup'[j].at \in {"gone", "zombie"}

LEMMA SignalEffect ==
    ASSUME TypeInv, NEW k \in Sups,
           \/ Signal(k, "TERM") \/ Signal(k, "HUP") \/ SignalKill(k)
           \/ sup[k].at # "none" /\ Ended(k)
    PROVE  OnlyEnds
  <1>0. sup \in Supervisors
    BY DEF TypeInv, TypeOK
  <1>1. CASE sup[k].at # "none" /\ Ended(k)
    BY <1>1, EndedType DEF OnlyEnds
  <1>2. CASE Signal(k, "TERM") \/ Signal(k, "HUP")
    <2>1. CASE sup[k].at \in Booting
      BY <1>1, <1>2, <2>1 DEF Signal, Booting
    <2>2. CASE sup[k].at \notin Booting
      BY <1>0, <1>2, <2>2 DEF Signal, OnlyEnds, Supervisors
    <2>3. QED
      BY <2>1, <2>2
  <1>3. CASE SignalKill(k)
    BY <1>1, <1>3 DEF SignalKill, Running, OnlyEnds
  <1>4. QED
    BY <1>1, <1>2, <1>3

(* Processes end, and nothing that tells supervisors apart changes. *)
LEMMA EndInv ==
    ASSUME TypeInv, SupInv, OnlyEnds,
           UNCHANGED <<meta, lock, call, ops>>,
           rec'.sup = rec.sup, rec'.time = rec.time, rec'.exit = rec.exit,
           rec = NoRecord => rec' = NoRecord \/ \E k \in Sups : sup[k].at # "none"
    PROVE  SupInv'
  <1> USE DEF SupInv, OnlyEnds
  <1>1. \A k \in Sups : sup'[k].at = "none" <=> sup[k].at = "none"
    BY DEF OnlyEnds
  <1>2. \A k \in Sups : Serving(k)' => Serving(k) /\ sup'[k].at = sup[k].at
    BY DEF Serving
  <1>3. OneSupervisor' /\ Fresh' /\ RunWaits' /\ Known'
    <2>1. OneSupervisor'
      BY DEF OneSupervisor, Running
    <2>2. Fresh' /\ RunWaits'
      BY <1>1 DEF Fresh, RunWaits
    <2>3. Known'
      BY <1>1 DEF Known, TypeInv, TypeOK, Records, Sups
    <2>4. QED
      BY <2>1, <2>2, <2>3
  <1>4. ASSUME NEW k \in Sups PROVE Found(k)'
    BY <1>2 DEF Found, Awaited, Serving
  <1>5. ASSUME NEW c \in Callers PROVE Knows(c)'
    BY <1>2 DEF Knows
  <1>6. QED
    BY <1>3, <1>4, <1>5

(* The supervisor k, found by pid and creation time, goes on. *)
LEMMA ServingInv ==
    ASSUME TypeInv, SupInv, NEW k \in Sups,
           sup[k].at \notin {"none", "launched", "meta", "pid", "end", "gone", "zombie"},
           sup'[k].at \notin {"none", "launched", "meta", "pid"},
           \A j \in Sups \ {k} : sup'[j].at = sup[j].at,
           UNCHANGED <<meta, lock, call, ops>>,
           rec'.sup = rec.sup, rec'.time = rec.time,
           rec'.exit => rec.exit \/ sup'[k].at \in {"rm", "end"},
           sup[k].at = "rm" => sup'[k].at \in {"rm", "end", "gone", "zombie"}
    PROVE  SupInv'
  <1> USE DEF SupInv
  <1>1. /\ Serving(k) /\ \A j \in Sups : Serving(j) => j = k
        /\ meta /\ rec.sup = k /\ rec.time = k
        /\ rec.exit => sup[k].at = "rm"
    BY DEF Serving, OneSupervisor, Running, Found
  <1>2. \A j \in Sups : Serving(j)' => j = k
    BY <1>1 DEF Serving
  <1>3. OneSupervisor'
    BY <1>2 DEF OneSupervisor, Running, Serving
  <1>4. Fresh' /\ RunWaits'
    BY DEF Fresh, RunWaits
  <1>5. Known'
    BY <1>1 DEF Known
  <1>6. ASSUME NEW j \in Sups PROVE Found(j)'
    BY <1>1, <1>2 DEF Found, Awaited, Serving
  <1>7. ASSUME NEW c \in Callers PROVE Knows(c)'
    BY <1>1, <1>2 DEF Knows, Serving
  <1>8. QED
    BY <1>3, <1>4, <1>5, <1>6, <1>7

(* The steps of a supervisor that is starting. *)
LEMMA BootInv ==
    ASSUME TypeInv, SupInv, NEW k \in Sups,
           ReadsMeta(k) \/ WritesPID(k) \/ WritesTime(k) \/ OpensLog(k)
    PROVE  SupInv'
  <1> USE DEF SupInv, bounds
  <1>0. /\ rec \in Records /\ sup \in Supervisors
        /\ rec.sup \in 0..MaxSups /\ k # 0
    BY DEF TypeInv, TypeOK, Records, Sups
  <1>1. CASE sup[k].at # "none" /\ Ended(k) /\ UNCHANGED rec
    <2>1. UNCHANGED <<meta, lock, call, ops>>
      BY DEF ReadsMeta, WritesPID, WritesTime, OpensLog, NeedsDir
    <2>2. QED
      BY <1>1, <2>1, SignalEffect, EndInv
  <1>2. ASSUME meta, NEW s \in Booting, NEW t \in SupSteps \ {"none"}, NEW r \in Records,
               NeedsDir(k, s, t, r)
        PROVE  /\ sup[k].at = s /\ sup'[k].at = t /\ rec' = r
               /\ \A j \in Sups \ {k} : sup'[j].at = sup[j].at
               /\ UNCHANGED <<meta, lock, call, ops>>
               /\ \A j \in Sups : Serving(j) => j = k
    <2>1. SupStep(k, s, t) /\ rec' = r /\ UNCHANGED <<meta, lock, call, ops>>
      BY <1>2 DEF NeedsDir
    <2>2. /\ sup[k].at = s /\ sup'[k].at = t
          /\ \A j \in Sups \ {k} : sup'[j] = sup[j]
      BY <2>1, SupStepType
    <2>3. QED
      BY <2>1, <2>2 DEF OneSupervisor, Running, Serving, Booting
  <1>3. CASE meta /\ ReadsMeta(k)
    <2>1. /\ sup[k].at = "launched" /\ sup'[k].at = "meta" /\ rec' = rec
          /\ \A j \in Sups \ {k} : sup'[j].at = sup[j].at
          /\ UNCHANGED <<meta, lock, call, ops>>
          /\ \A j \in Sups : Serving(j) => j = k
      BY <1>0, <1>2, <1>3 DEF ReadsMeta, Booting, SupSteps
    <2>2. Awaited(k) /\ rec.sup # k /\ ~rec.exit
      BY <1>3, <2>1 DEF Found, Serving
    <2>3. \A j \in Sups : Serving(j)' => j = k
      BY <2>1 DEF Serving
    <2>4. OneSupervisor' /\ Fresh' /\ RunWaits'
      BY <2>1, <2>3 DEF OneSupervisor, Running, Serving, Fresh, RunWaits
    <2>8. Known'
      BY <1>0, <2>1 DEF Known, Sups
    <2>5. ASSUME NEW j \in Sups PROVE Found(j)'
      BY <1>3, <2>1, <2>2, <2>3 DEF Found, Awaited, Serving
    <2>6. ASSUME NEW c \in Callers PROVE Knows(c)'
      BY <2>1, <2>3 DEF Knows, Serving
    <2>7. QED
      BY <2>4, <2>5, <2>6, <2>8
  <1>4. CASE meta /\ WritesPID(k)
    <2>1. [rec EXCEPT !.sup = k] \in Records
      BY <1>0 DEF Records, Sups
    <2>2. /\ sup[k].at = "meta" /\ sup'[k].at = "pid" /\ rec' = [rec EXCEPT !.sup = k]
          /\ \A j \in Sups \ {k} : sup'[j].at = sup[j].at
          /\ UNCHANGED <<meta, lock, call, ops>>
          /\ \A j \in Sups : Serving(j) => j = k
      BY <1>2, <1>4, <2>1 DEF WritesPID, Booting, SupSteps
    <2>3. rec'.sup = k /\ rec'.time = rec.time /\ rec'.exit = rec.exit
      BY <1>0, <2>2 DEF Records
    <2>4. Awaited(k) /\ ~rec.exit
      BY <1>4, <2>2 DEF Found, Serving
    <2>5. \A j \in Sups : Serving(j)' => j = k
      BY <2>2 DEF Serving
    <2>6. OneSupervisor' /\ Fresh' /\ RunWaits' /\ Known'
      BY <2>2, <2>3, <2>5 DEF OneSupervisor, Running, Serving, Fresh, RunWaits, Known
    <2>7. ASSUME NEW j \in Sups PROVE Found(j)'
      BY <1>4, <2>2, <2>3, <2>4, <2>5 DEF Found, Awaited, Serving
    <2>8. ASSUME NEW c \in Callers PROVE Knows(c)'
      BY <2>2, <2>3, <2>5 DEF Knows, Serving
    <2>9. QED
      BY <2>6, <2>7, <2>8
  <1>5. CASE meta /\ WritesTime(k)
    <2>1. [rec EXCEPT !.time = k] \in Records
      BY <1>0 DEF Records, Sups
    <2>2. /\ sup[k].at = "pid" /\ sup'[k].at = "time" /\ rec' = [rec EXCEPT !.time = k]
          /\ \A j \in Sups \ {k} : sup'[j].at = sup[j].at
          /\ UNCHANGED <<meta, lock, call, ops>>
          /\ \A j \in Sups : Serving(j) => j = k
      BY <1>2, <1>5, <2>1 DEF WritesTime, Booting, SupSteps
    <2>3. rec'.sup = rec.sup /\ rec'.time = k /\ rec'.exit = rec.exit
      BY <1>0, <2>2 DEF Records
    <2>4. rec.sup = k /\ ~rec.exit
      BY <2>2 DEF Found, Serving
    <2>5. \A j \in Sups : Serving(j)' => j = k
      BY <2>2 DEF Serving
    <2>6. OneSupervisor' /\ Fresh' /\ RunWaits' /\ Known'
      BY <2>2, <2>3, <2>4, <2>5
      DEF OneSupervisor, Running, Serving, Fresh, RunWaits, Known
    <2>7. ASSUME NEW j \in Sups PROVE Found(j)'
      BY <1>5, <2>2, <2>3, <2>4, <2>5 DEF Found, Awaited, Serving
    <2>8. ASSUME NEW c \in Callers PROVE Knows(c)'
      BY <2>2, <2>3, <2>5 DEF Knows, Serving
    <2>9. QED
      BY <2>6, <2>7, <2>8
  <1>6. CASE meta /\ OpensLog(k)
    <2>1. /\ sup[k].at = "time" /\ sup'[k].at = "run" /\ rec' = rec
          /\ \A j \in Sups \ {k} : sup'[j].at = sup[j].at
          /\ UNCHANGED <<meta, lock, call, ops>>
      BY <1>0, <1>2, <1>6 DEF OpensLog, Booting, SupSteps
    <2>2. QED
      BY <2>1, ServingInv
  <1>7. QED
    BY <1>1, <1>3, <1>4, <1>5, <1>6
    DEF ReadsMeta, WritesPID, WritesTime, OpensLog, NeedsDir

(* The steps of a supervisor. *)
LEMMA SupervisorInv ==
    ASSUME TypeInv, SupInv, NEW k \in Sups, SupervisorRuns(k)
    PROVE  SupInv'
  <1> USE DEF task, bounds
  <1>0. /\ sup \in Supervisors /\ rec \in Records
    BY DEF TypeInv, TypeOK
  <1>1. CASE ReadsMeta(k) \/ WritesPID(k) \/ WritesTime(k) \/ OpensLog(k)
    BY <1>1, BootInv
  <1>2. CASE StartsChild(k)
    <2>1. sup[k].at = "run" /\ sup'[k].at = "started"
      BY <1>0, <1>2 DEF StartsChild, Supervisors
    <2>2. \A j \in Sups \ {k} : sup'[j].at = sup[j].at
      BY <1>0, <1>2 DEF StartsChild, Supervisors
    <2>3. UNCHANGED <<meta, rec, lock, call, ops>>
      BY <1>2 DEF StartsChild
    <2>4. QED
      BY <2>1, <2>2, <2>3, ServingInv
  <1>3. CASE RecordsChild(k) \/ RecordsChildTime(k)
    <2>1. /\ sup[k].at \in {"started", "recorded"} /\ sup'[k].at \in {"recorded", "wait"}
          /\ \A j \in Sups \ {k} : sup'[j].at = sup[j].at
      BY <1>3, SupStepType DEF RecordsChild, RecordsChildTime, SupSteps
    <2>2. rec'.sup = rec.sup /\ rec'.time = rec.time /\ rec'.exit = rec.exit
      BY <1>0, <1>3 DEF RecordsChild, RecordsChildTime, IfDir, Records
    <2>3. UNCHANGED <<meta, lock, call, ops>>
      BY <1>3 DEF RecordsChild, RecordsChildTime
    <2>4. QED
      BY <2>1, <2>2, <2>3, ServingInv
  <1>4. CASE HandlesSignal(k) \/ EndsChild(k)
    <2>1. \A j \in Sups : sup'[j].at = sup[j].at
      <3>1. CASE HandlesSignal(k)
        <4>1. PICK s \in sup[k].sig, f \in SUBSET {"stop", "restart"} :
                sup' = [sup EXCEPT ![k].sig = sup[k].sig \ {s}, ![k].flag = f]
          <5>1. PICK s \in sup[k].sig :
                  sup' = [sup EXCEPT ![k].sig = @ \ {s},
                                     ![k].flag = IF s = "TERM" THEN @ \cup {"stop"}
                                                 ELSE IF "stop" \in @ THEN @
                                                 ELSE @ \cup {"restart"}]
            BY <3>1 DEF HandlesSignal
          <5>2. sup[k].flag \in SUBSET {"stop", "restart"}
            BY <1>0 DEF Supervisors
          <5>3. (IF s = "TERM" THEN sup[k].flag \cup {"stop"}
                 ELSE IF "stop" \in sup[k].flag THEN sup[k].flag
                 ELSE sup[k].flag \cup {"restart"}) \in SUBSET {"stop", "restart"}
            BY <5>2
          <5>4. QED
            BY <5>1, <5>3, Zenon
        <4>2. QED
          BY <1>0, <4>1 DEF Supervisors
      <3>2. CASE EndsChild(k)
        BY <3>2 DEF EndsChild
      <3>3. QED
        BY <1>4, <3>1, <3>2
    <2>2. UNCHANGED <<meta, rec, lock, call, ops>>
      BY <1>4 DEF HandlesSignal, EndsChild
    <2>3. QED
      BY <2>1, <2>2, EndInv DEF OnlyEnds
  <1>5. CASE Decides(k) \/ BackoffTimer(k) \/ BackoffWoken(k)
    <2>1. /\ sup[k].at \in {"wait", "backoff"}
          /\ sup'[k].at \in {"stopped", "run", "backoff", "exited"}
      BY <1>0, <1>5
      DEF Decides, BackoffTimer, BackoffWoken, Decision, SupStep, Supervisors
    <2>2. \A j \in Sups \ {k} : sup'[j].at = sup[j].at
      BY <1>0, <1>5 DEF Decides, BackoffTimer, BackoffWoken, SupStep, Supervisors
    <2>3. UNCHANGED <<meta, rec, lock, call, ops>>
      BY <1>5 DEF Decides, BackoffTimer, BackoffWoken
    <2>4. QED
      BY <2>1, <2>2, <2>3, ServingInv
  <1>6. CASE WritesExit(k)
    <2>1. /\ sup[k].at \in {"stopped", "exited"} /\ sup'[k].at \in {"rm", "end"}
          /\ \A j \in Sups \ {k} : sup'[j].at = sup[j].at
      BY <1>6, SupStepType DEF WritesExit, SupSteps
    <2>2. rec'.sup = rec.sup /\ rec'.time = rec.time
      BY <1>0, <1>6 DEF WritesExit, IfDir, Records
    <2>3. UNCHANGED <<meta, lock, call, ops>>
      BY <1>6 DEF WritesExit
    <2>4. QED
      BY <2>1, <2>2, <2>3, ServingInv
  <1>7. CASE AutoRemoves(k)
    <2>1. /\ sup[k].at = "rm" /\ sup'[k].at = "end"
          /\ \A j \in Sups \ {k} : sup'[j].at = sup[j].at
      BY <1>7, SupStepType DEF AutoRemoves, SupSteps
    <2>2. /\ meta' = FALSE /\ rec' = NoRecord /\ rec'.sup = 0 /\ ~rec'.exit
          /\ UNCHANGED <<lock, call, ops>>
      BY <1>7 DEF AutoRemoves, NoRecord
    <2>3. \A j \in Sups : ~Serving(j)'
      BY <2>1 DEF Serving, SupInv, OneSupervisor, Running
    <2>4. OneSupervisor' /\ Fresh' /\ RunWaits' /\ Known'
      BY <2>1, <2>2, <2>3
      DEF SupInv, OneSupervisor, Running, Serving, Fresh, RunWaits, Known
    <2>5. ASSUME NEW j \in Sups PROVE Found(j)'
      BY <2>3 DEF Found, Serving
    <2>6. ASSUME NEW c \in Callers PROVE Knows(c)'
      BY <2>2, <2>3 DEF SupInv, Knows, Serving
    <2>7. QED
      BY <2>4, <2>5, <2>6 DEF SupInv
  <1>8. CASE Leaves(k)
    BY <1>8, SignalEffect, EndInv DEF Leaves
  <1>9. QED
    BY <1>1, <1>2, <1>3, <1>4, <1>5, <1>6, <1>7, <1>8 DEF SupervisorRuns

(* The processes' other steps. *)
LEMMA ProcessInv ==
    ASSUME TypeInv, SupInv,
           ChildExits \/ (\E k \in Sups : StartFails(k) \/ SupCrashes(k))
    PROVE  SupInv'
  <1> USE DEF task, bounds
  <1>1. CASE ChildExits
    BY <1>1, EndInv DEF ChildExits, OnlyEnds
  <1>2. ASSUME NEW k \in Sups, StartFails(k)
        PROVE  SupInv'
    <2>1. /\ sup[k].at = "run"
          /\ sup'[k].at \in {"stopped", "run", "backoff", "exited"}
      BY <1>2 DEF StartFails, Decision, TypeInv, TypeOK, Supervisors
    <2>2. \A j \in Sups \ {k} : sup'[j].at = sup[j].at
      BY <1>2 DEF StartFails, TypeInv, TypeOK, Supervisors
    <2>3. UNCHANGED <<meta, rec, lock, call, ops>>
      BY <1>2 DEF StartFails
    <2>4. QED
      BY <2>1, <2>2, <2>3, ServingInv
  <1>3. ASSUME NEW k \in Sups, SupCrashes(k)
        PROVE  SupInv'
    BY <1>3, SignalEffect, EndInv DEF SupCrashes
  <1>4. QED
    BY <1>1, <1>2, <1>3

(* The lock's holder goes on with a request, and supervisors may end. *)
LEMMA HolderInv ==
    ASSUME TypeInv, SupInv, NEW c \in Callers, lock = c,
           call[c].at \notin {"idle", "lock", "await", "unlock", "dead"},
           call'[c].at # "lock",
           \A d \in Callers \ {c} : call'[d] = call[d],
           UNCHANGED <<meta, rec, lock, ops>>, OnlyEnds,
           call[c].at = "read" /\ ~meta => call'[c].at = "unlock",
           Knows(c)'
    PROVE  SupInv'
  <1> USE DEF SupInv
  <1>0. None \notin Callers
    BY OpAssumption
  <1>1. \A k \in Sups : sup'[k].at = "none" <=> sup[k].at = "none"
    BY DEF OnlyEnds
  <1>2. \A k \in Sups : Serving(k)' => Serving(k) /\ sup'[k].at = sup[k].at
    BY DEF Serving, OnlyEnds
  <1>3. OneSupervisor'
    BY <1>2 DEF OneSupervisor, Running, Serving
  <1>4. Fresh' /\ RunWaits'
    BY <1>0, <1>1 DEF Fresh, RunWaits
  <1>5. Known'
    BY <1>1 DEF Known, TypeInv, TypeOK, Records, Sups
  <1>6. \A k \in Sups : ~Awaited(k)
    BY DEF Awaited
  <1>7. ASSUME NEW k \in Sups PROVE Found(k)'
    BY <1>0, <1>2, <1>6 DEF Found, Serving
  <1>8. ASSUME NEW d \in Callers, d # c PROVE Knows(d)'
    <2>1. call[d].at \in {"idle", "lock", "dead"}
      BY <1>8 DEF TypeInv, TypeOK
    <2>2. QED
      BY <1>8, <2>1 DEF Knows
  <1>9. QED
    BY <1>3, <1>4, <1>5, <1>7, <1>8

(* verifyAndGetPID under the lock sees the supervisor that serves. *)
LEMMA VerifySees ==
    ASSUME TypeInv, SupInv, NEW c \in Callers, call[c].at = "verify",
           NEW k \in Sups, Serving(k)
    PROVE  Recorded /\ rec.sup = k
  <1>1. lock = c /\ Knows(c) /\ Found(k) /\ ~Awaited(k)
    BY DEF TypeInv, TypeOK, SupInv, Awaited
  <1>2. rec.sup = k /\ rec.time \in {0, k}
    BY <1>1 DEF Knows, Found
  <1>3. QED
    BY <1>2 DEF Recorded, IsAlive, VerifyPID, Serving, Sups

LEMMA RequestInv ==
    ASSUME TypeInv, SupInv, NEW c \in Callers,
           \/ ReadMeta(c) \/ Verify(c) \/ Terminate(c) \/ WaitOver(c) \/ WaitTimesOut(c)
           \/ Kill(c) \/ KillChild(c) \/ Hangup(c)
    PROVE  SupInv'
  <1> USE DEF task, bounds
  <1>0. /\ call \in Requests /\ StepsOfOp(c) /\ Knows(c)
        /\ \A k \in Sups : Found(k)
        /\ call[c].at \notin {"idle", "lock", "dead"} => lock = c
    BY DEF TypeInv, TypeOK, SupInv
  <1>1. CASE ReadMeta(c)
    <2>1. /\ call[c].at = "read" /\ call'[c].at = IF meta THEN "verify" ELSE "unlock"
          /\ \A d \in Callers \ {c} : call'[d] = call[d]
      BY <1>1, CallStepType DEF ReadMeta, CallSteps
    <2>2. UNCHANGED <<meta, rec, lock, ops, sup>>
      BY <1>1 DEF ReadMeta
    <2>3. Knows(c)'
      BY <1>0, <2>1, <2>2 DEF Knows, Found, Awaited
    <2>4. QED
      BY <1>0, <2>1, <2>2, <2>3, HolderInv DEF OnlyEnds
  <1>2. CASE Verify(c)
    <2>1. call[c].at = "verify" /\ call[c].op \in AllOps \ {"run"}
      BY <1>0, <1>2 DEF Verify, StepsOfOp
    <2>2. UNCHANGED <<meta, rec, lock, ops, sup>>
      BY <1>2 DEF Verify
    <2>3. \A d \in Callers \ {c} : call'[d] = call[d]
      BY <1>0, <1>2 DEF Verify, Requests
    <2>4. Knows(c)' /\ call'[c].at # "lock"
      <3>1. CASE Recorded
        <4> DEFINE t == IfAlive(call[c].op)
        <4>1. call' = [call EXCEPT ![c].at = t, ![c].pid = rec.sup]
          BY <1>2, <3>1 DEF Verify
        <4>2. /\ t \in {"term", "kill", "hup", "killChild", "unlock"}
              /\ t = "killChild" => call[c].op = "forceRestart"
          BY <2>1, NextStepTypes
        <4> HIDE DEF t
        <4>3. call'[c].at = t /\ call'[c].pid = rec.sup /\ call'[c].op = call[c].op
          BY <1>0, <4>1 DEF Requests
        <4>4. \A k \in Sups : Serving(k)' => k = rec.sup
          BY <2>1, <2>2, VerifySees DEF Serving
        <4>5. QED
          BY <4>2, <4>3, <4>4 DEF Knows
      <3>2. CASE ~Recorded
        <4>1. CallStep(c, "verify", IfDead(call[c].op))
          BY <1>2, <3>2 DEF Verify, CallStep
        <4>2. IfDead(call[c].op) \in {"unlock", "remove", "killChild"}
          BY <2>1, NextStepTypes
        <4>3. call'[c].at \in {"unlock", "remove", "killChild"}
          BY <4>1, <4>2, CallStepType DEF CallSteps
        <4>4. \A k \in Sups : ~Serving(k)'
          BY <2>1, <2>2, <3>2, VerifySees DEF Serving
        <4>5. QED
          BY <4>3, <4>4 DEF Knows
      <3>3. QED
        BY <3>1, <3>2
    <2>5. QED
      BY <1>0, <2>1, <2>2, <2>3, <2>4, HolderInv DEF OnlyEnds
  <1>3. CASE Terminate(c) \/ Hangup(c)
    <2>1. /\ \/ call[c].at = "term" /\ call'[c].at = "wait"
             \/ call[c].at = "hup" /\ call'[c].at = "unlock"
          /\ call'[c].pid = call[c].pid
          /\ \A d \in Callers \ {c} : call'[d] = call[d]
      BY <1>3, CallStepType DEF Terminate, Hangup, CallSteps
    <2>2. UNCHANGED <<meta, rec, lock, ops>>
      BY <1>3 DEF Terminate, Hangup
    <2>3. OnlyEnds
      BY <1>0, <1>3, <2>1, SignalEffect DEF Terminate, Hangup, StepsOfOp
    <2>4. \A k \in Sups : Serving(k)' => Serving(k)
      BY <2>3 DEF OnlyEnds, Serving
    <2>5. Knows(c)'
      BY <1>0, <2>1, <2>4 DEF Knows
    <2>6. QED
      BY <1>0, <2>1, <2>2, <2>3, <2>5, HolderInv
  <1>4. CASE WaitOver(c) \/ WaitTimesOut(c) \/ Kill(c)
    <2>1. /\ call[c].at \in {"wait", "kill"} /\ call'[c].at = "killChild"
          /\ \A d \in Callers \ {c} : call'[d] = call[d]
      BY <1>4, CallStepType DEF WaitOver, WaitTimesOut, Kill, CallSteps
    <2>2. UNCHANGED <<meta, rec, lock, ops>> /\ call[c].pid \in Sups
      BY <1>0, <1>4, <2>1 DEF WaitOver, WaitTimesOut, Kill, StepsOfOp
    <2>3. OnlyEnds /\ \A k \in Sups : k = call[c].pid => ~Serving(k)'
      <3>1. CASE WaitOver(c)
        BY <3>1 DEF WaitOver, IsAlive, OnlyEnds, Serving
      <3>2. CASE WaitTimesOut(c) \/ Kill(c)
        <4>1. SignalKill(call[c].pid)
          BY <3>2 DEF WaitTimesOut, Kill
        <4>2. ASSUME NEW k \in Sups, k = call[c].pid
              PROVE  ~Serving(k)'
          BY <4>1, <4>2, EndedType DEF SignalKill, Running, Serving
        <4>3. QED
          BY <2>2, <4>1, <4>2, SignalEffect
      <3>3. QED
        BY <1>4, <3>1, <3>2
    <2>4. \A k \in Sups : ~Serving(k)'
      BY <1>0, <2>1, <2>3 DEF OnlyEnds, Serving, Knows
    <2>5. Knows(c)'
      BY <2>1, <2>4 DEF Knows
    <2>6. QED
      BY <1>0, <2>1, <2>2, <2>3, <2>5, HolderInv
  <1>5. CASE KillChild(c)
    <2>1. call[c].at = "killChild" /\ call[c].op \in AllOps \ {"restart", "cleanup"}
      BY <1>0, <1>5 DEF KillChild, CallStep, StepsOfOp
    <2>2. /\ AfterKill(call[c].op) \in {"unlock", "hup", "remove", "clear"}
          /\ AfterKill(call[c].op) = "hup" <=> call[c].op = "forceRestart"
      BY <2>1, NextStepTypes
    <2>3. /\ call'[c].at = AfterKill(call[c].op)
          /\ \A d \in Callers \ {c} : call'[d] = call[d]
      BY <1>5, <2>2, CallStepType DEF KillChild, CallSteps
    <2>4. UNCHANGED <<meta, rec, lock, ops, sup>>
      BY <1>5 DEF KillChild
    <2>5. Knows(c)'
      BY <1>0, <2>1, <2>2, <2>3, <2>4 DEF Knows, Serving
    <2>6. QED
      BY <1>0, <2>1, <2>2, <2>3, <2>4, <2>5, HolderInv DEF OnlyEnds
  <1>6. QED
    BY <1>1, <1>2, <1>3, <1>4, <1>5

(* The lock's holder goes on, and no supervisor is starting: nobody needs  *)
(* the holder to be found.                                                 *)
LEMMA NoneStartsInv ==
    ASSUME TypeInv, SupInv, NEW c \in Callers, lock = c,
           call[c].at \notin {"idle", "lock", "dead"}, call'[c].at # "lock",
           \A d \in Callers \ {c} : call'[d] = call[d],
           UNCHANGED <<lock, ops, sup>>,
           \A k \in Sups : ~Starting(k),
           \/ UNCHANGED <<meta, rec>>
           \/ (\A k \in Sups : ~Serving(k)) /\ rec'.sup \in {0, rec.sup},
           Knows(c)'
    PROVE  SupInv'
  <1> USE DEF SupInv
  <1>0. None \notin Callers
    BY OpAssumption
  <1>1. OneSupervisor' /\ Fresh' /\ RunWaits' /\ Known'
    BY <1>0 DEF OneSupervisor, Running, Fresh, RunWaits, Known
  <1>2. ASSUME NEW k \in Sups PROVE Found(k)'
    BY DEF Found, Starting, Serving
  <1>3. ASSUME NEW d \in Callers, d # c PROVE Knows(d)'
    <2>1. call[d].at \in {"idle", "lock", "dead"}
      BY <1>3 DEF TypeInv, TypeOK
    <2>2. QED
      BY <1>3, <2>1 DEF Knows
  <1>4. QED
    BY <1>1, <1>2, <1>3

LEMMA LaunchInv ==
    ASSUME Gentle, TypeInv, SupInv, NEW c \in Callers,
           \/ Remove(c) \/ ClearExit(c) \/ Launch(c) \/ LaunchConfirmed(c)
           \/ LaunchDied(c) \/ LaunchGivenUp(c)
    PROVE  SupInv'
  <1> USE DEF task, bounds
  <1>0. /\ call \in Requests /\ sup \in Supervisors /\ rec \in Records
        /\ StepsOfOp(c) /\ Knows(c)
        /\ \A k \in Sups : Found(k)
        /\ call[c].at \notin {"idle", "lock", "dead"} => lock = c
    BY DEF TypeInv, TypeOK, SupInv
  <1>1. CASE Remove(c) \/ ClearExit(c)
    <2>1. /\ call[c].at \in {"remove", "clear"}
          /\ call'[c].at = IF call[c].at = "remove" THEN "unlock" ELSE "launch"
          /\ \A d \in Callers \ {c} : call'[d] = call[d]
      BY <1>1, CallStepType DEF Remove, ClearExit, CallSteps
    <2>2. UNCHANGED <<lock, ops, sup>> /\ \A k \in Sups : ~Serving(k)
      BY <1>0, <1>1, <2>1 DEF Remove, ClearExit, Knows
    <2>3. rec'.sup \in {0, rec.sup} /\ ~rec'.exit
      BY <1>0, <1>1 DEF Remove, ClearExit, NoRecord, Records
    <2>4. Knows(c)'
      BY <2>1, <2>2, <2>3 DEF Knows, Serving
    <2>5. \A k \in Sups : ~Starting(k)
      BY <2>2 DEF Starting, Serving
    <2>6. QED
      BY <1>0, <2>1, <2>2, <2>3, <2>4, <2>5, NoneStartsInv
  <1>2. CASE LaunchDied(c) \/ LaunchGivenUp(c)
    <2>1. /\ call[c].at = "await" /\ call'[c].pid = call[c].pid /\ call'[c].op = call[c].op
          /\ \/ call'[c].at = "unlock"
             \/ call'[c].at = "term" /\ LaunchGivenUp(c)
             \/ call'[c].at = "killChild" /\ ~IsAlive(call[c].pid)
          /\ \A d \in Callers \ {c} : call'[d] = call[d]
      BY <1>2, CallStepType DEF LaunchDied, LaunchGivenUp, CallSteps
    <2>2. UNCHANGED <<meta, rec, lock, ops, sup>>
      BY <1>2 DEF LaunchDied, LaunchGivenUp
    <2>3. ~Starting(call[c].pid)
      BY <1>2 DEF LaunchDied, LaunchGivenUp, Gentle, Starting, IsAlive
    <2>4. \A k \in Sups : Serving(k) => k = call[c].pid
      BY <1>0, <2>1 DEF Knows
    <2>5. \A k \in Sups : ~Starting(k)
      BY <2>3, <2>4 DEF Starting, Serving
    <2>6. ~IsAlive(call[c].pid) => \A k \in Sups : ~Serving(k)
      BY <2>4 DEF IsAlive, Serving
    <2>7. Knows(c)'
      BY <2>1, <2>2, <2>4, <2>6 DEF Knows, Serving
    <2>8. QED
      BY <1>0, <2>1, <2>2, <2>5, <2>7, NoneStartsInv
  <1>3. CASE LaunchConfirmed(c)
    <2>1. /\ call[c].at = "await" /\ call'[c].at = "unlock" /\ lock = c
          /\ \A d \in Callers \ {c} : call'[d] = call[d]
      BY <1>0, <1>3, CallStepType DEF LaunchConfirmed, CallSteps
    <2>2. UNCHANGED <<meta, rec, lock, ops, sup>> /\ Evidence(call[c].pid)
      BY <1>3 DEF LaunchConfirmed
    <2>3. None \notin Callers
      BY OpAssumption
    <2>4. OneSupervisor' /\ Fresh' /\ RunWaits' /\ Known'
      BY <2>1, <2>2, <2>3 DEF SupInv, OneSupervisor, Running, Fresh, RunWaits, Known
    <2>5. ASSUME NEW k \in Sups PROVE Found(k)'
      <3>1. Serving(k) => k = call[c].pid
        BY <1>0, <2>1 DEF Knows
      <3>2. CASE sup[k].at \in {"launched", "meta"}
        <4>1. ~rec.exit /\ k = call[c].pid /\ IsAlive(k)
          BY <1>0, <3>1, <3>2 DEF Found, Serving, IsAlive
        <4>2. ~meta
          BY <1>0, <2>2, <3>2, <4>1 DEF Found, Evidence
        <4>3. QED
          BY <2>1, <2>2, <3>2, <4>1, <4>2 DEF Found, Serving
      <3>3. CASE sup[k].at = "pid"
        <4>1. ~rec.exit /\ k = call[c].pid /\ IsAlive(k) /\ meta /\ rec.sup = k
          BY <1>0, <3>1, <3>3 DEF Found, Serving, IsAlive
        <4>2. rec.time \in {0, k}
          BY <2>2, <4>1 DEF Evidence, VerifyPID
        <4>3. QED
          BY <2>2, <3>3, <4>1, <4>2 DEF Found, Serving
      <3>4. CASE sup[k].at \notin {"launched", "meta", "pid"}
        BY <1>0, <2>2, <3>4 DEF Found, Serving
      <3>5. QED
        BY <3>2, <3>3, <3>4
    <2>6. ASSUME NEW d \in Callers PROVE Knows(d)'
      <3>1. call'[d].at \in {"unlock", "idle", "lock", "dead"}
        BY <2>1 DEF TypeInv, TypeOK
      <3>2. QED
        BY <3>1 DEF Knows
    <2>7. QED
      BY <2>4, <2>5, <2>6 DEF SupInv
  <1>4. CASE Launch(c)
    <2>1. PICK k \in Sups :
            /\ \A j \in Sups : sup[j].at = "none" <=> j >= k
            /\ sup' = [sup EXCEPT ![k].at = "launched"]
            /\ call' = [call EXCEPT ![c].at = "await", ![c].pid = k]
      BY <1>4 DEF Launch
    <2>2. call[c].at = "launch" /\ lock = c /\ UNCHANGED <<meta, rec, lock, ops>>
      BY <1>0, <1>4 DEF Launch
    <2>3. /\ sup[k].at = "none" /\ sup'[k].at = "launched"
          /\ \A j \in Sups \ {k} : sup'[j].at = sup[j].at
      <3>1. k >= k
        BY DEF Sups
      <3>2. QED
        BY <1>0, <2>1, <3>1 DEF Supervisors
    <2>4. /\ call'[c].at = "await" /\ call'[c].pid = k
          /\ \A d \in Callers \ {c} : call'[d] = call[d]
      BY <1>0, <2>1 DEF Requests
    <2>5. (\A j \in Sups : ~Serving(j)) /\ ~rec.exit /\ None \notin Callers
      BY <1>0, <2>2, OpAssumption DEF Knows
    <2>6. \A j \in Sups : Serving(j)' => j = k
      BY <2>3, <2>5 DEF Serving
    <2>7. rec.sup # k /\ (rec.sup # 0 => rec.sup \in Sups)
      BY <1>0, <2>3 DEF SupInv, Known, Records, Sups
    <2>8. OneSupervisor' /\ Fresh' /\ RunWaits' /\ Known'
      <3>1. OneSupervisor'
        BY <2>6 DEF OneSupervisor, Running, Serving
      <3>2. Fresh' /\ RunWaits'
        BY <2>2, <2>4, <2>5 DEF SupInv, Fresh, RunWaits
      <3>3. Known'
        BY <2>2, <2>3, <2>7 DEF SupInv, Known
      <3>4. QED
        BY <3>1, <3>2, <3>3
    <2>9. ASSUME NEW j \in Sups PROVE Found(j)'
      <3>1. CASE j = k
        BY <2>2, <2>3, <2>4, <2>5, <2>7, <3>1 DEF Found, Awaited
      <3>2. CASE j # k
        BY <2>6, <3>2 DEF Found, Serving
      <3>3. QED
        BY <3>1, <3>2
    <2>10. ASSUME NEW d \in Callers PROVE Knows(d)'
      <3>1. d # c => call'[d].at \in {"idle", "lock", "dead"}
        BY <2>2, <2>4 DEF TypeInv, TypeOK
      <3>2. QED
        BY <2>4, <2>6, <3>1 DEF Knows
    <2>11. QED
      BY <2>8, <2>9, <2>10 DEF SupInv
  <1>5. QED
    BY <1>1, <1>2, <1>3, <1>4

(* The lock is asked for, taken, given back or reclaimed, or its holder    *)
(* dies; the supervisors are left alone.                                   *)
LEMMA LockInv ==
    ASSUME Gentle, TypeInv, SupInv, NEW c \in Callers,
           \/ \E o \in Ops : Ask(c, o)
           \/ Lock(c) \/ LockFails(c) \/ Unlock(c) \/ CallerDies(c) \/ LeaseReaped(c)
    PROVE  SupInv'
  <1> USE DEF task, bounds
  <1>0. /\ call \in Requests /\ lock \in Callers \cup {None} /\ None \notin Callers
        /\ Fresh /\ RunWaits /\ Known /\ OneSupervisor /\ ops \in Nat
        /\ (\A k \in Sups : Found(k)) /\ (\A d \in Callers : Knows(d))
        /\ \A d \in Callers : call[d].at \notin {"idle", "lock", "dead"} => lock = d
    BY OpAssumption DEF TypeInv, TypeOK, SupInv
  <1>1. UNCHANGED sup
    BY DEF Ask, Lock, LockFails, Unlock, CallerDies, LeaseReaped
  <1>2. OneSupervisor'
    BY <1>0, <1>1 DEF OneSupervisor, Running
  <1>3. ASSUME NEW o \in Ops, Ask(c, o)
        PROVE  SupInv'
    <2>1. /\ call[c].at = "idle" /\ call'[c].at = "lock" /\ call'[c].op = o
          /\ \A d \in Callers \ {c} : call'[d] = call[d]
      BY <1>0, <1>3 DEF Ask, Requests
    <2>2. /\ UNCHANGED <<rec, lock>> /\ ops' # 0
          /\ IF o = "run" THEN ops = 0 ELSE UNCHANGED meta
      BY <1>0, <1>3 DEF Ask
    <2>3. Fresh' /\ RunWaits' /\ Known'
      BY <1>0, <1>1, <2>1, <2>2 DEF Fresh, RunWaits, Known
    <2>4. ASSUME NEW k \in Sups PROVE Found(k)'
      <3>1. CASE o = "run"
        BY <1>0, <1>1, <2>2, <3>1 DEF Fresh, Found, Serving
      <3>2. CASE o # "run"
        BY <1>0, <1>1, <2>1, <2>2, <3>2 DEF Found, Awaited, Serving
      <3>3. QED
        BY <3>1, <3>2
    <2>5. ASSUME NEW d \in Callers PROVE Knows(d)'
      BY <1>0, <1>1, <2>1, <2>2 DEF Knows, Serving
    <2>6. QED
      BY <1>2, <2>3, <2>4, <2>5 DEF SupInv
  <1>4. CASE Lock(c)
    <2>1. /\ call[c].at = "lock" /\ call'[c].op = call[c].op
          /\ call'[c].at = IF call[c].op = "run" THEN "launch" ELSE "read"
          /\ \A d \in Callers \ {c} : call'[d] = call[d]
      BY <1>4, CallStepType DEF Lock, CallSteps
    <2>2. /\ UNCHANGED <<meta, rec, ops>> /\ lock = None /\ lock' = c
          /\ \A d \in Callers \ {c} : call[d].at = "lock" => call[d].op # "run"
      BY <1>4 DEF Lock, Gentle
    <2>3. call[c].op = "run" => rec = NoRecord /\ \A k \in Sups : sup[k].at = "none"
      BY <1>0, <2>1 DEF RunWaits
    <2>4. Fresh' /\ RunWaits' /\ Known'
      BY <1>0, <1>1, <2>1, <2>2 DEF Fresh, RunWaits, Known
    <2>5. ASSUME NEW k \in Sups PROVE Found(k)'
      <3>1. CASE call[c].op = "run"
        BY <1>1, <2>3, <3>1 DEF Found, Serving
      <3>2. CASE call[c].op # "run"
        BY <1>0, <1>1, <2>1, <2>2, <3>2 DEF Found, Awaited, Serving
      <3>3. QED
        BY <3>1, <3>2
    <2>6. ASSUME NEW d \in Callers PROVE Knows(d)'
      <3>1. CASE d = c
        BY <1>1, <2>1, <2>2, <2>3, <3>1 DEF Knows, Serving, NoRecord
      <3>2. CASE d # c
        BY <1>0, <1>1, <2>1, <2>2, <3>2 DEF Knows, Serving
      <3>3. QED
        BY <3>1, <3>2
    <2>7. QED
      BY <1>2, <2>4, <2>5, <2>6 DEF SupInv
  <1>5. CASE LockFails(c)
    <2>1. /\ call[c].at = "lock" /\ call'[c].at = "idle"
          /\ \A d \in Callers \ {c} : call'[d] = call[d]
      BY <1>5, CallStepType DEF LockFails, CallSteps
    <2>2. /\ UNCHANGED <<lock, ops>>
          /\ IF call[c].op = "run" THEN rec' = NoRecord ELSE UNCHANGED <<meta, rec>>
      BY <1>0, <1>5 DEF LockFails, TypeInv, TypeOK
    <2>3. call[c].op = "run" => rec = NoRecord /\ \A k \in Sups : sup[k].at = "none"
      BY <1>0, <2>1 DEF RunWaits
    <2>4. Fresh' /\ RunWaits' /\ Known'
      BY <1>0, <1>1, <2>1, <2>2, <2>3 DEF Fresh, RunWaits, Known
    <2>5. ASSUME NEW k \in Sups PROVE Found(k)'
      <3>1. CASE call[c].op = "run"
        BY <1>1, <2>3, <3>1 DEF Found, Serving
      <3>2. CASE call[c].op # "run"
        BY <1>0, <1>1, <2>1, <2>2, <3>2 DEF Found, Awaited, Serving
      <3>3. QED
        BY <3>1, <3>2
    <2>6. ASSUME NEW d \in Callers PROVE Knows(d)'
      <3>1. rec' = rec \/ call[c].op = "run"
        BY <2>2
      <3>2. rec' = rec
        BY <2>2, <2>3, <3>1
      <3>3. QED
        BY <1>0, <1>1, <2>1, <3>2 DEF Knows, Serving
    <2>7. QED
      BY <1>2, <2>4, <2>5, <2>6 DEF SupInv
  <1>6. CASE Unlock(c)
    <2>1. /\ call[c].at = "unlock" /\ call'[c].at = "idle" /\ lock = c
          /\ \A d \in Callers \ {c} : call'[d] = call[d]
      BY <1>0, <1>6, CallStepType DEF Unlock, CallSteps
    <2>2. UNCHANGED <<meta, rec, ops>> /\ lock' = None
      BY <1>6 DEF Unlock
    <2>3. Fresh' /\ RunWaits' /\ Known'
      BY <1>0, <1>1, <2>1, <2>2 DEF Fresh, RunWaits, Known
    <2>4. ASSUME NEW k \in Sups PROVE Found(k)'
      BY <1>0, <1>1, <2>1, <2>2 DEF Found, Awaited, Serving
    <2>5. ASSUME NEW d \in Callers PROVE Knows(d)'
      BY <1>0, <1>1, <2>1, <2>2 DEF Knows, Serving
    <2>6. QED
      BY <1>2, <2>3, <2>4, <2>5 DEF SupInv
  <1>7. CASE CallerDies(c)
    <2>1. /\ call[c].at \notin {"idle", "dead"} /\ call'[c].at = "dead"
          /\ \A d \in Callers \ {c} : call'[d] = call[d]
      BY <1>0, <1>7 DEF CallerDies, Requests
    <2>2. UNCHANGED <<meta, rec, lock, ops>>
      BY <1>7 DEF CallerDies
    <2>3. Fresh' /\ RunWaits' /\ Known'
      BY <1>0, <1>1, <2>1, <2>2 DEF Fresh, RunWaits, Known
    <2>4. ASSUME NEW k \in Sups PROVE Found(k)'
      BY <1>0, <1>1, <2>1, <2>2 DEF Found, Awaited, Serving
    <2>5. ASSUME NEW d \in Callers PROVE Knows(d)'
      BY <1>0, <1>1, <2>1, <2>2 DEF Knows, Serving
    <2>6. QED
      BY <1>2, <2>3, <2>4, <2>5 DEF SupInv
  <1>8. CASE LeaseReaped(c)
    <2>1. lock = c /\ lock' = None /\ UNCHANGED <<meta, rec, call, ops>>
      BY <1>8 DEF LeaseReaped
    <2>2. \A k \in Sups : ~Starting(k)
      BY <1>8 DEF LeaseReaped, Gentle
    <2>3. Fresh' /\ RunWaits' /\ Known'
      BY <1>0, <1>1, <2>1 DEF Fresh, RunWaits, Known
    <2>4. ASSUME NEW k \in Sups PROVE Found(k)'
      BY <1>0, <1>1, <2>1, <2>2 DEF Found, Starting, Serving
    <2>5. ASSUME NEW d \in Callers PROVE Knows(d)'
      BY <1>0, <1>1, <2>1 DEF Knows, Serving
    <2>6. QED
      BY <1>2, <2>3, <2>4, <2>5 DEF SupInv
  <1>9. QED
    BY <1>3, <1>4, <1>5, <1>6, <1>7, <1>8

-----------------------------------------------------------------------------
(* Where supervisors are found and what requests know of them, always. *)
LEMMA SupInvariant ==
    ASSUME Gentle
    PROVE  Spec => []SupInv
  <1>1. Init => SupInv
    BY SupInit
  <1>2. TypeInv /\ SupInv /\ [Next]_vars => SupInv'
    <2> SUFFICES ASSUME TypeInv, SupInv, [Next]_vars PROVE SupInv'
      OBVIOUS
    <2>1. ASSUME NEW c \in Callers,
                 \/ RequestRuns(c) \/ LockFails(c) \/ LaunchGivenUp(c) \/ CallerDies(c)
                 \/ \E o \in Ops : Ask(c, o)
          PROVE  SupInv'
      BY <2>1, RequestInv, LaunchInv, LockInv DEF RequestRuns
    <2>2. ASSUME NEW k \in Sups, SupervisorRuns(k) \/ StartFails(k) \/ SupCrashes(k)
          PROVE  SupInv'
      BY <2>2, SupervisorInv, ProcessInv
    <2>3. CASE ChildExits
      BY <2>3, ProcessInv
    <2>4. CASE UNCHANGED vars
      BY <2>4, EndInv DEF vars, task, bounds, OnlyEnds
    <2>5. QED
      BY <2>1, <2>2, <2>3, <2>4 DEF Next
  <1>3. QED
    BY <1>1, <1>2, TypeInvariant, PTL DEF Spec

(* At most one supervisor serves a task: for any number of requests by any *)
(* number of callers, which may die and lose their lock at any point, and  *)
(* of supervisors that crash at any point, as long as no request gives up  *)
(* on a launched supervisor that has not recorded its pid, and nobody      *)
(* locks a new task before the run that made it                            *)
(* (lifecycle.go:146-228, run.go:127-203).                                 *)
THEOREM OneSupervisorServes ==
    ASSUME Gentle
    PROVE  Spec => []OneSupervisor
  <1>1. SupInv => OneSupervisor
    BY DEF SupInv
  <1>2. QED
    BY <1>1, SupInvariant, PTL

(* Under the same conditions an exit on record is the exit of the task: a  *)
(* supervisor that still runs is past everything but leaving.              *)
THEOREM ExitStands ==
    ASSUME Gentle
    PROVE  Spec => []ExitIsFinal
  <1>1. SupInv => ExitIsFinal
    BY DEF SupInv, Found, ExitIsFinal, Running, Serving
  <1>2. QED
    BY <1>1, SupInvariant, PTL
-----------------------------------------------------------------------------
(* The children of the task. *)

(* Nor is a supervisor killed between starting a child and recording it.   *)
Careful == Gentle /\ ~KillsInStart

Holding == {"started", "recorded", "wait"}
Stopping == {"stop", "forceStop", "remove", "forceRemove", "replace"}

(* Nothing runs but the child of the supervisor that serves, and it is on  *)
(* record as soon as the supervisor may be killed.                         *)
Alone(k) ==
    /\ sup[k].at \in Holding => up \subseteq {sup[k].kid}
    /\ Serving(k) /\ sup[k].at \notin Holding => up = {}
    /\ sup[k].at \notin Holding => sup[k].kid = 0
    /\ sup[k].at \in {"recorded", "wait"} => rec.child = sup[k].kid
    /\ sup[k].at = "wait" => rec.ctime = sup[k].kid

(* What a request knows of children: while it may have to kill a stray     *)
(* the record is there, nothing runs when it launches, and what it stopped *)
(* stays stopped.                                                          *)
Informed(c) ==
    /\ call[c].at \in {"verify", "term", "wait", "kill", "killChild", "await"} =>
         meta \/ up = {}
    /\ call[c].at \in {"clear", "launch"} => up = {}
    /\ call[c].at = "lock" /\ call[c].op = "run" => up = {}
    /\ call[c].at \in {"lock", "read", "verify"} => call[c].pid = 0
    /\ call[c].at \in {"hup", "clear", "launch", "await"} => call[c].op \notin Stopping
    /\ call[c].op \in Stopping /\ call[c].pid # 0 =>
         /\ call[c].at \in {"killChild", "remove", "unlock"} =>
              ~Running(call[c].pid) /\ \A k \in Sups : ~Serving(k)
         /\ call[c].at \in {"remove", "unlock"} => up = {}

OneUp == \A a, b \in up : a = b

ChildInv ==
    /\ ops = 0 => up = {}
    /\ OneUp /\ StrayOnRecord
    /\ \A k \in Sups : Alone(k)
    /\ \A c \in Callers : Informed(c)

LEMMA ChildInit == Init => ChildInv
<1> SUFFICES ASSUME Init PROVE ChildInv
  OBVIOUS
<1>1. /\ \A k \in Sups : sup[k].at = "none" /\ sup[k].kid = 0
      /\ \A c \in Callers : call[c].at = "idle" /\ call[c].pid = 0
      /\ up = {}
  BY DEF Init, Unborn
<1> QED
  BY <1>1 DEF ChildInv, OneUp, StrayOnRecord, Alone, Informed, Holding, Serving

-----------------------------------------------------------------------------
(* Processes *)

(* A step of processes that starts no child, and no supervisor either.     *)
LEMMA StillInformed ==
    ASSUME TypeInv, SupInv, ChildInv, UNCHANGED <<call, lock, ops>>, up' \subseteq up,
           meta' = meta \/ up' = {},
           \A k \in Sups : (Running(k)' => Running(k)) /\ (Serving(k)' => Serving(k))
    PROVE  (\A c \in Callers : Informed(c)') /\ (ops' = 0 => up' = {}) /\ OneUp'
<1>1. ASSUME NEW c \in Callers PROVE Informed(c)'
  <2>1. call[c].pid # 0 => call[c].pid \in Sups
    BY DEF TypeInv, TypeOK, Requests, Sups
  <2> QED
    BY <2>1 DEF ChildInv, Informed
<1> QED
  BY <1>1 DEF ChildInv, OneUp

(* A supervisor that serves and has no child goes on to a step without.    *)
LEMMA ChildlessStep ==
    ASSUME TypeInv, SupInv, ChildInv, NEW k \in Sups, Serving(k), sup[k].at \notin Holding,
           sup'[k].at \notin Holding, sup'[k].kid = 0,
           \A j \in Sups \ {k} : sup'[j] = sup[j],
           UNCHANGED <<call, lock, ops, up>>
    PROVE  ChildInv'
<1>1. up = {} /\ Running(k)
  BY DEF ChildInv, Alone, Serving, Running
<1>2. \A j \in Sups \ {k} : ~Serving(j)
  BY DEF SupInv, OneSupervisor, Serving, Running
<1>3. ASSUME NEW j \in Sups PROVE Alone(j)'
  <2>1. CASE j = k
    BY <1>1, <2>1 DEF Alone, Holding
  <2>2. CASE j # k
    BY <1>1, <1>2, <2>2 DEF Alone, ChildInv, Holding, Serving
  <2> QED
    BY <2>1, <2>2
<1>4. \A j \in Sups : (Running(j)' => Running(j)) /\ (Serving(j)' => Serving(j))
  BY <1>1 DEF Running, Serving
<1> QED
  BY <1>1, <1>3, <1>4, StillInformed DEF ChildInv, StrayOnRecord

(* Processes end, but no supervisor in the middle of a start.              *)
MayEnd ==
    /\ up' \subseteq up
    /\ \A k \in Sups :
          \/ sup'[k].at = sup[k].at /\ sup'[k].kid = sup[k].kid
          \/ /\ sup[k].at \notin {"none", "started", "recorded"}
             /\ sup'[k].at \in {"gone", "zombie"} /\ sup'[k].kid = 0

LEMMA EndsAlone ==
    ASSUME TypeInv, SupInv, ChildInv, MayEnd, UNCHANGED <<meta, rec>>
    PROVE  /\ \A k \in Sups : /\ Alone(k)'
                              /\ Running(k)' => Running(k)
                              /\ Serving(k)' => Serving(k)
           /\ StrayOnRecord' /\ OneUp'
<1>1. ASSUME NEW k \in Sups
      PROVE  Alone(k)' /\ (Running(k)' => Running(k)) /\ (Serving(k)' => Serving(k))
  <2>1. CASE sup'[k].at = sup[k].at /\ sup'[k].kid = sup[k].kid
    BY <2>1 DEF MayEnd, ChildInv, Alone, Serving, Running
  <2>2. CASE /\ sup[k].at \notin {"none", "started", "recorded"}
             /\ sup'[k].at \in {"gone", "zombie"} /\ sup'[k].kid = 0
    BY <2>2 DEF Alone, Serving, Running, Holding
  <2> QED
    BY <2>1, <2>2 DEF MayEnd
<1>2. ASSUME NEW b \in up'
      PROVE  \/ \E k \in Sups : Running(k)' /\ sup'[k].kid = b
             \/ meta' => rec'.child = b /\ VerifyPID(b, rec'.ctime)
  <2>1. b \in up /\ b \in Children /\ b # 0
    BY <1>2 DEF MayEnd, TypeInv, TypeOK, Children
  <2>2. CASE meta => rec.child = b /\ VerifyPID(b, rec.ctime)
    BY <2>2
  <2>3. ASSUME NEW k \in Sups, Running(k), sup[k].kid = b
        PROVE  \/ Running(k)' /\ sup'[k].kid = b
               \/ rec'.child = b /\ VerifyPID(b, rec'.ctime)
    <3>1. CASE sup'[k].at = sup[k].at /\ sup'[k].kid = sup[k].kid
      BY <2>3, <3>1 DEF Running
    <3>2. CASE sup[k].at \notin {"none", "started", "recorded"}
      <4>1. sup[k].at = "wait"
        BY <2>1, <2>3, <3>2 DEF ChildInv, Alone, Holding
      <4> QED
        BY <4>1, <2>3 DEF ChildInv, Alone, VerifyPID
    <3> QED
      BY <3>1, <3>2 DEF MayEnd
  <2> QED
    BY <2>1, <2>2, <2>3 DEF ChildInv, StrayOnRecord
<1>3. OneUp'
  BY DEF OneUp, ChildInv, MayEnd
<1> QED
  BY <1>1, <1>2, <1>3 DEF StrayOnRecord

LEMMA EndStep ==
    ASSUME TypeInv, SupInv, ChildInv, MayEnd, UNCHANGED <<meta, rec, call, lock, ops>>
    PROVE  ChildInv'
<1>1. up' \subseteq up
  BY DEF MayEnd
<1> QED
  BY <1>1, EndsAlone, StillInformed DEF ChildInv

(* Signals make supervisors end, or are remembered. *)
LEMMA SignalEnds ==
    ASSUME Careful, TypeInv, NEW k \in Sups, up' \subseteq up,
           \/ Signal(k, "TERM") \/ Signal(k, "HUP") \/ SignalKill(k)
           \/ sup[k].at \notin {"none", "started", "recorded"} /\ Ended(k)
    PROVE  MayEnd
<1>0. sup \in Supervisors
  BY DEF TypeInv, TypeOK
<1>1. ASSUME sup[k].at \notin {"none", "started", "recorded"}, Ended(k)
      PROVE  MayEnd
  <2>1. PICK e \in Ends : sup' = [sup EXCEPT ![k] = [Unborn EXCEPT !.at = e]]
    BY <1>1 DEF Ended
  <2>2. e \in {"gone", "zombie"}
    BY FaultAssumption
  <2>3. [Unborn EXCEPT !.at = e] = [at |-> e, kid |-> 0, sig |-> {}, flag |-> {}]
    BY DEF Unborn
  <2> QED
    BY <1>0, <1>1, <2>1, <2>2, <2>3 DEF MayEnd, Supervisors
<1>2. ASSUME UNCHANGED sup PROVE MayEnd
  BY <1>2 DEF MayEnd
<1>3. CASE Signal(k, "TERM") \/ Signal(k, "HUP")
  <2>1. CASE sup[k].at \in Booting
    BY <1>1, <1>3, <2>1 DEF Signal, Booting
  <2>2. CASE sup[k].at \notin Booting
    BY <1>0, <1>3, <2>2 DEF Signal, MayEnd, Supervisors
  <2> QED
    BY <2>1, <2>2
<1>4. CASE SignalKill(k)
  BY <1>1, <1>2, <1>4 DEF SignalKill, Running, Careful
<1> QED
  BY <1>1, <1>3, <1>4

(* The steps of a supervisor that has a child, or starts one. *)
LEMMA BearingStep ==
    ASSUME TypeInv, SupInv, ChildInv, NEW k \in Sups,
           StartsChild(k) \/ RecordsChild(k) \/ RecordsChildTime(k) \/ Decides(k)
    PROVE  ChildInv'
<1> USE DEF task, bounds
<1>0. /\ sup \in Supervisors /\ rec \in Records /\ started \in Nat
      /\ UNCHANGED <<meta, lock, call, ops>>
  BY BoundAssumption DEF TypeInv, TypeOK, StartsChild, RecordsChild, RecordsChildTime, Decides
<1>1. /\ sup[k].at \in Holding \cup {"run"} /\ Serving(k) /\ Running(k) /\ meta
      /\ \A j \in Sups \ {k} : ~Serving(j)
  <2>1. sup[k].at \in Holding \cup {"run"}
    BY DEF StartsChild, RecordsChild, RecordsChildTime, Decides, SupStep, Holding
  <2> QED
    BY <2>1 DEF Holding, Serving, Running, SupInv, Found, OneSupervisor
<1>2. ops # 0
  BY <1>1 DEF SupInv, Fresh, Serving
<1>3. ASSUME NEW c \in Callers
      PROVE  /\ call[c].at \notin {"clear", "launch"}
             /\ ~(call[c].at = "lock" /\ call[c].op = "run")
             /\ call[c].op \in Stopping /\ call[c].pid # 0 =>
                  call[c].at \notin {"killChild", "remove", "unlock"}
  BY <1>1 DEF SupInv, Knows, RunWaits, ChildInv, Informed, Serving
<1>4. \A c \in Callers : Informed(c)'
  BY <1>0, <1>1, <1>3 DEF ChildInv, Informed
<1>5. /\ sup'[k].at \in SupSteps
      /\ \A j \in Sups \ {k} : sup'[j] = sup[j]
  BY <1>0, DecisionType
  DEF StartsChild, RecordsChild, RecordsChildTime, Decides, SupStep, Supervisors, SupSteps
<1>6. ASSUME NEW j \in Sups, j # k PROVE Alone(j)'
  BY <1>1, <1>5, <1>6 DEF ChildInv, Alone, Serving, Holding
<1>7. ASSUME Alone(k)', Running(k)', up' \subseteq {sup'[k].kid}
      PROVE  ChildInv'
  BY <1>0, <1>2, <1>4, <1>6, <1>7 DEF ChildInv, StrayOnRecord, OneUp
<1>8. CASE StartsChild(k)
  <2>1. up = {} /\ up' = {started + 1}
    BY <1>1, <1>8 DEF StartsChild, ChildInv, Alone, Holding
  <2>2. sup'[k].at = "started" /\ sup'[k].kid = started + 1
    BY <1>0, <1>8 DEF StartsChild, Supervisors
  <2> QED
    BY <1>7, <2>1, <2>2 DEF Alone, Holding, Running
<1>9. CASE RecordsChild(k) \/ RecordsChildTime(k)
  <2>1. /\ sup[k].at \in {"started", "recorded"} /\ up' = up
        /\ sup'[k].kid = sup[k].kid
        /\ sup'[k].at = IF sup[k].at = "started" THEN "recorded" ELSE "wait"
    BY <1>0, <1>9 DEF RecordsChild, RecordsChildTime, SupStep, Supervisors
  <2>2. /\ rec'.child = sup[k].kid
        /\ sup[k].at = "recorded" => rec'.ctime = sup[k].kid
    BY <1>0, <1>1, <1>9 DEF RecordsChild, RecordsChildTime, SupStep, IfDir, Records,
                            ChildInv, Alone
  <2> QED
    BY <1>7, <2>1, <2>2 DEF ChildInv, Alone, Holding, Running
<1>10. CASE Decides(k)
  <2>1. sup[k].at = "wait" /\ up' = up /\ up = {}
    BY <1>10 DEF Decides, ChildInv, Alone, Holding
  <2>2. /\ sup'[k].at = Decision(sup[k].flag) /\ sup'[k].kid = 0
        /\ sup'[k].at \in {"stopped", "run", "backoff", "exited"}
    BY <1>0, <1>10 DEF Decides, Decision, Supervisors
  <2> QED
    BY <1>7, <2>1, <2>2 DEF Alone, Holding, Running
<1> QED
  BY <1>8, <1>9, <1>10

(* All steps of processes. *)
LEMMA SupervisorChild ==
    ASSUME Careful, TypeInv, SupInv, ChildInv, NEW k \in Sups,
           SupervisorRuns(k) \/ StartFails(k) \/ SupCrashes(k)
    PROVE  ChildInv'
<1> USE DEF task, bounds
<1>0. sup \in Supervisors /\ Alone(k)
  BY DEF TypeInv, TypeOK, ChildInv
<1>1. CASE StartsChild(k) \/ RecordsChild(k) \/ RecordsChildTime(k) \/ Decides(k)
  BY <1>1, BearingStep
<1>2. CASE ReadsMeta(k) \/ WritesPID(k) \/ WritesTime(k) \/ OpensLog(k)
  <2>1. /\ sup[k].at \in Booting /\ UNCHANGED <<call, lock, ops, up>>
        /\ \/ Ended(k)
           \/ \E t \in {"meta", "pid", "time", "run"} : SupStep(k, sup[k].at, t)
    BY <1>2 DEF ReadsMeta, WritesPID, WritesTime, OpensLog, NeedsDir, Booting, SupStep
  <2>2. /\ sup'[k].at \in {"meta", "pid", "time", "run", "gone", "zombie"}
        /\ sup'[k].kid = 0
        /\ \A j \in Sups \ {k} : sup'[j] = sup[j]
    <3>1. CASE Ended(k)
      BY <1>0, <3>1, FaultAssumption DEF Ended, Unborn, Supervisors
    <3>2. CASE \E t \in {"meta", "pid", "time", "run"} : SupStep(k, sup[k].at, t)
      BY <1>0, <2>1, <3>2 DEF SupStep, Supervisors, Alone, Booting, Holding
    <3> QED
      BY <2>1, <3>1, <3>2
  <2> QED
    BY <2>1, <2>2, ChildlessStep DEF Booting, Serving, Holding
<1>3. CASE HandlesSignal(k) \/ EndsChild(k)
  <2>1. MayEnd
    <3>1. CASE EndsChild(k)
      BY <3>1 DEF EndsChild, MayEnd
    <3>2. CASE HandlesSignal(k)
      <4>1. PICK g, f : sup' = [sup EXCEPT ![k].sig = g, ![k].flag = f]
        BY <3>2 DEF HandlesSignal
      <4>2. up' = up
        BY <3>2 DEF HandlesSignal
      <4> QED
        BY <1>0, <4>1, <4>2 DEF MayEnd, Supervisors
    <3> QED
      BY <1>3, <3>1, <3>2
  <2>2. UNCHANGED <<meta, rec, call, lock, ops>>
    BY <1>3 DEF HandlesSignal, EndsChild
  <2> QED
    BY <2>1, <2>2, EndStep
<1>4. CASE BackoffTimer(k) \/ BackoffWoken(k) \/ StartFails(k)
  <2>1. /\ sup[k].at \in {"backoff", "run"}
        /\ sup'[k].at \in {"stopped", "run", "backoff", "exited"}
        /\ sup'[k].kid = sup[k].kid
        /\ \A j \in Sups \ {k} : sup'[j] = sup[j]
    BY <1>0, <1>4
    DEF BackoffTimer, BackoffWoken, StartFails, Decision, SupStep, Supervisors
  <2>2. UNCHANGED <<call, lock, ops, up>>
    BY <1>4 DEF BackoffTimer, BackoffWoken, StartFails
  <2> QED
    BY <1>0, <2>1, <2>2, ChildlessStep DEF Alone, Serving, Holding
<1>5. CASE WritesExit(k) \/ AutoRemoves(k)
  <2>1. /\ sup[k].at \in {"stopped", "exited", "rm"}
        /\ sup'[k].at \in {"rm", "end"}
        /\ sup'[k].kid = sup[k].kid
        /\ \A j \in Sups \ {k} : sup'[j] = sup[j]
    BY <1>0, <1>5 DEF WritesExit, AutoRemoves, SupStep, Supervisors
  <2>2. UNCHANGED <<call, lock, ops, up>>
    BY <1>5 DEF WritesExit, AutoRemoves
  <2> QED
    BY <1>0, <2>1, <2>2, ChildlessStep DEF Alone, Serving, Holding
<1>6. CASE Leaves(k) \/ SupCrashes(k)
  <2>1. UNCHANGED <<meta, rec, call, lock, ops, up>>
    BY <1>6 DEF Leaves, SupCrashes
  <2>2. MayEnd
    BY <1>6, <2>1, SignalEnds DEF Leaves, SupCrashes
  <2> QED
    BY <2>1, <2>2, EndStep
<1> QED
  BY <1>1, <1>2, <1>3, <1>4, <1>5, <1>6 DEF SupervisorRuns

-----------------------------------------------------------------------------
(* Requests *)

(* The lock's holder goes on. *)
LEMMA HolderChild ==
    ASSUME TypeInv, SupInv, ChildInv, NEW c \in Callers, lock = c,
           call[c].at \notin {"idle", "lock", "dead"},
           \A d \in Callers \ {c} : call'[d] = call[d],
           UNCHANGED ops, StrayOnRecord', OneUp',
           \A k \in Sups : Alone(k)',
           Informed(c)'
    PROVE  ChildInv'
<1>1. None \notin Callers /\ ops # 0
  BY OpAssumption DEF SupInv, Fresh
<1>2. ASSUME NEW d \in Callers, d # c PROVE Informed(d)'
  <2>1. call[d].at \in {"idle", "lock", "dead"}
    BY <1>2 DEF TypeInv, TypeOK
  <2>2. ~(call[d].at = "lock" /\ call[d].op = "run")
    BY <1>1 DEF SupInv, RunWaits
  <2> QED
    BY <1>2, <2>1, <2>2 DEF ChildInv, Informed
<1> QED
  BY <1>1, <1>2 DEF ChildInv

(* With its record a stray is found, and killed. *)
LEMMA StrayKilled ==
    ASSUME TypeInv, SupInv, ChildInv, NEW c \in Callers, KillChild(c),
           \A k \in Sups : ~Serving(k), meta \/ up = {}
    PROVE  up' = {}
<1>1. ASSUME NEW b \in up PROVE rec.child = b /\ VerifyPID(rec.child, rec.ctime)
  <2>1. b # 0 /\ meta
    BY <1>1 DEF TypeInv, TypeOK, Children
  <2>2. \A k \in Sups : Running(k) => sup[k].kid # b
    BY <2>1 DEF ChildInv, Alone, Holding, Running, Serving
  <2> QED
    BY <1>1, <2>1, <2>2 DEF ChildInv, StrayOnRecord
<1> QED
  BY <1>1 DEF KillChild

LEMMA FindSteps ==
    ASSUME Careful, TypeInv, SupInv, ChildInv, NEW c \in Callers,
           ReadMeta(c) \/ Verify(c)
    PROVE  ChildInv'
<1> USE DEF task, bounds
<1>0. /\ call \in Requests /\ StepsOfOp(c) /\ Informed(c)
      /\ call[c].at \notin {"idle", "lock", "dead"} => lock = c
  BY DEF TypeInv, TypeOK, ChildInv
<1>1. UNCHANGED <<meta, rec, lock, ops, sup, up>>
  BY DEF ReadMeta, Verify
<1>2. (\A k \in Sups : Alone(k)') /\ StrayOnRecord' /\ OneUp'
  BY <1>1 DEF ChildInv, Alone, StrayOnRecord, OneUp, Serving, Running
<1>3. CASE ReadMeta(c)
  <2>1. /\ call[c].at = "read" /\ call'[c].at = IF meta THEN "verify" ELSE "unlock"
        /\ call'[c].pid = call[c].pid
        /\ \A d \in Callers \ {c} : call'[d] = call[d]
    BY <1>3, CallStepType DEF ReadMeta, CallSteps
  <2>2. Informed(c)'
    BY <1>0, <1>1, <2>1 DEF Informed
  <2> QED
    BY <1>0, <1>1, <1>2, <2>1, <2>2, HolderChild
<1>4. CASE Verify(c)
  <2>1. call[c].at = "verify" /\ call[c].op \in AllOps \ {"run"} /\ call[c].pid = 0
    BY <1>0, <1>4 DEF Verify, StepsOfOp, Informed
  <2>2. \A d \in Callers \ {c} : call'[d] = call[d]
    BY <1>0, <1>4 DEF Verify, Requests
  <2>3. CASE Recorded
    <3> DEFINE t == IfAlive(call[c].op)
    <3>1. call' = [call EXCEPT ![c].at = t, ![c].pid = rec.sup]
      BY <1>4, <2>3 DEF Verify
    <3>2. /\ t \in {"term", "kill", "hup", "killChild", "unlock"}
          /\ t \in {"hup", "killChild", "unlock"} => call[c].op \notin Stopping
      BY <2>1 DEF AllOps, IfAlive, Stopping
    <3> HIDE DEF t
    <3>3. call'[c].at = t /\ call'[c].op = call[c].op
      BY <1>0, <3>1 DEF Requests
    <3>4. Informed(c)'
      BY <1>0, <1>1, <2>1, <3>2, <3>3 DEF Informed
    <3> QED
      BY <1>0, <1>1, <1>2, <2>1, <2>2, <3>4, HolderChild
  <2>4. CASE ~Recorded
    <3>1. CallStep(c, "verify", IfDead(call[c].op))
      BY <1>4, <2>4 DEF Verify, CallStep
    <3>2. IfDead(call[c].op) \in {"unlock", "remove", "killChild"}
      BY <2>1, NextStepTypes
    <3>3. call'[c].at \in {"unlock", "remove", "killChild"} /\ call'[c].pid = 0
      BY <2>1, <3>1, <3>2, CallStepType DEF CallSteps
    <3>4. Informed(c)'
      BY <1>0, <1>1, <2>1, <3>3 DEF Informed
    <3> QED
      BY <1>0, <1>1, <1>2, <2>1, <2>2, <3>4, HolderChild
  <2> QED
    BY <2>3, <2>4
<1> QED
  BY <1>3, <1>4

LEMMA StopSteps ==
    ASSUME Careful, TypeInv, SupInv, ChildInv, NEW c \in Callers,
           Terminate(c) \/ Hangup(c) \/ WaitOver(c) \/ WaitTimesOut(c) \/ Kill(c)
    PROVE  ChildInv'
<1> USE DEF task, bounds
<1>0. /\ call \in Requests /\ StepsOfOp(c) /\ Informed(c) /\ Knows(c)
      /\ call[c].at \notin {"idle", "lock", "dead"} => lock = c
  BY DEF TypeInv, TypeOK, ChildInv, SupInv
<1>1. UNCHANGED <<meta, rec, lock, ops, up>>
  BY DEF Terminate, Hangup, WaitOver, WaitTimesOut, Kill
<1>2. /\ \/ call[c].at = "term" /\ call'[c].at = "wait"
         \/ call[c].at = "hup" /\ call'[c].at = "unlock"
         \/ call[c].at \in {"wait", "kill"} /\ call'[c].at = "killChild"
      /\ call'[c].pid = call[c].pid /\ call'[c].op = call[c].op
      /\ \A d \in Callers \ {c} : call'[d] = call[d]
  BY CallStepType DEF Terminate, Hangup, WaitOver, WaitTimesOut, Kill, CallSteps
<1>3. call[c].pid \in Sups
  BY <1>0, <1>2 DEF StepsOfOp
<1>4. MayEnd
  <2>1. CASE WaitOver(c)
    BY <2>1 DEF WaitOver, MayEnd
  <2>2. CASE Terminate(c) \/ Hangup(c) \/ WaitTimesOut(c) \/ Kill(c)
    BY <1>1, <1>3, <2>2, SignalEnds DEF Terminate, Hangup, WaitTimesOut, Kill
  <2> QED
    BY <2>1, <2>2
<1>5. /\ (\A k \in Sups : Alone(k)') /\ StrayOnRecord' /\ OneUp'
      /\ \A k \in Sups : Serving(k)' => Serving(k)
  BY <1>1, <1>4, EndsAlone
<1>6. ASSUME NEW k \in Sups, k = call[c].pid, call'[c].at = "killChild"
      PROVE  ~Running(k)'
  <2>1. CASE WaitOver(c)
    BY <1>6, <2>1 DEF WaitOver, IsAlive, Running
  <2>2. CASE WaitTimesOut(c) \/ Kill(c)
    <3>1. SignalKill(k)
      BY <1>6, <2>2 DEF WaitTimesOut, Kill
    <3> QED
      BY <3>1, EndedType DEF SignalKill, Running
  <2>3. CASE Terminate(c) \/ Hangup(c)
    BY <1>2, <1>6, <2>3 DEF Terminate, Hangup, CallStep
  <2> QED
    BY <2>1, <2>2, <2>3
<1>7. call'[c].at = "killChild" => \A k \in Sups : ~Serving(k)'
  BY <1>0, <1>2, <1>3, <1>5, <1>6 DEF Knows, Serving, Running
<1>8. Informed(c)'
  <2>1. call'[c].at = "killChild" => ~Running(call[c].pid)'
    BY <1>2, <1>3, <1>6 DEF Running
  <2> QED
    BY <1>0, <1>1, <1>2, <1>7, <2>1 DEF Informed
<1> QED
  BY <1>0, <1>1, <1>2, <1>5, <1>8, HolderChild

LEMMA KillChildStep ==
    ASSUME TypeInv, SupInv, ChildInv, NEW c \in Callers, KillChild(c)
    PROVE  ChildInv'
<1> USE DEF task, bounds
<1>0. /\ StepsOfOp(c) /\ Informed(c) /\ Knows(c)
      /\ call[c].at \notin {"idle", "lock", "dead"} => lock = c
  BY DEF TypeInv, TypeOK, ChildInv, SupInv
<1>1. call[c].at = "killChild" /\ call[c].op \in AllOps \ {"restart", "cleanup"}
  BY <1>0 DEF KillChild, CallStep, StepsOfOp
<1>2. /\ AfterKill(call[c].op) \in {"unlock", "hup", "remove", "clear"}
      /\ AfterKill(call[c].op) = "hup" <=> call[c].op = "forceRestart"
      /\ AfterKill(call[c].op) = "clear" => call[c].op = "start"
  BY <1>1, NextStepTypes DEF AfterKill, AllOps
<1>3. /\ call'[c].at = AfterKill(call[c].op)
      /\ call'[c].op = call[c].op /\ call'[c].pid = call[c].pid
      /\ \A d \in Callers \ {c} : call'[d] = call[d]
  BY <1>2, CallStepType DEF KillChild, CallSteps
<1>4. UNCHANGED <<meta, rec, lock, ops, sup>> /\ up' \subseteq up
  BY DEF KillChild
<1>5. MayEnd
  BY <1>4 DEF MayEnd
<1>6. call[c].op # "forceRestart" => up' = {} /\ \A k \in Sups : ~Serving(k)
  BY <1>0, <1>1, StrayKilled DEF Knows, Informed
<1>7. Informed(c)'
  BY <1>0, <1>1, <1>2, <1>3, <1>4, <1>6 DEF Informed, Stopping, Running, Serving
<1> QED
  BY <1>0, <1>1, <1>3, <1>4, <1>5, <1>7, EndsAlone, HolderChild

LEMMA LaunchSteps ==
    ASSUME TypeInv, SupInv, ChildInv, NEW c \in Callers,
           \/ Remove(c) \/ ClearExit(c) \/ LaunchConfirmed(c) \/ LaunchDied(c)
           \/ LaunchGivenUp(c) \/ Launch(c)
    PROVE  ChildInv'
<1> USE DEF task, bounds
<1>0. /\ call \in Requests /\ sup \in Supervisors /\ rec \in Records
      /\ Informed(c) /\ Knows(c) /\ up \subseteq Children
      /\ call[c].at \notin {"idle", "lock", "dead"} => lock = c
  BY DEF TypeInv, TypeOK, ChildInv, SupInv
<1>1. UNCHANGED <<lock, ops, up>>
  BY DEF Remove, ClearExit, LaunchConfirmed, LaunchDied, LaunchGivenUp, Launch
<1>2. CASE Remove(c)
  <2>1. /\ call[c].at = "remove" /\ call'[c].at = "unlock"
        /\ call'[c].op = call[c].op /\ call'[c].pid = call[c].pid
        /\ \A d \in Callers \ {c} : call'[d] = call[d]
    BY <1>2, CallStepType DEF Remove, CallSteps
  <2>2. UNCHANGED sup /\ ~meta' /\ \A k \in Sups : ~Serving(k)
    BY <1>0, <1>2, <2>1 DEF Remove, Knows
  <2>3. ASSUME NEW k \in Sups PROVE Alone(k)'
    BY <1>1, <2>2 DEF ChildInv, Alone, Serving, Holding
  <2>4. StrayOnRecord' /\ OneUp'
    BY <1>1, <2>2 DEF StrayOnRecord, ChildInv, OneUp
  <2>5. Informed(c)'
    BY <1>0, <1>1, <2>1, <2>2 DEF Informed, Running, Serving
  <2> QED
    BY <1>0, <1>1, <2>1, <2>3, <2>4, <2>5, HolderChild
<1>3. CASE ClearExit(c) \/ LaunchConfirmed(c) \/ LaunchDied(c) \/ LaunchGivenUp(c)
  <2>1. /\ \/ call[c].at = "clear" /\ call'[c].at = "launch"
           \/ call[c].at = "await" /\ call'[c].at \in {"unlock", "killChild", "term"}
        /\ call'[c].op = call[c].op /\ call'[c].pid = call[c].pid
        /\ \A d \in Callers \ {c} : call'[d] = call[d]
    BY <1>3, CallStepType
    DEF ClearExit, LaunchConfirmed, LaunchDied, LaunchGivenUp, CallSteps
  <2>2. UNCHANGED <<meta, sup>> /\ rec'.child = rec.child /\ rec'.ctime = rec.ctime
    BY <1>0, <1>3 DEF ClearExit, LaunchConfirmed, LaunchDied, LaunchGivenUp, Records
  <2>3. (\A k \in Sups : Alone(k)') /\ StrayOnRecord' /\ OneUp'
    BY <1>1, <2>2 DEF ChildInv, Alone, StrayOnRecord, OneUp, Serving, Running
  <2>4. Informed(c)'
    BY <1>0, <1>1, <2>1, <2>2 DEF Informed
  <2> QED
    BY <1>0, <1>1, <2>1, <2>3, <2>4, HolderChild
<1>4. CASE Launch(c)
  <2>1. PICK k \in Sups :
          /\ \A j \in Sups : sup[j].at = "none" <=> j >= k
          /\ sup' = [sup EXCEPT ![k].at = "launched"]
          /\ call' = [call EXCEPT ![c].at = "await", ![c].pid = k]
    BY <1>4 DEF Launch
  <2>2. /\ call[c].at = "launch" /\ up = {} /\ UNCHANGED <<meta, rec>>
        /\ call[c].op \notin Stopping
    BY <1>0, <1>4 DEF Launch, Informed
  <2>3. sup[k].at = "none"
    BY <2>1 DEF Sups
  <2>4. /\ sup'[k].at = "launched" /\ sup'[k].kid = 0
        /\ \A j \in Sups \ {k} : sup'[j] = sup[j]
    BY <1>0, <2>1, <2>3 DEF Supervisors, ChildInv, Alone, Holding
  <2>5. /\ call'[c].at = "await" /\ call'[c].op = call[c].op
        /\ \A d \in Callers \ {c} : call'[d] = call[d]
    BY <1>0, <2>1 DEF Requests
  <2>6. ASSUME NEW j \in Sups PROVE Alone(j)'
    BY <1>1, <2>2, <2>4 DEF ChildInv, Alone, Serving, Holding
  <2>7. StrayOnRecord' /\ OneUp'
    BY <1>1, <2>2 DEF StrayOnRecord, OneUp
  <2>8. Informed(c)'
    BY <1>1, <2>2, <2>5 DEF Informed
  <2> QED
    BY <1>0, <1>1, <2>2, <2>5, <2>6, <2>7, <2>8, HolderChild
<1> QED
  BY <1>2, <1>3, <1>4

(* The lock is asked for, taken, given back or reclaimed, or its holder    *)
(* dies; processes are left alone.                                         *)
LEMMA LockSteps ==
    ASSUME TypeInv, SupInv, ChildInv, NEW c \in Callers,
           \/ \E o \in Ops : Ask(c, o)
           \/ Lock(c) \/ LockFails(c) \/ Unlock(c) \/ CallerDies(c) \/ LeaseReaped(c)
    PROVE  ChildInv'
<1> USE DEF task, bounds
<1>0. /\ call \in Requests /\ Informed(c) /\ ops \in Nat
      /\ \A d \in Callers : Informed(d)
  BY DEF TypeInv, TypeOK, ChildInv
<1>1. UNCHANGED <<sup, up>>
  BY DEF Ask, Lock, LockFails, Unlock, CallerDies, LeaseReaped
<1>2. \/ UNCHANGED <<meta, rec>>
      \/ up = {} /\ rec = NoRecord /\ rec' = rec /\ \A k \in Sups : sup[k].at = "none"
  <2>1. ASSUME NEW o \in Ops, Ask(c, o)
        PROVE  \/ UNCHANGED <<meta, rec>>
               \/ up = {} /\ rec = NoRecord /\ rec' = rec /\ \A k \in Sups : sup[k].at = "none"
    BY <2>1 DEF Ask, SupInv, Fresh, ChildInv
  <2>2. CASE LockFails(c) /\ call[c].op = "run"
    BY <1>0, <2>2 DEF LockFails, CallStep, SupInv, RunWaits, Informed
  <2>3. CASE LockFails(c) /\ call[c].op # "run"
    BY <2>3 DEF LockFails, TypeInv, TypeOK
  <2>4. CASE Lock(c) \/ Unlock(c) \/ CallerDies(c) \/ LeaseReaped(c)
    BY <2>4 DEF Lock, Unlock, CallerDies, LeaseReaped
  <2> QED
    BY <2>1, <2>2, <2>3, <2>4
<1>3. (\A k \in Sups : Alone(k)') /\ StrayOnRecord' /\ OneUp'
  BY <1>1, <1>2 DEF ChildInv, Alone, StrayOnRecord, OneUp, Serving, Running
<1>4. /\ \A d \in Callers \ {c} : call'[d] = call[d]
      /\ \/ call'[c] = call[c]
         \/ call'[c].at \in {"idle", "dead"}
         \/ call'[c].at = "lock" /\ call'[c].pid = 0
            /\ (call'[c].op = "run" => up = {})
         \/ call[c].at = "lock" /\ call'[c].at = "read" /\ call'[c].pid = call[c].pid
         \/ call[c].at = "lock" /\ call'[c].at = "launch" /\ call[c].op = "run"
            /\ call'[c].op = "run"
  <2>1. ASSUME NEW o \in Ops, Ask(c, o)
        PROVE  /\ \A d \in Callers \ {c} : call'[d] = call[d]
               /\ call'[c].at = "lock" /\ call'[c].pid = 0 /\ (call'[c].op = "run" => up = {})
    BY <1>0, <2>1 DEF Ask, Requests, ChildInv
  <2>2. CASE Lock(c)
    <3>1. call[c].at = "lock" /\ call'[c].op = call[c].op /\ call'[c].pid = call[c].pid
          /\ call'[c].at = (IF call[c].op = "run" THEN "launch" ELSE "read")
          /\ \A d \in Callers \ {c} : call'[d] = call[d]
      BY <2>2, CallStepType DEF Lock, CallSteps
    <3> QED
      BY <3>1
  <2>3. CASE LockFails(c) \/ Unlock(c)
    BY <2>3, CallStepType DEF LockFails, Unlock, CallSteps
  <2>4. CASE CallerDies(c)
    BY <1>0, <2>4 DEF CallerDies, Requests
  <2>5. CASE LeaseReaped(c)
    BY <2>5 DEF LeaseReaped
  <2> QED
    BY <2>1, <2>2, <2>3, <2>4, <2>5
<1>5. ASSUME NEW d \in Callers PROVE Informed(d)'
  <2>1. CASE call'[d] = call[d]
    BY <1>0, <1>1, <1>2, <2>1 DEF Informed, Running, Serving
  <2>2. CASE d = c /\ call'[c] # call[c]
    BY <1>0, <1>1, <1>4, <2>2 DEF Informed, Stopping
  <2> QED
    BY <1>4, <2>1, <2>2
<1>6. ops' = 0 => ops = 0
  BY <1>0 DEF Ask, Lock, LockFails, Unlock, CallerDies, LeaseReaped
<1> QED
  BY <1>1, <1>3, <1>5, <1>6 DEF ChildInv

-----------------------------------------------------------------------------
(* Where children are found and what requests know of them, always. *)
LEMMA ChildInvariant ==
    ASSUME Careful
    PROVE  Spec => [](TypeInv /\ SupInv /\ ChildInv)
<1>1. Init => ChildInv
  BY ChildInit
<1>2. TypeInv /\ SupInv /\ ChildInv /\ [Next]_vars => ChildInv'
  <2> SUFFICES ASSUME TypeInv, SupInv, ChildInv, [Next]_vars PROVE ChildInv'
    OBVIOUS
  <2>1. ASSUME NEW c \in Callers,
               \/ RequestRuns(c) \/ LockFails(c) \/ LaunchGivenUp(c) \/ CallerDies(c)
               \/ \E o \in Ops : Ask(c, o)
        PROVE  ChildInv'
    BY <2>1, FindSteps, StopSteps, KillChildStep, LaunchSteps, LockSteps DEF RequestRuns
  <2>2. ASSUME NEW k \in Sups, SupervisorRuns(k) \/ StartFails(k) \/ SupCrashes(k)
        PROVE  ChildInv'
    BY <2>2, SupervisorChild
  <2>3. CASE ChildExits
    BY <2>3, EndStep DEF ChildExits, MayEnd, task
  <2>4. CASE UNCHANGED vars
    BY <2>4, EndStep DEF vars, task, bounds, MayEnd
  <2> QED
    BY <2>1, <2>2, <2>3, <2>4 DEF Next
<1>3. Gentle
  BY DEF Careful
<1> QED
  BY <1>1, <1>2, <1>3, TypeInvariant, SupInvariant, PTL DEF Spec

(* The command of a task never runs twice at a time: a new child is only   *)
(* started by the one supervisor that serves, after its last child ended,  *)
(* and a supervisor is only launched once a child that outlived another    *)
(* one was killed (lifecycle.go:178, supervisor.go:265-363, 396-446).       *)
THEOREM OneChildRuns ==
    ASSUME Careful
    PROVE  Spec => []OneChild
<1>1. TypeInv /\ ChildInv => OneChild
  <2> SUFFICES ASSUME TypeInv, ChildInv PROVE Cardinality(up) <= 1
    BY DEF OneChild
  <2>1. CASE up = {}
    BY <2>1, FS_EmptySet
  <2>2. ASSUME NEW b \in up PROVE Cardinality(up) = 1
    <3>1. up = {b}
      BY <2>2 DEF ChildInv, OneUp
    <3> QED
      BY <3>1, FS_Singleton
  <2> QED
    BY <2>1, <2>2
<1> QED
  BY <1>1, ChildInvariant, PTL

(* A child whose supervisor was killed, at any point but in the moment     *)
(* between its start and the record of its pid, can be found and killed    *)
(* by the next request (supervisor.go:396-405, service.go:220-232).        *)
THEOREM StraysStayOnRecord ==
    ASSUME Careful
    PROVE  Spec => []StrayOnRecord
<1>1. ChildInv => StrayOnRecord
  BY DEF ChildInv
<1> QED
  BY <1>1, ChildInvariant, PTL

(* When a stop, a removal or a replacement of a running task is done, its  *)
(* supervisor has ended and nothing of its command runs, though the        *)
(* supervisor had to be killed or was killed meanwhile                     *)
(* (lifecycle.go:57-93, 225-261).                                          *)
THEOREM StopsStopAll ==
    ASSUME Careful
    PROVE  Spec => []StopsAll
<1>1. TypeInv /\ ChildInv => StopsAll
  BY DEF ChildInv, Informed, StopsAll, Stopping
<1> QED
  BY <1>1, ChildInvariant, PTL
=============================================================================
