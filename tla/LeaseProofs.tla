---------------------------- MODULE LeaseProofs ----------------------------
(***************************************************************************)
(* Theorems about the lease lock, for every set of calls and processes,    *)
(* every number of crashes and every number of renewals.                   *)
(***************************************************************************)
EXTENDS Lease, TLAPS

Actions(c) ==
    \/ Acquire(c) \/ Create(c) \/ CreateExists(c) \/ Write(c) \/ WriteFails(c)
    \/ Poll(c) \/ CtxDone(c) \/ FirstRead(c) \/ Stale(c) \/ NotStale(c)
    \/ SecondReadDiffers(c) \/ SecondReadSame(c) \/ Remove(c)
    \/ RenewRead(c) \/ RenewWrite(c)
    \/ Unlock(c) \/ HeartbeatStopped(c)
    \/ OwnershipHolds(c) \/ OwnershipLost(c) \/ Delete(c)

(* The next-state relation, flattened for case analysis. *)
LEMMA NextCases ==
    Next <=> (\E c \in Calls : Actions(c)) \/ (\E p \in Procs : Crash(p)) \/ Age
  BY DEF Next, Run, Actions

-----------------------------------------------------------------------------
(* TypeOK bounds the renewals; a renewal under way is within the bound.    *)
TypeInv ==
    /\ TypeOK
    /\ \A c \in Calls : hb[c] = "renew" => beats[c] < MaxBeats

LEMMA NewFileType ==
    ASSUME NEW c \in Calls
    PROVE  NewFile(c) \in LeaseRecord
  BY EnvAssumption DEF NewFile, LeaseRecord

(* What a file is once its creator has written it. *)
LEMMA WrittenFile ==
    ASSUME NEW f \in LeaseRecord
    PROVE  LET g == [f EXCEPT !.written = TRUE, !.aged = FALSE]
           IN  g # NoFile /\ g.call = f.call /\ g.written /\ ~g.aged
  <1>1. [f EXCEPT !.written = TRUE, !.aged = FALSE] \in LeaseRecord
    BY DEF LeaseRecord
  <1>2. QED
    BY <1>1, NoFileAssumption DEF LeaseRecord

LEMMA TypeInvStep ==
    ASSUME TypeInv, [Next]_vars
    PROVE  TypeInv'
  <1> USE NoFileAssumption, EnvAssumption, ProcAssumption
  <1>1. ASSUME NEW c \in Calls, Actions(c)
        PROVE  TypeInv'
    <2> USE DEF TypeInv, TypeOK, Goto, At, Steps
    <2>1. CASE Acquire(c) \/ CreateExists(c) \/ Poll(c) \/ CtxDone(c)
      BY <2>1 DEF Acquire, CreateExists, Poll, CtxDone
    <2>2. CASE Create(c)
      BY <2>2, NewFileType DEF Create
    <2>3. CASE WriteFails(c)
      BY <2>3 DEF WriteFails
    <2>4. CASE Write(c)
      BY <2>4 DEF Write, LeaseRecord
    <2>5. CASE FirstRead(c) \/ Stale(c) \/ NotStale(c)
      BY <2>5 DEF FirstRead, Stale, NotStale, Forget
    <2>6. CASE SecondReadDiffers(c) \/ SecondReadSame(c) \/ Remove(c)
      BY <2>6 DEF SecondReadDiffers, SecondReadSame, Remove, Forget
    <2>7. CASE RenewRead(c)
      BY <2>7 DEF RenewRead
    <2>8. CASE RenewWrite(c)
      <3>1. beats[c] + 1 \in 0..MaxBeats
        BY <2>8 DEF RenewWrite
      <3>2. file' \in LeaseRecord
        BY <2>8, <3>1 DEF RenewWrite, LeaseRecord
      <3>3. QED
        BY <2>8, <3>1, <3>2 DEF RenewWrite
    <2>9. CASE Unlock(c) \/ HeartbeatStopped(c)
      BY <2>9 DEF Unlock, HeartbeatStopped
    <2>10. CASE OwnershipHolds(c) \/ OwnershipLost(c) \/ Delete(c)
      BY <2>10 DEF OwnershipHolds, OwnershipLost, Delete
    <2>11. QED
      BY <1>1, <2>1, <2>2, <2>3, <2>4, <2>5, <2>6, <2>7, <2>8, <2>9, <2>10
      DEF Actions
  <1>2. ASSUME NEW p \in Procs, Crash(p)
        PROVE  TypeInv'
    BY <1>2 DEF TypeInv, TypeOK, Crash
  <1>3. CASE Age
    BY <1>3 DEF TypeInv, TypeOK, Age, LeaseRecord
  <1>4. CASE UNCHANGED vars
    BY <1>4 DEF TypeInv, TypeOK, vars
  <1>5. QED
    BY <1>1, <1>2, <1>3, <1>4, NextCases

LEMMA TypeInvariant == Spec => []TypeInv
  <1>1. Init => TypeInv
    BY NoFileAssumption, EnvAssumption DEF Init, TypeInv, TypeOK, Steps
  <1>2. QED
    BY <1>1, TypeInvStep, PTL DEF Spec

(* Type correctness, and that a heartbeat runs only while its lease is     *)
(* held or Unlock waits for it (Unlock, lock.go:88-96).                    *)
THEOREM TypeCorrect == Spec => []TypeOK
  <1>1. TypeInv => TypeOK
    BY DEF TypeInv
  <1>2. QED
    BY <1>1, TypeInvariant, PTL

-----------------------------------------------------------------------------
(* Who wrote the file at the path has not given it back, and an empty file *)
(* is one whose creator has still to write it.                             *)
FileInv ==
    file # NoFile =>
        /\ pc[file.call] \in OwnerSteps
        /\ ~file.written => pc[file.call] = "write"

LEMMA FileInvStep ==
    ASSUME TypeInv, FileInv, [Next]_vars
    PROVE  FileInv'
  <1> USE NoFileAssumption DEF TypeInv, TypeOK, FileInv, OwnerSteps, Goto, At
  <1>0. file # NoFile => file.call \in Calls /\ file.written \in BOOLEAN
    BY DEF LeaseRecord
  <1>1. ASSUME NEW c \in Calls, Actions(c)
        PROVE  FileInv'
    <2>1. CASE Acquire(c) \/ CreateExists(c) \/ Poll(c) \/ CtxDone(c)
      BY <1>0, <2>1 DEF Acquire, CreateExists, Poll, CtxDone
    <2>2. CASE Create(c)
      BY <2>2 DEF Create, NewFile
    <2>3. CASE WriteFails(c) \/ Delete(c)
      BY <2>3 DEF WriteFails, Delete
    <2>4. CASE Write(c)
      <3>1. CASE file # NoFile /\ file.call = c
        BY <2>4, <3>1 DEF Write, LeaseRecord
      <3>2. CASE ~(file # NoFile /\ file.call = c)
        BY <1>0, <2>4, <3>2 DEF Write
      <3>3. QED
        BY <3>1, <3>2
    <2>5. CASE FirstRead(c) \/ Stale(c) \/ NotStale(c)
      BY <1>0, <2>5 DEF FirstRead, Stale, NotStale
    <2>6. CASE SecondReadDiffers(c) \/ SecondReadSame(c) \/ Remove(c)
      BY <1>0, <2>6 DEF SecondReadDiffers, SecondReadSame, Remove
    <2>7. CASE RenewRead(c)
      BY <2>7 DEF RenewRead
    <2>8. CASE RenewWrite(c)
      BY <2>8 DEF RenewWrite
    <2>9. CASE Unlock(c) \/ HeartbeatStopped(c)
      BY <1>0, <2>9 DEF Unlock, HeartbeatStopped
    <2>10. CASE OwnershipHolds(c) \/ OwnershipLost(c)
      BY <1>0, <2>10 DEF OwnershipHolds, OwnershipLost, OwnsFile
    <2>11. QED
      BY <1>1, <2>1, <2>2, <2>3, <2>4, <2>5, <2>6, <2>7, <2>8, <2>9, <2>10
      DEF Actions
  <1>2. ASSUME NEW p \in Procs, Crash(p)
        PROVE  FileInv'
    BY <1>2 DEF Crash
  <1>3. CASE Age
    BY <1>3, <1>0 DEF Age, LeaseRecord
  <1>4. CASE UNCHANGED vars
    BY <1>4 DEF vars
  <1>5. QED
    BY <1>1, <1>2, <1>3, <1>4, NextCases

LEMMA FileInvariant == Spec => []FileInv
  <1>1. Init => FileInv
    BY DEF Init, FileInv
  <1>2. QED
    BY <1>1, FileInvStep, TypeInvariant, PTL DEF Spec

(* Whatever dies, stalls or comes late, no lock file outlives the call of  *)
(* a live process that wrote it (the orphan of lock.go:60-66).             *)
THEOREM NoOrphan == Spec => []NoOrphanLock
  <1>1. FileInv => NoOrphanLock
    BY DEF FileInv, NoOrphanLock
  <1>2. QED
    BY <1>1, FileInvariant, PTL

-----------------------------------------------------------------------------
(* The environment in which the lease excludes: no process stalls for the  *)
(* stale interval, none dies inside createLeaseFile, and a reaper removes  *)
(* the file it has just read again.  Processes may die anywhere else.      *)
Gentle == ~Stalls /\ ~TornCrash /\ ~LateRemove

(* A live owner's file is at the path and, once written, stays written.    *)
OwnerHasFile ==
    \A c \in Calls : Live(c) /\ pc[c] \in OwnerSteps =>
        /\ file # NoFile /\ file.call = c
        /\ pc[c] # "write" => file.written

(* Only a dead owner's written file grows old. *)
OldIsDead ==
    file # NoFile /\ file.aged => file.written /\ ~Live(file.call)

CreatorsLive == \A c \in Calls : pc[c] = "write" => Live(c)

(* What a reap attempt knows at each of its steps. *)
ReapKnows ==
    \A c \in Calls : Live(c) =>
        /\ pc[c] \in {"stale", "second"} => seen[c] # NoFile
        /\ pc[c] = "stale" /\ ~seen[c].written => ~(file # NoFile /\ file.aged)
        /\ pc[c] = "second" => seen[c].written /\ ~Live(seen[c].call)
        /\ pc[c] # "remove"

ExclusionInv == OwnerHasFile /\ OldIsDead /\ CreatorsLive /\ ReapKnows

LEMMA ExclusionInvStep ==
    ASSUME Gentle, TypeInv, FileInv, ExclusionInv, [Next]_vars
    PROVE  ExclusionInv'
  <1> USE NoFileAssumption, ProcAssumption
      DEF Gentle, TypeInv, TypeOK, FileInv, OwnerSteps, Goto, At, Live
  <1> USE DEF ExclusionInv, OwnerHasFile, OldIsDead, CreatorsLive, ReapKnows
  <1>0. /\ file # NoFile => file.call \in Calls /\ file.written \in BOOLEAN
        /\ \A c \in Calls : seen[c] # NoFile => seen[c].call \in Calls
    BY DEF LeaseRecord
  <1>1. ASSUME NEW c \in Calls, Actions(c)
        PROVE  ExclusionInv'
    <2>1. CASE Acquire(c) \/ CreateExists(c) \/ Poll(c) \/ CtxDone(c)
      BY <1>0, <2>1 DEF Acquire, CreateExists, Poll, CtxDone
    <2>2. CASE Create(c)
      <3>1. file' # NoFile /\ file'.call = c /\ ~file'.written /\ ~file'.aged
        BY <2>2, NewFileType DEF Create, NewFile
      <3>2. \A d \in Calls : Live(d) => pc[d] \notin OwnerSteps
        BY <2>2 DEF Create
      <3>3. Live(c) /\ pc' = [pc EXCEPT ![c] = "write"] /\ UNCHANGED <<seen, alive>>
        BY <2>2 DEF Create
      <3>4. QED
        BY <1>0, <3>1, <3>2, <3>3
    <2>3. CASE WriteFails(c) \/ Delete(c)
      <3>1. Live(c) /\ pc[c] \in OwnerSteps
        BY <2>3 DEF WriteFails, Delete
      <3>2. \A d \in Calls : Live(d) /\ pc[d] \in OwnerSteps => d = c
        BY <3>1
      <3>3. \/ pc' = [pc EXCEPT ![c] = "failed"]
            \/ pc' = [pc EXCEPT ![c] = "done"]
        BY <2>3 DEF WriteFails, Delete
      <3>4. file' = NoFile /\ UNCHANGED <<seen, alive>>
        BY <2>3 DEF WriteFails, Delete
      <3>5. QED
        BY <1>0, <3>2, <3>3, <3>4
    <2>4. CASE Write(c)
      <3>1. file # NoFile /\ file.call = c
        BY <2>4 DEF Write
      <3>2. /\ file' # NoFile /\ file'.call = c
            /\ file'.written /\ ~file'.aged
        <4>1. file \in LeaseRecord
          BY <3>1
        <4>2. file' = [file EXCEPT !.written = TRUE, !.aged = FALSE]
          BY <2>4, <3>1 DEF Write
        <4>3. QED
          BY <3>1, <4>1, <4>2, WrittenFile
      <3>3. pc' = [pc EXCEPT ![c] = "held"] /\ UNCHANGED <<seen, alive>>
        BY <2>4 DEF Write
      <3>4. QED
        BY <1>0, <2>4, <3>1, <3>2, <3>3 DEF Write
    <2>5. CASE FirstRead(c)
      BY <1>0, <2>5 DEF FirstRead
    <2>6. CASE Stale(c)
      BY <1>0, <2>6 DEF Stale, StaleSeen
    <2>7. CASE NotStale(c)
      BY <1>0, <2>7 DEF NotStale, Forget
    <2>8. CASE SecondReadDiffers(c)
      BY <1>0, <2>8 DEF SecondReadDiffers, Forget
    <2>9. CASE SecondReadSame(c)
      <3>1. file # NoFile /\ ~Live(file.call)
        BY <2>9 DEF SecondReadSame, SameBytes
      <3>2. \A d \in Calls : Live(d) => pc[d] \notin OwnerSteps
        BY <3>1
      <3>3. file' = NoFile /\ pc' = [pc EXCEPT ![c] = "create"]
        BY <2>9 DEF SecondReadSame
      <3>4. QED
        BY <1>0, <2>9, <3>2, <3>3 DEF SecondReadSame, Forget
    <2>10. CASE Remove(c)
      BY <2>10 DEF Remove
    <2>11. CASE RenewRead(c)
      BY <1>0, <2>11 DEF RenewRead
    <2>12. CASE RenewWrite(c)
      <3>1. Live(c) /\ pc[c] \in {"held", "stopping"}
        BY <2>12 DEF RenewWrite
      <3>2. file # NoFile /\ file.call = c
        BY <3>1
      <3>3. file' # NoFile /\ file'.call = c /\ file'.written /\ ~file'.aged
        <4>1. beats[c] + 1 \in 0..MaxBeats
          BY <2>12, EnvAssumption DEF RenewWrite
        <4>2. file' \in LeaseRecord
          BY <2>12, <4>1 DEF RenewWrite, LeaseRecord
        <4>3. QED
          BY <2>12, <4>2 DEF RenewWrite
      <3>4. UNCHANGED <<pc, seen, alive>>
        BY <2>12 DEF RenewWrite
      <3>5. QED
        BY <1>0, <3>1, <3>2, <3>3, <3>4
    <2>13. CASE Unlock(c) \/ HeartbeatStopped(c)
      BY <1>0, <2>13 DEF Unlock, HeartbeatStopped
    <2>14. CASE OwnershipHolds(c) \/ OwnershipLost(c)
      BY <1>0, <2>14 DEF OwnershipHolds, OwnershipLost, OwnsFile
    <2>15. QED
      BY <1>1, <2>1, <2>2, <2>3, <2>4, <2>5, <2>6, <2>7, <2>8, <2>9, <2>10,
         <2>11, <2>12, <2>13, <2>14 DEF Actions
  <1>2. ASSUME NEW p \in Procs, Crash(p)
        PROVE  ExclusionInv'
    BY <1>0, <1>2 DEF Crash
  <1>3. CASE Age
    <2>1. file # NoFile /\ ~Live(file.call) /\ file.written
      BY <1>0, <1>3 DEF Age
    <2>2. /\ file' # NoFile /\ file'.call = file.call
          /\ file'.written = file.written
      BY ZenonT(30), <1>3, <2>1 DEF Age, LeaseRecord
    <2>3. QED
      BY <1>0, <1>3, <2>1, <2>2 DEF Age
  <1>4. CASE UNCHANGED vars
    BY <1>4 DEF vars
  <1>5. QED
    BY <1>1, <1>2, <1>3, <1>4, NextCases

LEMMA ExclusionInvariant ==
    ASSUME Gentle
    PROVE  Spec => []ExclusionInv
  <1>1. Init => ExclusionInv
    BY DEF Init, ExclusionInv, OwnerHasFile, OldIsDead, CreatorsLive, ReapKnows,
           OwnerSteps
  <1>2. TypeInv /\ FileInv /\ ExclusionInv /\ [Next]_vars => ExclusionInv'
    BY ExclusionInvStep
  <1>3. QED
    BY <1>1, <1>2, TypeInvariant, FileInvariant, PTL DEF Spec

(* A caller between acquireLease and Unlock is alone, however many of the  *)
(* others died holding and were reaped (lock.go:27-30, 211-218).           *)
THEOREM MutualExclusion ==
    ASSUME Gentle
    PROVE  Spec => []AtMostOneHolder
  <1>1. ExclusionInv => AtMostOneHolder
    BY DEF ExclusionInv, OwnerHasFile, AtMostOneHolder, At, OwnerSteps
  <1>2. QED
    BY <1>1, ExclusionInvariant, PTL

(* Nobody else removes or replaces a live holder's file.                   *)
THEOREM HolderKeeps ==
    ASSUME Gentle
    PROVE  Spec => []HolderKeepsFile
  <1>1. ExclusionInv => HolderKeepsFile
    BY DEF ExclusionInv, OwnerHasFile, HolderKeepsFile, At, OwnerSteps, OwnsFile
  <1>2. QED
    BY <1>1, ExclusionInvariant, PTL

-----------------------------------------------------------------------------
(* Refinement: a step of the lease is a step of the abstract lock, or none.*)

LEMMA PhaseStep ==
    ASSUME TypeInv, ExclusionInv, [Next]_vars
    PROVE  [Lock!Next]_Phase
  <1> USE DEF TypeInv, TypeOK, Goto, At, Live, Phase
  <1>1. ASSUME NEW c \in Calls, Actions(c)
        PROVE  [Lock!Next]_Phase
    <2>1. CASE Acquire(c)
      <3>1. Lock!Request(c)
        BY <2>1 DEF Acquire, Lock!Request
      <3>2. QED
        BY <3>1 DEF Lock!Next
    <2>2. CASE Write(c)
      <3>1. \A d \in Calls : Live(d) => pc[d] # "held"
        BY <2>2 DEF Write, ExclusionInv, OwnerHasFile, OwnerSteps
      <3>2. Lock!Enter(c)
        BY <2>2, <3>1 DEF Write, Lock!Enter
      <3>3. QED
        BY <3>2 DEF Lock!Next
    <2>3. CASE WriteFails(c) \/ CtxDone(c) \/ Unlock(c)
      <3>1. Lock!Leave(c)
        BY <2>3 DEF WriteFails, CtxDone, Unlock, Lock!Leave
      <3>2. QED
        BY <3>1 DEF Lock!Next
    <2>4. CASE Create(c) \/ CreateExists(c) \/ Poll(c)
      BY <2>4 DEF Create, CreateExists, Poll
    <2>5. CASE FirstRead(c) \/ Stale(c) \/ NotStale(c)
      BY <2>5 DEF FirstRead, Stale, NotStale
    <2>6. CASE SecondReadDiffers(c) \/ SecondReadSame(c) \/ Remove(c)
      BY <2>6 DEF SecondReadDiffers, SecondReadSame, Remove
    <2>7. CASE RenewRead(c) \/ RenewWrite(c)
      BY <2>7 DEF RenewRead, RenewWrite
    <2>8. CASE HeartbeatStopped(c) \/ OwnershipHolds(c)
               \/ OwnershipLost(c) \/ Delete(c)
      BY <2>8 DEF HeartbeatStopped, OwnershipHolds, OwnershipLost, Delete
    <2>9. QED
      BY <1>1, <2>1, <2>2, <2>3, <2>4, <2>5, <2>6, <2>7, <2>8 DEF Actions
  <1>2. ASSUME NEW p \in Procs, Crash(p)
        PROVE  [Lock!Next]_Phase
    <2> DEFINE Dead == {c \in Calls : ProcOf[c] = p}
    <2>1. Lock!Die(Dead)
      BY <1>2 DEF Crash, Lock!Die
    <2>2. QED
      BY <2>1 DEF Lock!Next
  <1>3. CASE Age \/ UNCHANGED vars
    BY <1>3 DEF Age, vars
  <1>4. QED
    BY <1>1, <1>2, <1>3, NextCases

(* The lease implements the abstract lock its callers rely on.             *)
THEOREM Implementation ==
    ASSUME Gentle
    PROVE  Spec => ImplementsMutex
  <1>1. Init => Lock!Init
    BY ProcAssumption DEF Init, Lock!Init, Phase, Live
  <1>2. TypeInv /\ ExclusionInv /\ [Next]_vars => [Lock!Next]_Phase
    BY PhaseStep
  <1>3. QED
    BY <1>1, <1>2, TypeInvariant, ExclusionInvariant, PTL
    DEF Spec, ImplementsMutex, Lock!Spec
=============================================================================
