----------------------------- MODULE LogsProofs -----------------------------
(***************************************************************************)
(* The safety of the log: of its writer, of its rotation and of what its   *)
(* readers show, for every number of rotated files kept, every size from   *)
(* which a file is rotated, any number of readers, of children and of      *)
(* supervisors killed at any step, and until the task is removed.          *)
(***************************************************************************)
EXTENDS Logs, SubsequenceProofs, TLAPS

Paths == 0..MaxLogFiles

(* Where the log is closed. *)
Closed == {"rotating", "reopen", "gone", "removed"}

SupSteps == {"begin", "timing", "running", "ended", "restarting",
             "rotating", "reopen", "delay", "leaving", "gone", "removed"}

(* A capture has an entry in hand only while its child's pipes are open,   *)
(* and every entry carries the stream of its writer.                       *)
StampInv ==
    /\ sup \in SupSteps /\ run \in 0..MaxRuns /\ clock \in Nat
    /\ stamped \in [Writers -> Entry \cup {None}]
    /\ \A w \in Writers : stamped[w] # None => stamped[w].stream = StreamOf(w)
    /\ \A w \in Captured : stamped[w] # None => sup = "running"

(* An open log is the one at output.jsonl, and it is open in all steps but *)
(* those of a rotation; no file is at two paths.                           *)
FileInv ==
    /\ file \in Seq(Seq(Entry))
    /\ path \in [Paths -> Files \cup {None}]
    /\ open \in Files \cup {None}
    /\ open # None => open = path[0]
    /\ open = None <=> sup \in Closed
    /\ shift \in Paths
    /\ \A i, j \in Paths : path[i] = path[j] /\ path[i] # None => i = j

Inv == StampInv /\ FileInv /\ OutputNotDropped

-----------------------------------------------------------------------------
(* The steps of the supervisor, by what they do to the log. *)

LEMMA Entered ==
    ASSUME LogsAssumption, StampInv, NEW w \in Writers, Stamp(w), run' \in 0..MaxRuns
    PROVE  /\ clock' \in Nat
           /\ stamped' \in [Writers -> Entry \cup {None}]
           /\ \A v \in Writers \ {w} : stamped'[v] = stamped[v]
           /\ stamped'[w].stream = StreamOf(w)
<1>1. StreamOf(w) \in Streams
  BY DEF StreamOf, Writers, Streams, LogsAssumption
<1>2. [time |-> clock + 1, stream |-> StreamOf(w), run |-> run] \in Entry
  BY <1>1 DEF Entry, StampInv
<1> QED
  BY <1>2 DEF Stamp, StampInv

LEMMA Streamed ==
    ASSUME LogsAssumption, StampInv, NEW w \in Writers, Stamp(w), run' \in 0..MaxRuns
    PROVE  \A v \in Writers : stamped'[v] # None => stamped'[v].stream = StreamOf(v)
BY Entered DEF StampInv

(* Steps that touch neither files nor paths, and leave the log as open as  *)
(* it was.                                                                 *)
LEMMA KeepsFiles ==
    ASSUME FileInv, UNCHANGED log, sup' \in Closed <=> sup \in Closed, shift' \in Paths
    PROVE  FileInv' /\ \A f \in Files : file'[f] = file[f]
BY DEF FileInv, log, Files

LEMMA Closes ==
    ASSUME FileInv, CloseLog, sup' \in Closed, shift' \in Paths
    PROVE  FileInv' /\ \A f \in Files : file'[f] = file[f]
BY DEF FileInv, CloseLog, Files

LEMMA Opens ==
    ASSUME LogsAssumption, FileInv, open = None, OpenLog, sup' \notin Closed, shift' \in Paths
    PROVE  FileInv' /\ \A f \in Files : file'[f] = file[f]
<1>0. 0 \in Paths /\ Len(file) \in Nat /\ None \notin Nat
  BY DEF Paths, LogsAssumption, FileInv
<1>1. CASE path[0] = None
  <2>1. /\ file' = Append(file, <<>>) /\ open' = Len(file) + 1
        /\ path' = [path EXCEPT ![0] = Len(file) + 1]
    BY <1>1 DEF OpenLog
  <2>2. /\ file' \in Seq(Seq(Entry)) /\ Len(file') = Len(file) + 1
        /\ \A f \in Files : file'[f] = file[f]
    <3>1. <<>> \in Seq(Entry)
      OBVIOUS
    <3> QED
      BY <2>1, <3>1 DEF FileInv, Files
  <2>3. Files' = 1..Len(file) + 1
    BY <2>2 DEF Files
  <2>4. path' \in [Paths -> Files' \cup {None}] /\ open' \in Files' /\ open' # None
    BY <1>0, <2>1, <2>3 DEF FileInv, Files
  <2>5. path'[0] = Len(file) + 1 /\ \A i \in Paths \ {0} : path'[i] = path[i]
    BY <1>0, <2>1 DEF FileInv
  <2>6. \A i \in Paths : path[i] # Len(file) + 1
    BY <1>0 DEF FileInv, Files
  <2>7. \A i, j \in Paths : path'[i] = path'[j] /\ path'[i] # None => i = j
    BY <2>5, <2>6 DEF FileInv
  <2> QED
    BY <1>0, <2>1, <2>2, <2>4, <2>5, <2>7 DEF FileInv
<1>2. CASE path[0] # None
  BY <1>0, <1>2 DEF OpenLog, FileInv, Files
<1> QED
  BY <1>1, <1>2

LEMMA Moves ==
    ASSUME LogsAssumption, FileInv, RotateLog
    PROVE  FileInv' /\ \A f \in Files : file'[f] = file[f]
<1>0. /\ MaxLogFiles \in Nat \ {0} /\ sup = "rotating" /\ sup' \in {"rotating", "reopen"}
      /\ open = None /\ open' = open /\ file' = file /\ Files' = Files /\ shift' \in Paths
  BY DEF LogsAssumption, RotateLog, FileInv, Closed, Files, Paths
<1>1. CASE path' = [path EXCEPT ![MaxLogFiles] = None]
  BY <1>0, <1>1 DEF FileInv, Closed, Paths
<1>2. CASE shift # MaxLogFiles /\ MovePath(shift)
  <2>1. shift \in Paths /\ shift + 1 \in Paths /\ shift # shift + 1
    BY <1>0, <1>2 DEF FileInv, Paths
  <2>2. path' \in [Paths -> Files \cup {None}]
    BY <1>2, <2>1 DEF MovePath, FileInv
  <2>3. CASE path[shift] = None
    BY <1>0, <1>2, <2>3 DEF MovePath, FileInv, Closed
  <2>4. CASE path[shift] # None
    <3>1. /\ path'[shift] = None /\ path'[shift + 1] = path[shift]
          /\ \A i \in Paths \ {shift, shift + 1} : path'[i] = path[i]
      BY <1>2, <2>1, <2>4 DEF MovePath, FileInv
    <3>2. \A i, j \in Paths : path'[i] = path'[j] /\ path'[i] # None => i = j
      BY <2>1, <3>1 DEF FileInv
    <3> QED
      BY <1>0, <2>2, <3>2 DEF FileInv, Closed
  <2> QED
    BY <2>3, <2>4
<1> QED
  BY <1>1, <1>2 DEF RotateLog

LEMMA Writes ==
    ASSUME LogsAssumption, StampInv, FileInv, NEW w \in Writers, Write(w)
    PROVE  /\ FileInv'
           /\ \A f \in Files : f # path[0] => file'[f] = file[f]
           /\ \A e \in dropped' \ dropped : open = None /\ e = stamped[w]
<1>0. None \notin Nat /\ stamped[w] \in Entry /\ UNCHANGED <<path, open, sup, shift>>
  BY DEF LogsAssumption, StampInv, Write
<1>1. CASE open = None
  BY <1>0, <1>1 DEF Write, FileInv, Files, Closed
<1>2. CASE open # None
  <2>1. /\ open \in Files /\ open = path[0]
        /\ file' = [file EXCEPT ![open] = Append(@, stamped[w])] /\ dropped' = dropped
    BY <1>2 DEF Write, FileInv
  <2>2. file[open] \in Seq(Entry)
    BY <2>1 DEF FileInv, Files
  <2>3. Append(file[open], stamped[w]) \in Seq(Entry)
    BY <1>0, <2>2
  <2>4. file' \in Seq(Seq(Entry)) /\ Len(file') = Len(file)
    BY <2>1, <2>3 DEF FileInv, Files
  <2>5. \A f \in Files : f # open => file'[f] = file[f]
    BY <2>1 DEF FileInv, Files
  <2> QED
    BY <1>0, <2>1, <2>4, <2>5 DEF FileInv, Files
<1> QED
  BY <1>1, <1>2

-----------------------------------------------------------------------------
LEMMA InvInit == LogsAssumption /\ Init => Inv
<1> SUFFICES ASSUME LogsAssumption, Init PROVE Inv
  OBVIOUS
<1>1. file = <<>> /\ file \in Seq(Seq(Entry)) /\ 0 \in Paths /\ 0 \in Nat
  BY DEF Init, Paths, LogsAssumption
<1>2. StampInv
  BY DEF Init, StampInv, SupSteps, Writers
<1>3. FileInv
  BY <1>1 DEF Init, FileInv, Files, Paths, Closed, LogsAssumption
<1> QED
  BY <1>2, <1>3 DEF Inv, OutputNotDropped, Init

(* An entry without a file to go to is none of a capture. *)
LEMMA DropsNoOutput ==
    ASSUME LogsAssumption, Inv, NEW w \in Writers, Write(w)
    PROVE  OutputNotDropped'
<1>1. \A e \in dropped' \ dropped : open = None /\ e = stamped[w]
  BY Writes DEF Inv
<1>2. stamped[w] # None
  BY DEF Write
<1>3. open = None => w \notin Captured
  BY <1>2 DEF Inv, FileInv, StampInv, Closed
<1>4. w \notin Captured => stamped[w].stream = "x"
  BY <1>2 DEF Inv, StampInv, StreamOf
<1> QED
  BY <1>1, <1>3, <1>4 DEF Inv, OutputNotDropped

(* What no rotated file suffers: all but a write leave every file alone,   *)
(* and a write goes to the file at output.jsonl.                           *)
Settled == \A f \in Files : f # path[0] => file'[f] = file[f]

LEMMA StampSteps ==
    ASSUME LogsAssumption, Inv,
           \/ \E w \in Writers : Capture(w)
           \/ HealthEvent \/ StartChild \/ StartFails \/ RestartLater \/ RecordExit
    PROVE  Inv' /\ Settled
<1>1. OutputNotDropped'
  BY DEF Inv, OutputNotDropped, Capture, HealthEvent, StartChild, StartFails, RestartLater, RecordExit
<1>2. /\ sup' \in Closed <=> sup \in Closed
      /\ UNCHANGED log /\ shift' \in Paths /\ run' \in 0..MaxRuns /\ sup' \in SupSteps
  BY DEF Inv, StampInv, FileInv, Capture, HealthEvent, StartChild, StartFails, RestartLater, RecordExit,
         Closed, SupSteps
<1>3. FileInv' /\ Settled
  BY <1>2, KeepsFiles DEF Inv, Settled
<1>4. PICK w \in Writers :
         /\ Stamp(w)
         /\ w \in Captured => sup' = "running" /\ sup = "running"
         /\ w \notin Captured => sup' = sup \/ sup # "running"
  BY DEF Capture, HealthEvent, StartChild, StartFails, RestartLater, RecordExit, Writers, LogsAssumption
<1>5. StampInv'
  BY <1>2, <1>4, Entered, Streamed DEF Inv, StampInv, Writers
<1> QED
  BY <1>1, <1>3, <1>5 DEF Inv

LEMMA LoopSteps ==
    ASSUME LogsAssumption, Inv, WriteStartTime \/ ChildEnds \/ NoRotation
    PROVE  Inv' /\ Settled
<1>1. OutputNotDropped'
  BY DEF Inv, OutputNotDropped, WriteStartTime, ChildEnds, NoRotation
<1>2. /\ sup' \in Closed <=> sup \in Closed
      /\ UNCHANGED log /\ shift' \in Paths /\ run' \in 0..MaxRuns /\ sup' \in SupSteps
  BY DEF Inv, StampInv, FileInv, WriteStartTime, ChildEnds, NoRotation, Closed, SupSteps
<1>3. FileInv' /\ Settled
  BY <1>2, KeepsFiles DEF Inv, Settled
<1>4. StampInv'
  BY <1>2 DEF Inv, StampInv, WriteStartTime, ChildEnds, NoRotation, Writers
<1> QED
  BY <1>1, <1>3, <1>4 DEF Inv

(* The supervisor ends, or closes the log to rotate it. *)
LEMMA ClosingSteps ==
    ASSUME LogsAssumption, Inv, Returns \/ BeginRotation \/ StoppedInDelay \/ Killed
    PROVE  Inv' /\ Settled
<1>1. OutputNotDropped'
  BY DEF Inv, OutputNotDropped, Returns, BeginRotation, StoppedInDelay, Killed
<1>2. CloseLog /\ sup' \in Closed /\ shift' \in Paths
  BY DEF Inv, FileInv, Returns, BeginRotation, StoppedInDelay, Killed, Closed, Paths,
         LogsAssumption
<1>3. FileInv' /\ Settled
  BY <1>2, Closes DEF Inv, Settled
<1>4. StampInv'
  BY DEF Inv, StampInv, Returns, BeginRotation, StoppedInDelay, Killed, SupSteps, Writers
<1> QED
  BY <1>1, <1>3, <1>4 DEF Inv

(* The task is removed: there is no path any more, and nothing is open. *)
LEMMA RemovalSteps ==
    ASSUME LogsAssumption, Inv, RemovesItself \/ RequestRemoves
    PROVE  Inv' /\ Settled /\ RemoveTask
<1>1. RemoveTask /\ sup \in {"leaving", "gone"}
  BY DEF RemovesItself, RequestRemoves
<1>2. OutputNotDropped'
  BY <1>1 DEF Inv, OutputNotDropped, RemoveTask
<1>3. /\ file' = file /\ Files' = Files /\ open' = None /\ sup' = "removed" /\ shift' = shift
      /\ path' \in [Paths -> Files \cup {None}] /\ \A n \in Paths : path'[n] = None
  BY <1>1 DEF RemoveTask, Files, Paths
<1>4. FileInv' /\ Settled
  BY <1>3 DEF Inv, FileInv, Closed, Settled
<1>5. StampInv'
  BY <1>1 DEF Inv, StampInv, RemoveTask, SupSteps, Writers
<1> QED
  BY <1>1, <1>2, <1>4, <1>5 DEF Inv

LEMMA OpeningSteps ==
    ASSUME LogsAssumption, Inv, Reopen \/ NewSupervisor
    PROVE  Inv' /\ Settled
<1>1. OutputNotDropped'
  BY DEF Inv, OutputNotDropped, Reopen, NewSupervisor
<1>2. OpenLog /\ open = None /\ sup' \notin Closed /\ shift' \in Paths
  BY DEF Inv, FileInv, Reopen, NewSupervisor, Closed
<1>3. FileInv' /\ Settled
  BY <1>2, Opens DEF Inv, Settled
<1>4. StampInv'
  BY DEF Inv, StampInv, Reopen, NewSupervisor, SupSteps
<1> QED
  BY <1>1, <1>3, <1>4 DEF Inv

LEMMA RotationSteps ==
    ASSUME LogsAssumption, Inv, RotateLog
    PROVE  Inv' /\ Settled
<1>1. OutputNotDropped'
  BY DEF Inv, OutputNotDropped, RotateLog
<1>2. FileInv' /\ Settled
  BY Moves DEF Inv, Settled
<1>3. StampInv'
  BY DEF Inv, StampInv, RotateLog, SupSteps
<1> QED
  BY <1>1, <1>2, <1>3 DEF Inv

LEMMA WriteSteps ==
    ASSUME LogsAssumption, Inv, NEW w \in Writers, Write(w)
    PROVE  Inv' /\ Settled
<1>1. OutputNotDropped'
  BY DropsNoOutput
<1>2. FileInv' /\ Settled
  BY Writes DEF Inv, Settled
<1>3. StampInv'
  BY DEF Inv, StampInv, Write
<1> QED
  BY <1>1, <1>2, <1>3 DEF Inv

LEMMA SupervisorSteps ==
    ASSUME LogsAssumption, Inv, Supervisor
    PROVE  Inv' /\ Settled
BY StampSteps, LoopSteps, ClosingSteps, RemovalSteps, OpeningSteps, RotationSteps, WriteSteps
DEF Supervisor

(* A reader changes nothing but what it knows. *)
LEMMA ReaderSteps ==
    ASSUME NEW r \in Readers, Reads(r)
    PROVE  UNCHANGED <<log, stamped, sup, shift, run, clock, dropped>>
<1>1. ASSUME NEW s, NEW t, NEW x, ReaderStep(r, s, t, x)
      PROVE  UNCHANGED <<log, stamped, sup, shift, run, clock, dropped>>
  BY <1>1 DEF ReaderStep
<1> QED
  BY <1>1 DEF Reads, AskLogs, ListLogFile, ReadLogFile, OpenNewest, SeekEnd, Follows,
              FollowLine, FollowEnd

LEMMA Unmoved ==
    ASSUME Inv, UNCHANGED <<log, stamped, sup, shift, run, clock, dropped>>
    PROVE  Inv' /\ Settled
BY DEF Inv, StampInv, FileInv, OutputNotDropped, Settled, log, Files

LEMMA InvStep ==
    ASSUME LogsAssumption, Inv, [Next]_vars
    PROVE  Inv' /\ Settled
<1>1. CASE Supervisor
  BY <1>1, SupervisorSteps
<1>2. CASE \E r \in Readers : Reads(r)
  BY <1>2, ReaderSteps, Unmoved
<1>3. CASE UNCHANGED vars
  BY <1>3, Unmoved DEF vars
<1> QED
  BY <1>1, <1>2, <1>3 DEF Next

-----------------------------------------------------------------------------
(* Files joined in the order of their age, c[n] for the one at path n.     *)

(* What is at path p and at older ones. *)
Joined(c, p) == FlattenSeq([k \in 1..MaxLogFiles + 1 - p |-> c[MaxLogFiles + 1 - k]])

LEMMA JoinedTypes ==
    ASSUME LogsAssumption, NEW A, NEW c \in [Paths -> Seq(A)], NEW p \in 0..MaxLogFiles + 1
    PROVE  Joined(c, p) \in Seq(A)
<1> DEFINE ss == [k \in 1..MaxLogFiles + 1 - p |-> c[MaxLogFiles + 1 - k]]
<1>1. MaxLogFiles \in Nat /\ MaxLogFiles + 1 - p \in Nat
  BY DEF LogsAssumption
<1>2. \A k \in 1..MaxLogFiles + 1 - p : MaxLogFiles + 1 - k \in Paths
  BY <1>1 DEF Paths
<1>3. ss \in [1..MaxLogFiles + 1 - p -> Seq(A)]
  BY <1>2
<1>4. ss \in Seq(Seq(A))
  BY <1>1, <1>3, SeqDef
<1> HIDE DEF ss
<1>5. FlattenSeq(ss) \in Seq(A)
  BY <1>4, FlattenTypes
<1> QED
  BY <1>5 DEF ss, Joined

LEMMA JoinedNone == LogsAssumption => \A c : Joined(c, MaxLogFiles + 1) = <<>>
<1> SUFFICES ASSUME LogsAssumption, NEW c PROVE Joined(c, MaxLogFiles + 1) = <<>>
  OBVIOUS
<1>1. 1..MaxLogFiles + 1 - (MaxLogFiles + 1) = {}
  BY DEF LogsAssumption
<1>2. [k \in 1..MaxLogFiles + 1 - (MaxLogFiles + 1) |-> c[MaxLogFiles + 1 - k]] = <<>>
  BY <1>1
<1> QED
  BY <1>2, FlattenEmpty DEF Joined

LEMMA JoinedSplit ==
    ASSUME LogsAssumption, NEW A, NEW c \in [Paths -> Seq(A)], NEW p \in Paths
    PROVE  Joined(c, p) = Joined(c, p + 1) \o c[p]
<1> DEFINE n == MaxLogFiles - p
           ss == [k \in 1..MaxLogFiles + 1 - (p + 1) |-> c[MaxLogFiles + 1 - k]]
           tt == [k \in 1..MaxLogFiles + 1 - p |-> c[MaxLogFiles + 1 - k]]
<1>1. /\ MaxLogFiles \in Nat /\ n \in Nat /\ p \in Int
      /\ MaxLogFiles + 1 - (p + 1) = n /\ MaxLogFiles + 1 - p = n + 1
      /\ MaxLogFiles + 1 - (n + 1) = p
  BY DEF LogsAssumption, Paths
<1>2. \A k \in 1..n + 1 : MaxLogFiles + 1 - k \in Paths
  BY <1>1 DEF Paths
<1>3. ss \in [1..n -> Seq(A)] /\ tt \in [1..n + 1 -> Seq(A)] /\ tt[n + 1] = c[p]
      /\ \A k \in 1..n : tt[k] = ss[k]
  <2> HIDE DEF n
  <2>1. \A k \in 1..n : k \in 1..n + 1
    BY <1>1
  <2> QED
    BY <1>1, <1>2, <2>1
<1> HIDE DEF ss, tt, n
<1>4. /\ ss \in Seq(Seq(A)) /\ Len(ss) = n /\ tt \in Seq(Seq(A)) /\ Len(tt) = n + 1
      /\ c[p] \in Seq(A)
  <2>1. ss \in Seq(Seq(A)) /\ tt \in Seq(Seq(A))
    BY <1>1, <1>3, SeqDef
  <2>2. DOMAIN ss = 1..n /\ DOMAIN tt = 1..n + 1
    BY <1>3
  <2> QED
    BY <1>1, <2>1, <2>2
<1>5. tt = Append(ss, c[p])
  <2>1. /\ Append(ss, c[p]) \in Seq(Seq(A)) /\ Len(Append(ss, c[p])) = n + 1
        /\ \A k \in 1..n : Append(ss, c[p])[k] = ss[k]
        /\ Append(ss, c[p])[n + 1] = c[p]
    BY <1>4, AppendProperties
  <2>2. \A k \in 1..n + 1 : k \in 1..n \/ k = n + 1
    BY <1>1
  <2>3. \A k \in 1..Len(tt) : tt[k] = Append(ss, c[p])[k]
    BY <1>3, <1>4, <2>1, <2>2
  <2> QED
    BY <1>4, <2>1, <2>3, SeqEqual
<1>6. FlattenSeq(tt) = FlattenSeq(ss) \o c[p]
  BY <1>4, <1>5, FlattenAppend
<1> QED
  BY <1>6 DEF ss, tt, Joined

LEMMA JoinedAgree ==
    ASSUME LogsAssumption, NEW c, NEW d, NEW p \in 0..MaxLogFiles + 1,
           \A n \in p..MaxLogFiles : c[n] = d[n]
    PROVE  Joined(c, p) = Joined(d, p)
<1>1. \A k \in 1..MaxLogFiles + 1 - p : MaxLogFiles + 1 - k \in p..MaxLogFiles
  BY DEF LogsAssumption
<1>2. \A k \in 1..MaxLogFiles + 1 - p : c[MaxLogFiles + 1 - k] = d[MaxLogFiles + 1 - k]
  BY <1>1
<1> QED
  BY <1>2 DEF Joined

(* Lists that end alike, and begin alike, are alike. *)
LEMMA JoinedSame ==
    ASSUME LogsAssumption, NEW A, NEW c \in [Paths -> Seq(A)], NEW d \in [Paths -> Seq(A)],
           NEW a \in 0..MaxLogFiles + 1, Joined(c, a) = Joined(d, a),
           \A n \in 0..a - 1 : c[n] = d[n]
    PROVE  \A p \in 0..a : Joined(c, p) = Joined(d, p)
<1> DEFINE T == {p \in Nat : Joined(c, p) = Joined(d, p)}
<1>1. a \in T /\ a \in Nat
  OBVIOUS
<1>2. ASSUME NEW n \in 0..a - 1, n + 1 \in T PROVE n \in T
  <2>1. n \in Paths /\ n \in Nat
    BY DEF Paths, LogsAssumption
  <2>2. Joined(c, n) = Joined(c, n + 1) \o c[n] /\ Joined(d, n) = Joined(d, n + 1) \o d[n]
    BY <2>1, JoinedSplit
  <2> QED
    BY <1>2, <2>1, <2>2
<1> HIDE DEF T
<1>3. 0..a \subseteq T
  BY <1>1, <1>2, DownInduction
<1> QED
  BY <1>3 DEF T

(* Empty files add nothing. *)
LEMMA JoinedSkip ==
    ASSUME LogsAssumption, NEW A, NEW c \in [Paths -> Seq(A)],
           NEW a \in 0..MaxLogFiles + 1, NEW p \in 0..a, \A n \in p..a - 1 : c[n] = <<>>
    PROVE  Joined(c, p) = Joined(c, a)
<1> DEFINE T == {n \in Nat : n >= p => Joined(c, n) = Joined(c, a)}
<1>1. a \in T /\ a \in Nat
  OBVIOUS
<1>2. ASSUME NEW n \in 0..a - 1, n + 1 \in T PROVE n \in T
  <2>1. n \in Paths /\ n \in Nat /\ n + 1 \in 0..MaxLogFiles + 1
    BY DEF Paths, LogsAssumption
  <2>2. SUFFICES ASSUME n >= p PROVE Joined(c, n) = Joined(c, a)
    BY <2>1
  <2>3. Joined(c, n) = Joined(c, n + 1) \o c[n] /\ Joined(c, n + 1) \in Seq(A)
    BY <2>1, JoinedSplit, JoinedTypes
  <2>4. c[n] = <<>> /\ Joined(c, n + 1) = Joined(c, a)
    BY <1>2, <2>1, <2>2
  <2>5. Joined(c, n + 1) \o <<>> = Joined(c, n + 1)
    BY <2>3, ConcatEmptySeq
  <2> QED
    BY <2>3, <2>4, <2>5
<1> HIDE DEF T
<1>3. 0..a \subseteq T
  BY <1>1, <1>2, DownInduction
<1>4. p \in 0..a /\ p >= p
  OBVIOUS
<1> QED
  BY <1>3, <1>4 DEF T

(* The oldest file comes first: without it the rest is left. *)
LEMMA JoinedOldest ==
    ASSUME LogsAssumption, NEW A, NEW c \in [Paths -> Seq(A)], NEW d \in [Paths -> Seq(A)],
           d[MaxLogFiles] = <<>>, \A n \in 0..MaxLogFiles - 1 : c[n] = d[n]
    PROVE  Joined(c, 0) = c[MaxLogFiles] \o Joined(d, 0)
<1> DEFINE old == c[MaxLogFiles]
           T == {p \in Nat : Joined(c, p) = old \o Joined(d, p)}
<1>0. MaxLogFiles \in Paths /\ MaxLogFiles \in Nat /\ old \in Seq(A) /\ <<>> \in Seq(A)
  BY DEF LogsAssumption, Paths
<1>1. MaxLogFiles \in T
  <2>1. /\ Joined(c, MaxLogFiles) = <<>> \o old
        /\ Joined(d, MaxLogFiles) = <<>> \o <<>>
    BY <1>0, JoinedSplit, JoinedNone
  <2>2. <<>> \o old = old /\ <<>> \o <<>> = <<>> /\ old \o <<>> = old
    BY <1>0, ConcatEmptySeq
  <2> QED
    BY <1>0, <2>1, <2>2
<1>2. ASSUME NEW n \in 0..MaxLogFiles - 1, n + 1 \in T PROVE n \in T
  <2>1. n \in Paths /\ n \in Nat /\ n + 1 \in 0..MaxLogFiles + 1
    BY <1>0 DEF Paths
  <2>2. Joined(c, n) = Joined(c, n + 1) \o c[n] /\ Joined(d, n) = Joined(d, n + 1) \o d[n]
    BY <2>1, JoinedSplit
  <2>3. Joined(d, n + 1) \in Seq(A) /\ c[n] \in Seq(A) /\ c[n] = d[n]
    BY <2>1, JoinedTypes
  <2>4. (old \o Joined(d, n + 1)) \o c[n] = old \o (Joined(d, n + 1) \o c[n])
    <3>1. Cat(Cat(old, Joined(d, n + 1)), c[n]) = Cat(old, Cat(Joined(d, n + 1), c[n]))
      BY <1>0, <2>3, CatAssoc
    <3> QED
      BY <3>1 DEF Cat
  <2>5. Joined(c, n + 1) = old \o Joined(d, n + 1)
    BY <1>2
  <2>6. Joined(c, n) = old \o Joined(d, n)
    BY <2>2, <2>3, <2>4, <2>5
  <2> QED
    BY <2>1, <2>6
<1> HIDE DEF T
<1>3. 0..MaxLogFiles \subseteq T
  BY <1>0, <1>1, <1>2, DownInduction
<1>4. 0 \in 0..MaxLogFiles
  BY <1>0
<1> QED
  BY <1>3, <1>4 DEF T

(* A file that moves to the next path, where nothing is, keeps its place.  *)
LEMMA JoinedMoved ==
    ASSUME LogsAssumption, NEW A, NEW c \in [Paths -> Seq(A)], NEW d \in [Paths -> Seq(A)],
           NEW m \in 0..MaxLogFiles - 1, c[m + 1] = <<>>, d[m] = <<>>, d[m + 1] = c[m],
           \A n \in Paths \ {m, m + 1} : c[n] = d[n]
    PROVE  Joined(c, 0) = Joined(d, 0)
<1>0. /\ MaxLogFiles \in Nat /\ m \in Paths /\ m + 1 \in Paths /\ m \in Int
      /\ m + 1 \in 0..MaxLogFiles + 1 /\ m + 1 + 1 \in 0..MaxLogFiles + 1 /\ m \in 0..MaxLogFiles + 1
  BY DEF LogsAssumption, Paths
<1>1. Joined(c, m + 1 + 1) = Joined(d, m + 1 + 1)
  <2>1. \A n \in m + 1 + 1..MaxLogFiles : n \in Paths \ {m, m + 1}
    BY <1>0 DEF Paths
  <2> QED
    BY <1>0, <2>1, JoinedAgree
<1>2. Joined(c, m) = Joined(d, m)
  <2> DEFINE older == Joined(c, m + 1 + 1)
  <2>1. older \in Seq(A) /\ c[m] \in Seq(A) /\ older \o c[m] \in Seq(A)
    BY <1>0, JoinedTypes
  <2>2. /\ Joined(c, m) = Joined(c, m + 1) \o c[m] /\ Joined(c, m + 1) = older \o <<>>
        /\ Joined(d, m) = Joined(d, m + 1) \o <<>> /\ Joined(d, m + 1) = older \o c[m]
    BY <1>0, <1>1, JoinedSplit
  <2>3. older \o <<>> = older /\ (older \o c[m]) \o <<>> = older \o c[m]
    BY <2>1, ConcatEmptySeq
  <2> QED
    BY <2>2, <2>3
<1>3. \A n \in 0..m - 1 : c[n] = d[n]
  BY <1>0 DEF Paths
<1>4. \A p \in 0..m : Joined(c, p) = Joined(d, p)
  BY <1>0, <1>2, <1>3, JoinedSame
<1> QED
  BY <1>0, <1>4

(* Joined files hold no more than the files do.                            *)
LEMMA JoinedSet ==
    ASSUME LogsAssumption, NEW A, NEW c \in [Paths -> Seq(A)], NEW W,
           \A n \in Paths : ToSet(c[n]) \subseteq W
    PROVE  ToSet(Joined(c, 0)) \subseteq W
<1> DEFINE T == {p \in Nat : ToSet(Joined(c, p)) \subseteq W}
<1>0. MaxLogFiles \in Nat
  BY DEF LogsAssumption
<1>1. MaxLogFiles + 1 \in T
  BY <1>0, JoinedNone DEF ToSet
<1>2. ASSUME NEW p \in 0..MaxLogFiles + 1 - 1, p + 1 \in T PROVE p \in T
  <2>1. p \in Paths /\ p \in Nat /\ p + 1 \in 0..MaxLogFiles + 1
    BY <1>0 DEF Paths
  <2> DEFINE older == Joined(c, p + 1)
  <2>2. Joined(c, p) = older \o c[p] /\ older \in Seq(A) /\ c[p] \in Seq(A)
    BY <2>1, JoinedSplit, JoinedTypes
  <2>3. ToSet(older) \subseteq W
    BY <1>2
  <2> HIDE DEF T, older
  <2>4. ToSet(Joined(c, p)) = ToSet(older) \cup ToSet(c[p])
    BY <2>2, SetConcat
  <2>5. ToSet(Joined(c, p)) \subseteq W
    BY <2>1, <2>3, <2>4
  <2> QED
    BY <2>1, <2>5 DEF T
<1> HIDE DEF T
<1>3. 0..MaxLogFiles + 1 \subseteq T
  BY <1>0, <1>1, <1>2, DownInduction
<1>4. 0 \in 0..MaxLogFiles + 1
  BY <1>0
<1> QED
  BY <1>3, <1>4 DEF T

(* Files that share nothing and hold nothing twice, joined.                *)
LEMMA JoinedInjective ==
    ASSUME LogsAssumption, NEW A, NEW c \in [Paths -> Seq(A)],
           \A n \in Paths : IsInjective(c[n]),
           \A m, n \in Paths : m # n => ToSet(c[m]) \cap ToSet(c[n]) = {}
    PROVE  IsInjective(Joined(c, 0))
<1> DEFINE T == {p \in Nat : /\ IsInjective(Joined(c, p))
                             /\ ToSet(Joined(c, p)) \subseteq UNION {ToSet(c[n]) : n \in p..MaxLogFiles}}
<1>0. MaxLogFiles \in Nat
  BY DEF LogsAssumption
<1>1. MaxLogFiles + 1 \in T
  BY <1>0, JoinedNone DEF IsInjective, ToSet
<1>2. ASSUME NEW p \in 0..MaxLogFiles + 1 - 1, p + 1 \in T PROVE p \in T
  <2>1. p \in Paths /\ p \in Nat /\ p + 1 \in 0..MaxLogFiles + 1
    BY <1>0 DEF Paths
  <2> DEFINE older == Joined(c, p + 1)
  <2>2. Joined(c, p) = older \o c[p] /\ older \in Seq(A) /\ c[p] \in Seq(A)
    BY <2>1, JoinedSplit, JoinedTypes
  <2>3. IsInjective(older) /\ ToSet(older) \subseteq UNION {ToSet(c[n]) : n \in p + 1..MaxLogFiles}
    BY <1>2
  <2> HIDE DEF T, older
  <2>4. ToSet(older) \cap ToSet(c[p]) = {}
    <3>1. \A n \in p + 1..MaxLogFiles : n \in Paths /\ n # p
      BY <2>1 DEF Paths
    <3> QED
      BY <2>1, <2>3, <3>1
  <2>5. IsInjective(Joined(c, p))
    BY <2>1, <2>2, <2>3, <2>4, InjectiveConcat
  <2>6. ToSet(Joined(c, p)) = ToSet(older) \cup ToSet(c[p])
    BY <2>2, SetConcat
  <2>7. \A n \in p + 1..MaxLogFiles : n \in p..MaxLogFiles
    BY <2>1
  <2>8. p \in p..MaxLogFiles
    BY <2>1 DEF Paths
  <2>9. ToSet(Joined(c, p)) \subseteq UNION {ToSet(c[n]) : n \in p..MaxLogFiles}
    BY <2>3, <2>6, <2>7, <2>8
  <2> QED
    BY <2>1, <2>5, <2>9 DEF T
<1> HIDE DEF T
<1>3. 0..MaxLogFiles + 1 \subseteq T
  BY <1>0, <1>1, <1>2, DownInduction
<1>4. 0 \in 0..MaxLogFiles + 1
  BY <1>0
<1> QED
  BY <1>3, <1>4 DEF T

-----------------------------------------------------------------------------
(* What the paths hold.                                                    *)

Contents == [n \in Paths |-> FileAt(n)]

LEMMA KeptIsJoined ==
    ASSUME LogsAssumption
    PROVE  Kept = Joined(Contents, 0) /\ Kept' = Joined(Contents', 0)
<1>1. \A k \in 1..MaxLogFiles + 1 : MaxLogFiles + 1 - k \in Paths
  BY DEF LogsAssumption, Paths
<1>2. \A k \in 1..MaxLogFiles + 1 :
         /\ Contents[MaxLogFiles + 1 - k] = FileAt(MaxLogFiles + 1 - k)
         /\ Contents'[MaxLogFiles + 1 - k] = FileAt(MaxLogFiles + 1 - k)'
  BY <1>1 DEF Contents
<1>3. MaxLogFiles + 1 - 0 = MaxLogFiles + 1
  BY DEF LogsAssumption
<1> QED
  BY <1>2, <1>3 DEF Kept, Joined

LEMMA ContentsTypes ==
    ASSUME LogsAssumption, FileInv
    PROVE  Contents \in [Paths -> Seq(Entry)] /\ \A n \in Paths : Contents[n] = FileAt(n)
<1>1. ASSUME NEW n \in Paths PROVE FileAt(n) \in Seq(Entry)
  <2>1. CASE path[n] = None
    BY <2>1 DEF FileAt
  <2>2. CASE path[n] # None
    BY <2>2 DEF FileAt, FileInv, Files
  <2> QED
    BY <2>1, <2>2
<1> QED
  BY <1>1 DEF Contents

LEMMA ContentsTypesNext ==
    ASSUME LogsAssumption, FileInv'
    PROVE  Contents' \in [Paths -> Seq(Entry)] /\ \A n \in Paths : Contents'[n] = FileAt(n)'
<1>1. ASSUME NEW n \in Paths PROVE FileAt(n)' \in Seq(Entry)
  <2>1. CASE path'[n] = None
    BY <2>1 DEF FileAt
  <2>2. CASE path'[n] # None
    BY <2>2 DEF FileAt, FileInv, Files
  <2> QED
    BY <2>1, <2>2
<1> QED
  BY <1>1 DEF Contents

LEMMA KeptSame ==
    ASSUME LogsAssumption, \A n \in Paths : FileAt(n)' = FileAt(n)
    PROVE  Kept' = Kept
<1>1. \A k \in 1..MaxLogFiles + 1 : MaxLogFiles + 1 - k \in Paths
  BY DEF LogsAssumption, Paths
<1>2. [k \in 1..MaxLogFiles + 1 |-> FileAt(MaxLogFiles + 1 - k)]'
         = [k \in 1..MaxLogFiles + 1 |-> FileAt(MaxLogFiles + 1 - k)]
  BY <1>1
<1> QED
  BY <1>2 DEF Kept

(* While the log is rotated, nothing is at the path that is next to be     *)
(* moved to.                                                               *)
ShiftInv == sup = "rotating" /\ shift < MaxLogFiles => path[shift + 1] = None

LEMMA ShiftStep ==
    ASSUME LogsAssumption, FileInv, ShiftInv, Supervisor
    PROVE  ShiftInv'
<1>0. 0 \in Paths /\ MaxLogFiles \in Paths /\ MaxLogFiles \in Nat \ {0}
  BY DEF Paths, LogsAssumption
<1>1. CASE RotateLog
  <2>1. CASE shift = MaxLogFiles
    <3>1. shift' = shift - 1 /\ path' = [path EXCEPT ![MaxLogFiles] = None]
      BY <1>0, <1>1, <2>1 DEF RotateLog
    <3>2. shift' + 1 = MaxLogFiles /\ path'[MaxLogFiles] = None
      BY <1>0, <2>1, <3>1 DEF FileInv
    <3> QED
      BY <3>2 DEF ShiftInv
  <2>2. CASE shift # MaxLogFiles /\ shift # 0
    <3>1. shift \in Paths /\ shift' = shift - 1 /\ MovePath(shift)
      BY <1>1, <2>2 DEF RotateLog, FileInv
    <3>2. path'[shift] = None
      <4>1. shift # shift + 1
        BY <3>1 DEF Paths
      <4> QED
        BY <3>1, <4>1 DEF MovePath, FileInv
    <3>3. shift' + 1 = shift
      BY <3>1 DEF Paths
    <3> QED
      BY <3>2, <3>3 DEF ShiftInv
  <2>3. CASE shift = 0
    BY <1>1, <2>3 DEF RotateLog, ShiftInv
  <2> QED
    BY <2>1, <2>2, <2>3
<1>2. CASE BeginRotation
  BY <1>0, <1>2 DEF BeginRotation, ShiftInv
<1>3. ASSUME NEW w \in Writers, Write(w) \/ Capture(w) PROVE ShiftInv'
  BY <1>3 DEF Write, Capture, ShiftInv, log
<1>4. CASE HealthEvent
  BY <1>4 DEF HealthEvent, ShiftInv, log
<1>5. CASE \/ StartChild \/ StartFails \/ WriteStartTime \/ ChildEnds \/ RestartLater \/ RecordExit
           \/ Returns \/ NoRotation \/ Reopen \/ StoppedInDelay \/ Killed \/ NewSupervisor
           \/ RemovesItself \/ RequestRemoves
  BY <1>5 DEF ShiftInv, StartChild, StartFails, WriteStartTime, ChildEnds, RestartLater, RecordExit,
              Returns, NoRotation, Reopen, StoppedInDelay, Killed, NewSupervisor,
              RemovesItself, RequestRemoves, RemoveTask
<1> QED
  BY <1>1, <1>2, <1>3, <1>4, <1>5 DEF Supervisor

LEMMA AppendIsPrefix ==
    ASSUME NEW A, NEW s \in Seq(A), NEW e \in A
    PROVE  Len(Append(s, e)) = Len(s) + 1 /\ IsPrefix(s, Append(s, e))
<1> DEFINE t == Append(s, e)
<1>1. t \in Seq(A) /\ Len(t) = Len(s) + 1 /\ Len(s) \in Nat /\ \A k \in 1..Len(s) : t[k] = s[k]
  OBVIOUS
<1> HIDE DEF t
<1>2. SubSeq(s, 1, Len(s)) = SubSeq(t, 1, Len(s))
  BY <1>1
<1> QED
  BY <1>1, <1>2 DEF IsPrefix, t

LEMMA KeptWrite ==
    ASSUME LogsAssumption, StampInv, FileInv, FileInv', NEW w \in Writers, Write(w)
    PROVE  Kept' = Kept \/ (Len(Kept') = Len(Kept) + 1 /\ IsPrefix(Kept, Kept'))
<1>0. 0 \in Paths /\ 1 \in 0..MaxLogFiles + 1 /\ stamped[w] \in Entry /\ path' = path /\ None \notin Nat
  BY DEF Paths, LogsAssumption, StampInv, Write
<1>1. CASE open = None
  <2>1. file' = file
    BY <1>1 DEF Write
  <2>2. \A n \in Paths : FileAt(n)' = FileAt(n)
    BY <1>0, <2>1 DEF FileAt
  <2> QED
    BY <2>2, KeptSame
<1>2. CASE open # None
  <2>1. /\ open \in Files /\ open = path[0]
        /\ file' = [file EXCEPT ![open] = Append(@, stamped[w])]
    BY <1>2 DEF Write, FileInv
  <2>2. \A n \in 1..MaxLogFiles : FileAt(n)' = FileAt(n)
    <3>1. ASSUME NEW n \in 1..MaxLogFiles PROVE path[n] # None => path[n] \in Files /\ path[n] # open
      <4>1. n \in Paths /\ n # 0
        BY DEF Paths, LogsAssumption
      <4> QED
        BY <1>0, <2>1, <4>1 DEF FileInv
    <3>2. \A n \in 1..MaxLogFiles : n \in Paths
      BY DEF Paths, LogsAssumption
    <3> QED
      BY <1>0, <2>1, <3>1, <3>2 DEF FileAt, FileInv, Files
  <2>3. FileAt(0)' = Append(FileAt(0), stamped[w]) /\ FileAt(0) \in Seq(Entry)
    BY <1>0, <1>2, <2>1 DEF FileAt, FileInv, Files
  <2>4. /\ Contents \in [Paths -> Seq(Entry)] /\ \A n \in Paths : Contents[n] = FileAt(n)
        /\ Contents' \in [Paths -> Seq(Entry)] /\ \A n \in Paths : Contents'[n] = FileAt(n)'
    <3>1. Contents \in [Paths -> Seq(Entry)] /\ \A n \in Paths : Contents[n] = FileAt(n)
      BY ContentsTypes
    <3>2. Contents' \in [Paths -> Seq(Entry)] /\ \A n \in Paths : Contents'[n] = FileAt(n)'
      BY ContentsTypesNext
    <3> QED
      BY <3>1, <3>2
  <2> DEFINE older == Joined(Contents, 1)
  <2>5. Joined(Contents', 1) = older
    <3>1. \A n \in 1..MaxLogFiles : Contents'[n] = Contents[n]
      BY <2>2, <2>4 DEF Paths
    <3> QED
      BY <1>0, <3>1, JoinedAgree
  <2>6. Kept = older \o FileAt(0) /\ Kept' = older \o Append(FileAt(0), stamped[w])
    <3>0. 0 + 1 = 1
      OBVIOUS
    <3>1. Joined(Contents, 0) = older \o Contents[0]
      BY <1>0, <2>4, <3>0, JoinedSplit
    <3>3. Joined(Contents', 0) = Joined(Contents', 1) \o Contents'[0]
      <4> DEFINE d == Contents'
      <4>1. d \in [Paths -> Seq(Entry)]
        BY <2>4
      <4> HIDE DEF d
      <4>2. Joined(d, 0) = Joined(d, 1) \o d[0]
        BY <1>0, <3>0, <4>1, JoinedSplit
      <4> QED
        BY <4>2 DEF d
    <3>4. Contents[0] = FileAt(0) /\ Contents'[0] = Append(FileAt(0), stamped[w])
      BY <1>0, <2>3, <2>4
    <3>2. Kept = Joined(Contents, 0) /\ Kept' = Joined(Contents', 0)
      BY KeptIsJoined
    <3> QED
      BY <2>5, <3>1, <3>2, <3>3, <3>4
  <2>7. older \in Seq(Entry) /\ Kept \in Seq(Entry)
    <3>1. older \in Seq(Entry)
      BY <1>0, <2>4, JoinedTypes
    <3> QED
      BY <2>3, <2>6, <3>1
  <2>8. Kept' = Append(Kept, stamped[w])
    <3>1. older \o Append(FileAt(0), stamped[w]) = Append(older \o FileAt(0), stamped[w])
      BY <1>0, <2>3, <2>7, ConcatAppend
    <3> QED
      BY <2>6, <3>1
  <2> HIDE DEF older
  <2>9. Len(Kept') = Len(Kept) + 1 /\ IsPrefix(Kept, Kept')
    BY <1>0, <2>7, <2>8, AppendIsPrefix
  <2> QED
    BY <2>9
<1> QED
  BY <1>1, <1>2

LEMMA KeptStays ==
    ASSUME LogsAssumption, UNCHANGED <<file, path>>
    PROVE  Kept' = Kept
<1>1. \A n \in Paths : FileAt(n)' = FileAt(n)
  BY DEF FileAt
<1> QED
  BY <1>1, KeptSame

LEMMA OpensEmpty ==
    ASSUME LogsAssumption, FileInv, OpenLog
    PROVE  \A n \in Paths : FileAt(n)' = FileAt(n)
<1>0. 0 \in Paths /\ None \notin Nat /\ Len(file) \in Nat
  BY DEF Paths, LogsAssumption, FileInv
<1>1. CASE path[0] = None
  <2>1. file' = Append(file, <<>>) /\ path' = [path EXCEPT ![0] = Len(file) + 1]
    BY <1>1 DEF OpenLog
  <2>2. file \in Seq(Seq(Entry)) /\ <<>> \in Seq(Entry)
    BY DEF FileInv
  <2>3. (\A f \in Files : file'[f] = file[f]) /\ file'[Len(file) + 1] = <<>>
    BY <2>1, <2>2, AppendProperties DEF Files
  <2>4. path'[0] = Len(file) + 1 /\ Len(file) + 1 # None
    BY <1>0, <2>1 DEF FileInv
  <2>5. FileAt(0)' = <<>> /\ FileAt(0) = <<>>
    BY <1>1, <2>3, <2>4 DEF FileAt
  <2>6. \A n \in Paths \ {0} : path'[n] = path[n] /\ path[n] \in Files \cup {None}
    BY <2>1 DEF FileInv
  <2>7. \A n \in Paths \ {0} : FileAt(n)' = FileAt(n)
    BY <2>3, <2>6 DEF FileAt
  <2> QED
    BY <2>5, <2>7
<1>2. CASE path[0] # None
  BY <1>2 DEF OpenLog, FileAt
<1> QED
  BY <1>1, <1>2

(* A step of the rotation removes the oldest file, or moves one to a path  *)
(* where nothing is.                                                       *)
LEMMA KeptRotated ==
    ASSUME LogsAssumption, FileInv, FileInv', ShiftInv, RotateLog
    PROVE  Kept' = Kept \/ Kept = FileAt(MaxLogFiles) \o Kept'
<1>0. /\ MaxLogFiles \in Paths /\ 0 \in Paths /\ MaxLogFiles \in Nat \ {0}
      /\ file' = file /\ path \in [Paths -> Files \cup {None}] /\ sup = "rotating"
  BY DEF Paths, LogsAssumption, RotateLog, FileInv
<1> DEFINE c == Contents
           d == Contents'
<1>1. /\ c \in [Paths -> Seq(Entry)] /\ \A n \in Paths : c[n] = FileAt(n)
      /\ Kept = Joined(c, 0)
  BY ContentsTypes, KeptIsJoined
<1>2. d \in [Paths -> Seq(Entry)]
  BY ContentsTypesNext
<1>3. \A n \in Paths : d[n] = FileAt(n)'
  BY ContentsTypesNext
<1>4. Kept' = Joined(d, 0)
  BY KeptIsJoined
<1>5. \A n \in Paths : path'[n] = path[n] => d[n] = c[n]
  BY <1>0, <1>1, <1>3 DEF FileAt
<1>6. \A n \in Paths : (path'[n] = None => d[n] = <<>>) /\ (path[n] = None => c[n] = <<>>)
  BY <1>1, <1>3 DEF FileAt
<1>7. \A m, n \in Paths : path'[m] = path[n] => d[m] = c[n]
  BY <1>0, <1>1, <1>3 DEF FileAt
<1> HIDE DEF c, d
<1>8. CASE shift = MaxLogFiles
  <2>1. path' = [path EXCEPT ![MaxLogFiles] = None]
    BY <1>8 DEF RotateLog
  <2>2. d[MaxLogFiles] = <<>>
    BY <1>0, <1>6, <2>1
  <2>3. \A n \in 0..MaxLogFiles - 1 : n \in Paths /\ n # MaxLogFiles
    BY <1>0 DEF Paths
  <2>4. \A n \in 0..MaxLogFiles - 1 : c[n] = d[n]
    BY <1>0, <1>5, <2>1, <2>3
  <2>5. Joined(c, 0) = c[MaxLogFiles] \o Joined(d, 0)
    BY <1>1, <1>2, <2>2, <2>4, JoinedOldest
  <2> QED
    BY <1>0, <1>1, <1>4, <2>5
<1>9. CASE shift # MaxLogFiles
  <2>1. /\ MovePath(shift) /\ shift \in 0..MaxLogFiles - 1 /\ shift \in Paths /\ shift + 1 \in Paths
        /\ shift < MaxLogFiles /\ shift + 1 # shift
    BY <1>0, <1>9 DEF RotateLog, FileInv, Paths
  <2>2. CASE path[shift] = None
    <3>1. path' = path
      BY <2>1, <2>2 DEF MovePath
    <3> QED
      BY <1>0, <3>1, KeptStays
  <2>3. CASE path[shift] # None
    <3>1. /\ path'[shift] = None /\ path'[shift + 1] = path[shift]
          /\ \A n \in Paths \ {shift, shift + 1} : path'[n] = path[n]
      BY <1>0, <2>1, <2>3 DEF MovePath
    <3>2. path[shift + 1] = None
      BY <1>0, <2>1 DEF ShiftInv
    <3>3. c[shift + 1] = <<>> /\ d[shift] = <<>> /\ d[shift + 1] = c[shift]
      BY <1>6, <1>7, <2>1, <3>1, <3>2
    <3>4. \A n \in Paths \ {shift, shift + 1} : c[n] = d[n]
      BY <1>5, <3>1
    <3>5. Joined(c, 0) = Joined(d, 0)
      BY <1>1, <1>2, <2>1, <3>3, <3>4, JoinedMoved
    <3> QED
      BY <1>1, <1>4, <3>5
  <2> QED
    BY <2>2, <2>3
<1> QED
  BY <1>8, <1>9

OnlyTheOldest ==
    \/ Kept' = Kept \/ sup' = "removed"
    \/ Len(Kept') = Len(Kept) + 1 /\ IsPrefix(Kept, Kept')
    \/ Kept = FileAt(MaxLogFiles) \o Kept'

LEMMA KeptStep ==
    ASSUME LogsAssumption, StampInv, FileInv, FileInv', ShiftInv, Supervisor
    PROVE  OnlyTheOldest
<1>1. ASSUME NEW w \in Writers, Write(w) PROVE OnlyTheOldest
  BY <1>1, KeptWrite DEF OnlyTheOldest
<1>2. CASE RotateLog
  BY <1>2, KeptRotated DEF OnlyTheOldest
<1>3. CASE Reopen \/ NewSupervisor
  <2>1. OpenLog
    BY <1>3 DEF Reopen, NewSupervisor
  <2> QED
    BY <2>1, OpensEmpty, KeptSame DEF OnlyTheOldest
<1>4. CASE \/ \E w \in Writers : Capture(w)
           \/ HealthEvent \/ StartChild \/ StartFails \/ WriteStartTime \/ ChildEnds
           \/ RestartLater \/ RecordExit
           \/ Returns \/ NoRotation \/ BeginRotation \/ StoppedInDelay \/ Killed
  <2>1. UNCHANGED <<file, path>>
    BY <1>4 DEF Capture, HealthEvent, StartChild, StartFails, WriteStartTime, ChildEnds,
                RestartLater, RecordExit, Returns, NoRotation, BeginRotation, StoppedInDelay, Killed,
                CloseLog, log
  <2> QED
    BY <2>1, KeptStays DEF OnlyTheOldest
<1>5. CASE RemovesItself \/ RequestRemoves
  BY <1>5 DEF RemovesItself, RequestRemoves, RemoveTask, OnlyTheOldest
<1> QED
  BY <1>1, <1>2, <1>3, <1>4, <1>5 DEF Supervisor

-----------------------------------------------------------------------------
(* The counters.                                                           *)

(* A child that is to be started again has been started at least once, and *)
(* the loop has its time in hand while it records it.                      *)
CountInv ==
    /\ attempt \in Nat /\ attempt <= run
    /\ sup \notin {"begin", "gone", "removed"} => attempt >= 1
    /\ start \in [time : Int \cup {None}, run : 0..MaxRuns]
    /\ exit \in BOOLEAN /\ dropped \subseteq Entry
    /\ sup = "timing" => stamped["loop"] \in Entry

LEMMA CountInit == LogsAssumption /\ Init => CountInv
<1> SUFFICES ASSUME LogsAssumption, Init PROVE CountInv
  OBVIOUS
<1>1. NoStart \in [time : Int \cup {None}, run : 0..MaxRuns]
  BY DEF NoStart, LogsAssumption
<1>2. attempt = 0 /\ run = 0 /\ sup = "gone" /\ start = NoStart /\ dropped = {}
  BY DEF Init
<1>3. exit \in BOOLEAN
  BY Zenon DEF Init
<1> QED
  BY <1>1, <1>2, <1>3 DEF CountInv

LEMMA CountStep ==
    ASSUME LogsAssumption, StampInv, CountInv, Supervisor
    PROVE  CountInv'
<1>0. run \in Nat /\ "loop" \in Writers /\ "health" \in Writers /\ MaxRuns \in Nat
  BY DEF StampInv, Writers, LogsAssumption
<1>1. ASSUME NEW w \in Writers, Write(w) PROVE CountInv'
  <2>1. stamped[w] \in Entry /\ dropped' \subseteq Entry
    BY <1>1 DEF Write, StampInv, CountInv
  <2>2. sup' = "timing" => stamped'["loop"] = stamped["loop"]
    BY <1>0, <1>1 DEF Write, StampInv
  <2> QED
    BY <1>1, <2>1, <2>2 DEF Write, CountInv, marks
<1>2. ASSUME NEW w \in Writers, Capture(w) PROVE CountInv'
  BY <1>2 DEF Capture, CountInv, marks
<1>3. CASE HealthEvent
  BY <1>0, <1>3 DEF HealthEvent, CountInv, marks, Stamp, StampInv
<1>4. CASE StartChild
  <2>1. stamped'["loop"] \in Entry
    <3>1. StreamOf("loop") = "x"
      BY DEF StreamOf, LogsAssumption
    <3>2. [time |-> clock + 1, stream |-> "x", run |-> run] \in Entry
      BY DEF Entry, Streams, StampInv
    <3> QED
      BY <1>0, <1>4, <3>1, <3>2 DEF StartChild, Stamp, StampInv
  <2>2. attempt' \in Nat /\ attempt' <= run' /\ attempt' >= 1
    BY <1>0, <1>4 DEF StartChild, CountInv
  <2>3. start' \in [time : Int \cup {None}, run : 0..MaxRuns]
    BY <1>0, <1>4 DEF StartChild, NoStart
  <2>4. exit' = exit /\ dropped' = dropped
    BY <1>4 DEF StartChild
  <2> QED
    BY <2>1, <2>2, <2>3, <2>4 DEF CountInv
<1>5. CASE WriteStartTime
  <2>1. start' \in [time : Int \cup {None}, run : 0..MaxRuns]
    BY <1>5 DEF WriteStartTime, CountInv, StampInv, Entry
  <2> QED
    BY <1>5, <2>1 DEF WriteStartTime, CountInv
<1>6. CASE ChildEnds \/ RestartLater \/ RecordExit \/ Returns \/ NoRotation \/ BeginRotation
  BY <1>6 DEF ChildEnds, RestartLater, RecordExit, Returns, NoRotation, BeginRotation, CountInv, marks
<1>7. CASE RotateLog
  BY <1>7 DEF RotateLog, CountInv, marks
<1>9. CASE Reopen
  BY <1>9 DEF Reopen, CountInv, marks
<1>10. CASE StoppedInDelay
  BY <1>10 DEF StoppedInDelay, CountInv
<1>11. CASE Killed
  BY <1>11 DEF Killed, CountInv, marks
<1>12. CASE StartFails
  <2>1. attempt' \in Nat /\ attempt' <= run' /\ attempt' >= 1
    BY <1>0, <1>12 DEF StartFails, CountInv
  <2>2. sup' = "ended" /\ UNCHANGED <<start, exit, dropped>>
    BY <1>12 DEF StartFails, marks
  <2> QED
    BY <2>1, <2>2 DEF CountInv
<1>13. CASE RemovesItself \/ RequestRemoves
  <2>1. /\ sup' = "removed" /\ UNCHANGED <<attempt, run, dropped>>
        /\ start' = NoStart
    BY <1>13 DEF RemovesItself, RequestRemoves, RemoveTask
  <2>2. exit' \in BOOLEAN
    BY <1>13, Zenon DEF RemovesItself, RequestRemoves, RemoveTask
  <2>3. NoStart \in [time : Int \cup {None}, run : 0..MaxRuns]
    BY <1>0 DEF NoStart
  <2> QED
    BY <2>1, <2>2, <2>3 DEF CountInv
<1>8. CASE NewSupervisor
  <2>1. exit' \in BOOLEAN
    BY <1>8, Zenon DEF NewSupervisor
  <2>2. attempt' = 0 /\ sup' = "begin" /\ UNCHANGED <<start, dropped, run>>
    BY <1>8 DEF NewSupervisor
  <2> QED
    BY <1>0, <2>1, <2>2 DEF CountInv
<1> QED
  BY <1>1, <1>2, <1>3, <1>4, <1>5, <1>6, <1>7, <1>8, <1>9, <1>10, <1>11, <1>12, <1>13
  DEF Supervisor

(* The delay after the n-th start, by cases.                               *)
LEMMA DelayBounds ==
    ASSUME NEW n \in Nat, n >= 1
    PROVE  1 <= Delay(n) /\ Delay(n) <= Delay(n + 1) /\ Delay(n + 1) <= 60
<1> DEFINE Capped(k) == IF 2 ^ k > 60 THEN 60 ELSE 2 ^ k
<1>1. \A m \in Nat : m >= 7 => Delay(m) = 60
  <2> SUFFICES ASSUME NEW m \in Nat, m >= 7 PROVE Delay(m) = 60
    OBVIOUS
  <2>1. CASE m = 7
    BY <2>1 DEF Delay
  <2>2. CASE m > 7
    BY <2>2 DEF Delay
  <2> QED
    BY <2>1, <2>2
<1>2. Delay(1) = 1 /\ Delay(2) = 2 /\ Delay(3) = 4 /\ Delay(4) = 8 /\ Delay(5) = 16 /\ Delay(6) = 32
  BY DEF Delay
<1>3. n \in {1, 2, 3, 4, 5, 6} \/ n >= 7
  OBVIOUS
<1>4. CASE n >= 7
  <2>1. Delay(n) = 60 /\ Delay(n + 1) = 60
    BY <1>1, <1>4
  <2> QED
    BY <2>1
<1>5. CASE n \in {1, 2, 3, 4, 5, 6}
  <2>1. Delay(7) = 60
    BY <1>1
  <2>2. 1 + 1 = 2 /\ 2 + 1 = 3 /\ 3 + 1 = 4 /\ 4 + 1 = 5 /\ 5 + 1 = 6 /\ 6 + 1 = 7
    OBVIOUS
  <2> QED
    BY <1>2, <1>5, <2>1, <2>2
<1> QED
  BY <1>3, <1>4, <1>5

LEMMA CountBacksOff == CountInv => BacksOff
<1> SUFFICES ASSUME CountInv, sup \in {"restarting", "rotating", "reopen", "delay"},
                    NEW n \in attempt..attempt + 8
             PROVE  1 <= Delay(n) /\ Delay(n) <= Delay(n + 1) /\ Delay(n + 1) <= 60
  BY DEF BacksOff
<1>1. n \in Nat /\ n >= 1
  BY DEF CountInv
<1> QED
  BY <1>1, DelayBounds

-----------------------------------------------------------------------------
(* No entry is written twice, or before the last of a younger time.        *)

Written == UNION {ToSet(file[f]) : f \in Files}

Past(e, t, k) == e.time \in Nat /\ e.time <= t /\ e.run \in Nat /\ e.run <= k

(* Every entry was stamped at a time of its own, is either waiting for one *)
(* writer or in one place of one file, and belongs to a child started by   *)
(* now.                                                                    *)
FreshInv ==
    /\ \A e \in Written : Past(e, clock, run)
    /\ \A w \in Writers : stamped[w] # None =>
          Past(stamped[w], clock, run) /\ stamped[w] \notin Written
    /\ \A v, w \in Writers : stamped[v] # None /\ stamped[v] = stamped[w] => v = w
    /\ \A f \in Files : IsInjective(file[f])
    /\ \A f, g \in Files : f # g => ToSet(file[f]) \cap ToSet(file[g]) = {}

LEMMA WrittenStays ==
    ASSUME file' = file
    PROVE  Written' = Written /\ Files' = Files
BY DEF Written, Files

LEMMA WrittenOpens ==
    ASSUME LogsAssumption, FileInv, FreshInv, OpenLog
    PROVE  /\ Written' = Written
           /\ \A f \in Files' : IsInjective(file'[f])
           /\ \A f, g \in Files' : f # g => ToSet(file'[f]) \cap ToSet(file'[g]) = {}
<1>1. CASE path[0] = None
  <2>1. file' = Append(file, <<>>)
    BY <1>1 DEF OpenLog
  <2>2. file \in Seq(Seq(Entry)) /\ <<>> \in Seq(Entry) /\ Len(file) \in Nat
    BY DEF FileInv
  <2>3. /\ \A f \in Files : file'[f] = file[f]
        /\ file'[Len(file) + 1] = <<>> /\ Files' = Files \cup {Len(file) + 1}
    BY <2>1, <2>2, AppendProperties DEF Files
  <2>4. ToSet(<<>>) = {} /\ IsInjective(<<>>)
    BY DEF ToSet, IsInjective
  <2>5. \A f \in Files' : file'[f] = <<>> \/ (f \in Files /\ file'[f] = file[f])
    BY <2>3
  <2>6. Written' = Written
    BY <2>3, <2>4 DEF Written
  <2>7. \A f \in Files' : IsInjective(file'[f])
    BY <2>4, <2>5 DEF FreshInv
  <2>8. ASSUME NEW f \in Files', NEW g \in Files', f # g
        PROVE  ToSet(file'[f]) \cap ToSet(file'[g]) = {}
    BY <2>3, <2>4, <2>8 DEF FreshInv
  <2> QED
    BY <2>6, <2>7, <2>8
<1>2. CASE path[0] # None
  <2>1. file' = file
    BY <1>2 DEF OpenLog
  <2> QED
    BY <2>1, WrittenStays DEF FreshInv
<1> QED
  BY <1>1, <1>2

LEMMA WrittenGrows ==
    ASSUME LogsAssumption, StampInv, FileInv, FreshInv, NEW w \in Writers, Write(w)
    PROVE  /\ Written' = Written \/ Written' = Written \cup {stamped[w]}
           /\ \A f \in Files' : IsInjective(file'[f])
           /\ \A f, g \in Files' : f # g => ToSet(file'[f]) \cap ToSet(file'[g]) = {}
           /\ Files' = Files
           /\ \A f \in Files : file'[f] = file[f] \/ file'[f] = Append(file[f], stamped[w])
<1>1. CASE open = None
  <2>1. file' = file
    BY <1>1 DEF Write
  <2> QED
    BY <2>1, WrittenStays DEF FreshInv
<1>2. CASE open # None
  <2> DEFINE e == stamped[w]
  <2>1. /\ open \in Files /\ file' = [file EXCEPT ![open] = Append(@, e)]
        /\ e \in Entry /\ e \notin Written
    BY <1>2 DEF Write, FileInv, StampInv, FreshInv
  <2>2. file[open] \in Seq(Entry)
    BY <2>1 DEF FileInv, Files
  <2> HIDE DEF e
  <2>3. /\ Files' = Files /\ file'[open] = Append(file[open], e)
        /\ \A f \in Files : f # open => file'[f] = file[f]
    BY <2>1, <2>2 DEF FileInv, Files
  <2>4. /\ ToSet(file'[open]) = ToSet(file[open]) \cup {e}
        /\ IsInjective(file'[open]) <=> IsInjective(file[open]) /\ e \notin ToSet(file[open])
    BY <2>1, <2>2, <2>3, SetAppend
  <2>5. \A f \in Files : e \notin ToSet(file[f])
    BY <2>1 DEF Written
  <2>6. Written' = Written \cup {e}
    BY <2>1, <2>3, <2>4 DEF Written
  <2>7. \A f \in Files' : IsInjective(file'[f])
    BY <2>1, <2>3, <2>4, <2>5 DEF FreshInv
  <2>8. ASSUME NEW f \in Files', NEW g \in Files', f # g
        PROVE  ToSet(file'[f]) \cap ToSet(file'[g]) = {}
    <3>1. ToSet(file[f]) \cap ToSet(file[g]) = {} /\ f \in Files /\ g \in Files
      BY <2>3, <2>8 DEF FreshInv
    <3>2. e \notin ToSet(file[f]) /\ e \notin ToSet(file[g])
      BY <2>5, <3>1
    <3>3. ToSet(file'[f]) \subseteq ToSet(file[f]) \cup {e}
          /\ (f # open => ToSet(file'[f]) = ToSet(file[f]))
      BY <2>3, <2>4, <3>1
    <3>4. ToSet(file'[g]) \subseteq ToSet(file[g]) \cup {e}
          /\ (g # open => ToSet(file'[g]) = ToSet(file[g]))
      BY <2>3, <2>4, <3>1
    <3> QED
      BY <2>8, <3>1, <3>2, <3>3, <3>4
  <2>9. \A f \in Files : file'[f] = file[f] \/ file'[f] = Append(file[f], e)
    BY <2>3
  <2> QED
    BY <2>3, <2>6, <2>7, <2>8, <2>9 DEF e
<1> QED
  BY <1>1, <1>2

LEMMA FreshInit == LogsAssumption /\ Init => FreshInv
<1> SUFFICES ASSUME LogsAssumption, Init PROVE FreshInv
  OBVIOUS
<1>1. Files = {} /\ \A w \in Writers : stamped[w] = None
  BY DEF Init, Files
<1>2. Written = {}
  BY <1>1 DEF Written
<1> QED
  BY <1>1, <1>2 DEF FreshInv

(* A new entry is later than all others. *)
LEMMA FreshStamp ==
    ASSUME LogsAssumption, StampInv, FreshInv, NEW w \in Writers, Stamp(w), file' = file,
           run' \in {run, run + 1}
    PROVE  FreshInv'
<1> DEFINE e == [time |-> clock + 1, stream |-> StreamOf(w), run |-> run]
<1>1. /\ clock \in Nat /\ run \in Nat /\ clock' = clock + 1
      /\ stamped' = [stamped EXCEPT ![w] = e]
  BY DEF Stamp, StampInv, LogsAssumption
<1>2. e.time = clock + 1 /\ e.run = run
  OBVIOUS
<1> HIDE DEF e
<1>3. Written' = Written /\ Files' = Files
  BY WrittenStays
<1>4. stamped'[w] = e /\ \A v \in Writers \ {w} : stamped'[v] = stamped[v]
  BY <1>1 DEF StampInv
<1>5. Past(e, clock', run')
  BY <1>1, <1>2 DEF Past
<1>6. \A x : Past(x, clock, run) => Past(x, clock', run') /\ x # e
  BY <1>1, <1>2 DEF Past
<1>7. /\ \A x \in Written' : Past(x, clock', run')
      /\ \A v \in Writers : stamped'[v] # None =>
            Past(stamped'[v], clock', run') /\ stamped'[v] \notin Written'
  BY <1>3, <1>4, <1>5, <1>6 DEF FreshInv
<1>8. \A u, v \in Writers : stamped'[u] # None /\ stamped'[u] = stamped'[v] => u = v
  BY <1>4, <1>6 DEF FreshInv
<1> QED
  BY <1>3, <1>7, <1>8 DEF FreshInv

(* Entries go to a file, or to nowhere, one by one. *)
LEMMA FreshWrite ==
    ASSUME LogsAssumption, StampInv, FileInv, FreshInv, NEW w \in Writers, Write(w)
    PROVE  FreshInv'
<1>1. /\ stamped[w] # None /\ stamped'[w] = None /\ UNCHANGED <<clock, run>>
      /\ \A v \in Writers \ {w} : stamped'[v] = stamped[v]
  BY DEF Write, StampInv
<1>2. \A x \in Written' : x \in Written \/ x = stamped[w]
  BY WrittenGrows
<1>3. \A x \in Written' : Past(x, clock', run')
  BY <1>1, <1>2 DEF FreshInv
<1>4. ASSUME NEW v \in Writers, stamped'[v] # None
      PROVE  Past(stamped'[v], clock', run') /\ stamped'[v] \notin Written'
  <2>1. v # w /\ stamped'[v] = stamped[v] /\ stamped[v] # stamped[w]
    BY <1>1, <1>4 DEF FreshInv
  <2> QED
    BY <1>1, <1>2, <1>4, <2>1 DEF FreshInv
<1>5. \A u, v \in Writers : stamped'[u] # None /\ stamped'[u] = stamped'[v] => u = v
  BY <1>1 DEF FreshInv
<1> QED
  BY <1>3, <1>4, <1>5, WrittenGrows DEF FreshInv

(* Entries that are lost with their writer. *)
LEMMA FreshLoses ==
    ASSUME FreshInv, UNCHANGED <<clock, run>>, Written' = Written,
           \A f \in Files' : IsInjective(file'[f]),
           \A f, g \in Files' : f # g => ToSet(file'[f]) \cap ToSet(file'[g]) = {},
           \A w \in Writers : stamped'[w] \in {None, stamped[w]}
    PROVE  FreshInv'
BY DEF FreshInv

LEMMA FreshStep ==
    ASSUME LogsAssumption, StampInv, FileInv, FreshInv, Supervisor
    PROVE  FreshInv'
<1>0. "loop" \in Writers /\ "health" \in Writers /\ Captured \subseteq Writers /\ run \in Nat
  BY DEF Writers, LogsAssumption, StampInv
<1>1. ASSUME NEW w \in Writers, Write(w) PROVE FreshInv'
  BY <1>1, FreshWrite
<1>2. ASSUME NEW w \in Writers, Capture(w) PROVE FreshInv'
  <2>1. Stamp(w) /\ file' = file /\ run' = run
    BY <1>2 DEF Capture, log
  <2> QED
    BY <2>1, FreshStamp
<1>3. CASE HealthEvent
  <2>1. Stamp("health") /\ file' = file /\ run' = run
    BY <1>3 DEF HealthEvent, log
  <2> QED
    BY <1>0, <2>1, FreshStamp
<1>4. CASE StartChild \/ StartFails
  <2>1. Stamp("loop") /\ file' = file /\ run' = run + 1
    BY <1>4 DEF StartChild, StartFails, log
  <2> QED
    BY <1>0, <2>1, FreshStamp
<1>5. CASE RestartLater \/ RecordExit
  <2>1. Stamp("loop") /\ file' = file /\ run' = run
    BY <1>5 DEF RestartLater, RecordExit, log
  <2> QED
    BY <1>0, <2>1, FreshStamp
<1>6. CASE \/ WriteStartTime \/ ChildEnds \/ Returns \/ NoRotation \/ BeginRotation \/ RotateLog
           \/ StoppedInDelay \/ Killed \/ RemovesItself \/ RequestRemoves
  <2>1. file' = file /\ UNCHANGED <<clock, run>>
    BY <1>6 DEF WriteStartTime, ChildEnds, Returns, NoRotation, BeginRotation, RotateLog,
                StoppedInDelay, Killed, RemovesItself, RequestRemoves, RemoveTask, CloseLog, log
  <2>2. \A w \in Writers : stamped'[w] \in {None, stamped[w]}
    BY <1>6 DEF WriteStartTime, ChildEnds, Returns, NoRotation, BeginRotation, RotateLog,
                StoppedInDelay, Killed, RemovesItself, RequestRemoves, RemoveTask, StampInv
  <2>3. Written' = Written /\ Files' = Files
    BY <2>1, WrittenStays
  <2> QED
    BY <2>1, <2>2, <2>3, FreshLoses DEF FreshInv
<1>7. CASE Reopen \/ NewSupervisor
  <2>1. OpenLog /\ UNCHANGED <<clock, run, stamped>>
    BY <1>7 DEF Reopen, NewSupervisor
  <2> QED
    BY <2>1, WrittenOpens, FreshLoses
<1> QED
  BY <1>1, <1>2, <1>3, <1>4, <1>5, <1>6, <1>7 DEF Supervisor

-----------------------------------------------------------------------------
(* The start of a child on record.                                         *)

(* Start s tells output of its child, and of later ones, from that of      *)
(* earlier ones.                                                           *)
Tells(s, e) == e.stream = "o" => (e.time >= s.time <=> e.run >= s.run)

(* It does so for what is written, wr, and for what is stamped, st.        *)
Separates(s, wr, st, t, k) ==
    s # NoStart =>
        /\ s.time \in Nat /\ s.time <= t /\ s.run \in Nat /\ s.run <= k
        /\ \A e \in wr : Tells(s, e)
        /\ \A w \in Writers : st[w] # None => Tells(s, st[w])

(* All output of earlier children is written, and younger than the start   *)
(* that the loop has taken and is about to record.                         *)
StartInv ==
    /\ Separates(start, Written, stamped, clock, run)
    /\ sup = "timing" =>
          /\ stamped["loop"].time \in Nat /\ stamped["loop"].time <= clock
          /\ \A e \in Written : e.stream = "o" => e.time < stamped["loop"].time /\ e.run < run

LEMMA StartInit == Init => StartInv
BY DEF Init, StartInv, Separates

(* What a start tells of new entries, whichever it is. *)
LEMMA SeparatesStamp ==
    ASSUME LogsAssumption, StampInv, NEW w \in Writers, Stamp(w), file' = file,
           run' = run \/ (run' = run + 1 /\ w = "loop"),
           NEW s, Separates(s, Written, stamped, clock, run)
    PROVE  Separates(s, Written', stamped', clock', run')
<1> DEFINE e == [time |-> clock + 1, stream |-> StreamOf(w), run |-> run]
<1>1. /\ clock \in Nat /\ run \in Nat /\ clock' = clock + 1
      /\ stamped' = [stamped EXCEPT ![w] = e]
  BY DEF Stamp, StampInv, LogsAssumption
<1>2. e.time = clock + 1 /\ e.run = run
  OBVIOUS
<1> HIDE DEF e
<1>3. stamped'[w] = e /\ \A v \in Writers \ {w} : stamped'[v] = stamped[v]
  BY <1>1 DEF StampInv
<1>4. Written' = Written
  BY WrittenStays
<1> SUFFICES ASSUME s # NoStart
             PROVE  /\ s.time \in Nat /\ s.time <= clock' /\ s.run \in Nat /\ s.run <= run'
                    /\ \A x \in Written' : Tells(s, x)
                    /\ \A v \in Writers : stamped'[v] # None => Tells(s, stamped'[v])
  BY DEF Separates
<1>5. /\ s.time \in Nat /\ s.time <= clock /\ s.run \in Nat /\ s.run <= run
      /\ \A x \in Written : Tells(s, x)
      /\ \A v \in Writers : stamped[v] # None => Tells(s, stamped[v])
  BY DEF Separates
<1>6. Tells(s, e)
  BY <1>1, <1>2, <1>5 DEF Tells
<1>7. run' \in Nat /\ run <= run'
  BY <1>1
<1> QED
  BY <1>1, <1>3, <1>4, <1>5, <1>6, <1>7

(* An entry that is written, or lost, keeps what it is. *)
LEMMA SeparatesKeeps ==
    ASSUME UNCHANGED <<clock, run>>,
           \A e \in Written' : e \in Written \/ \E w \in Writers : stamped[w] # None /\ e = stamped[w],
           \A w \in Writers : stamped'[w] \in {None, stamped[w]},
           NEW s, Separates(s, Written, stamped, clock, run)
    PROVE  Separates(s, Written', stamped', clock', run')
BY DEF Separates

(* What all steps of the supervisor do to entries. *)
Entering == \E w \in Writers : /\ Stamp(w) /\ file' = file
                               /\ run' = run \/ (run' = run + 1 /\ w = "loop")

Passing ==
    /\ UNCHANGED <<clock, run>>
    /\ \A e \in Written' : e \in Written \/ \E w \in Writers : stamped[w] # None /\ e = stamped[w]
    /\ \A w \in Writers : stamped'[w] \in {None, stamped[w]}

LEMMA EntersOrPasses ==
    ASSUME LogsAssumption, StampInv, FileInv, FreshInv, Supervisor
    PROVE  Entering \/ Passing
<1>0. "loop" \in Writers /\ "health" \in Writers /\ Captured \subseteq Writers
  BY DEF Writers, LogsAssumption
<1>1. ASSUME NEW w \in Writers, Write(w) PROVE Passing
  <2>1. /\ stamped[w] # None /\ UNCHANGED <<clock, run>>
        /\ \A v \in Writers : stamped'[v] \in {None, stamped[v]}
    BY <1>1 DEF Write, StampInv
  <2>2. \A e \in Written' : e \in Written \/ e = stamped[w]
    BY <1>1, WrittenGrows
  <2> QED
    BY <2>1, <2>2 DEF Passing
<1>2. CASE \/ \E w \in Writers : Capture(w)
           \/ HealthEvent \/ StartChild \/ StartFails \/ RestartLater \/ RecordExit
  BY <1>0, <1>2 DEF Entering, Capture, HealthEvent, StartChild, StartFails, RestartLater,
                    RecordExit, log
<1>3. CASE \/ WriteStartTime \/ ChildEnds \/ Returns \/ NoRotation \/ BeginRotation \/ RotateLog
           \/ StoppedInDelay \/ Killed \/ RemovesItself \/ RequestRemoves
  <2>1. file' = file /\ UNCHANGED <<clock, run>>
    BY <1>3 DEF WriteStartTime, ChildEnds, Returns, NoRotation, BeginRotation, RotateLog,
                StoppedInDelay, Killed, RemovesItself, RequestRemoves, RemoveTask, CloseLog, log
  <2>2. \A w \in Writers : stamped'[w] \in {None, stamped[w]}
    BY <1>3 DEF WriteStartTime, ChildEnds, Returns, NoRotation, BeginRotation, RotateLog,
                StoppedInDelay, Killed, RemovesItself, RequestRemoves, RemoveTask, StampInv
  <2> QED
    BY <2>1, <2>2, WrittenStays DEF Passing
<1>4. CASE Reopen \/ NewSupervisor
  <2>1. OpenLog /\ UNCHANGED <<clock, run, stamped>>
    BY <1>4 DEF Reopen, NewSupervisor
  <2> QED
    BY <2>1, WrittenOpens DEF Passing
<1> QED
  BY <1>1, <1>2, <1>3, <1>4 DEF Supervisor

LEMMA SeparatesStep ==
    ASSUME LogsAssumption, StampInv, FileInv, FreshInv, Supervisor,
           NEW s, Separates(s, Written, stamped, clock, run)
    PROVE  Separates(s, Written', stamped', clock', run')
<1>1. CASE Entering
  BY <1>1, SeparatesStamp DEF Entering
<1>2. CASE Passing
  BY <1>2, SeparatesKeeps DEF Passing
<1> QED
  BY <1>1, <1>2, EntersOrPasses

(* The record is made while no output is on its way, and no child runs     *)
(* that could add to it.                                                   *)
LEMMA StartStep ==
    ASSUME LogsAssumption, StampInv, FileInv, FreshInv, StartInv, Supervisor
    PROVE  StartInv'
<1>0. "loop" \in Writers /\ run \in Nat /\ clock \in Nat
  BY DEF Writers, StampInv
<1>1. CASE StartChild
  <2>1. start' = NoStart /\ run' = run + 1 /\ Stamp("loop") /\ file' = file
    BY <1>1 DEF StartChild, log
  <2>2. Separates(start', Written', stamped', clock', run')
    BY <2>1 DEF Separates
  <2>3. stamped'["loop"].time = clock + 1 /\ clock' = clock + 1
    BY <1>0, <2>1 DEF Stamp, StampInv
  <2>4. Written' = Written
    BY <2>1, WrittenStays
  <2>5. \A e \in Written : e.time < clock + 1 /\ e.run < run + 1
    BY <1>0 DEF FreshInv, Past
  <2> QED
    BY <1>0, <2>1, <2>2, <2>3, <2>4, <2>5 DEF StartInv
<1>2. CASE WriteStartTime
  <2> DEFINE s == [time |-> stamped["loop"].time, run |-> run]
  <2>1. start' = s /\ UNCHANGED <<file, clock, run>> /\ sup = "timing" /\ sup' = "running"
    BY <1>2 DEF WriteStartTime, log
  <2>2. Written' = Written
    BY <2>1, WrittenStays
  <2>3. \A w \in Writers : stamped'[w] \in {None, stamped[w]}
    BY <1>2 DEF WriteStartTime, StampInv
  <2>4. \A e \in Written : Tells(s, e)
    <3> SUFFICES ASSUME NEW e \in Written, e.stream = "o" PROVE e.time >= s.time <=> e.run >= s.run
      BY DEF Tells
    <3>1. e.time < s.time /\ e.run < s.run
      BY <2>1 DEF StartInv
    <3>2. e.time \in Nat /\ e.run \in Nat /\ s.time \in Nat /\ s.run \in Nat
      BY <1>0, <2>1 DEF FreshInv, Past, StartInv
    <3> QED
      BY <3>1, <3>2
  <2>5. \A w \in Writers : stamped[w] # None => Tells(s, stamped[w])
    <3>1. ASSUME NEW w \in Writers, stamped[w] # None PROVE stamped[w].stream = "x"
      BY <2>1, <3>1 DEF StampInv, StreamOf
    <3> QED
      BY <3>1 DEF Tells
  <2>6. s.time \in Nat /\ s.time <= clock /\ s.run \in Nat /\ s.run <= run
    BY <1>0, <2>1 DEF StartInv
  <2> HIDE DEF s
  <2>7. Separates(start', Written', stamped', clock', run')
    BY <2>1, <2>2, <2>3, <2>4, <2>5, <2>6 DEF Separates
  <2> QED
    BY <2>1, <2>7 DEF StartInv
<1>3. CASE start' = start /\ sup' # "timing"
  BY <1>3, SeparatesStep DEF StartInv
<1>4. CASE start' = start /\ sup = "timing" /\ UNCHANGED <<run, stamped["loop"]>> /\ clock' \in Nat
           /\ clock <= clock'
           /\ \A e \in Written' : e \in Written \/ e.stream = "x"
  <2>1. Separates(start', Written', stamped', clock', run')
    BY <1>4, SeparatesStep DEF StartInv
  <2>2. /\ stamped'["loop"].time \in Nat /\ stamped'["loop"].time <= clock'
        /\ \A e \in Written' : e.stream = "o" => e.time < stamped'["loop"].time /\ e.run < run'
    BY <1>0, <1>4 DEF StartInv
  <2> QED
    BY <2>1, <2>2 DEF StartInv
<1>5. ASSUME NEW w \in Writers, Write(w) PROVE StartInv'
  <2>1. start' = start /\ sup' = sup /\ UNCHANGED <<run, clock>>
    BY <1>5 DEF Write, marks
  <2>2. CASE sup # "timing"
    BY <1>3, <2>1, <2>2
  <2>3. CASE sup = "timing"
    <3>1. w # "loop" /\ stamped[w] # None /\ stamped'["loop"] = stamped["loop"]
      BY <1>0, <1>5, <2>3 DEF Write, StampInv
    <3>2. stamped[w].stream = "x"
      BY <2>3, <3>1 DEF StampInv, StreamOf
    <3>3. \A e \in Written' : e \in Written \/ e.stream = "x"
      BY <1>5, <3>2, WrittenGrows
    <3> QED
      BY <1>0, <1>4, <2>1, <2>3, <3>1, <3>3
  <2> QED
    BY <2>2, <2>3
<1>6. CASE HealthEvent
  <2>1. /\ start' = start /\ sup' = sup /\ run' = run /\ clock' = clock + 1 /\ file' = file
        /\ stamped'["loop"] = stamped["loop"]
    BY <1>0, <1>6 DEF HealthEvent, marks, log, Stamp, StampInv
  <2>2. Written' = Written
    BY <2>1, WrittenStays
  <2> QED
    BY <1>0, <1>3, <1>4, <2>1, <2>2
<1>7. CASE \E w \in Writers : Capture(w)
  BY <1>3, <1>7 DEF Capture, marks
<1>8. CASE \/ ChildEnds \/ RestartLater \/ RecordExit \/ Returns \/ NoRotation \/ BeginRotation
           \/ Killed \/ StartFails
  BY <1>3, <1>8 DEF ChildEnds, RestartLater, RecordExit, Returns, NoRotation, BeginRotation,
                    Killed, StartFails, marks
<1>9. CASE RotateLog \/ Reopen \/ StoppedInDelay \/ NewSupervisor
  BY <1>3, <1>9 DEF RotateLog, Reopen, StoppedInDelay, NewSupervisor, marks
<1>10. CASE RemovesItself \/ RequestRemoves
  BY <1>10 DEF RemovesItself, RequestRemoves, RemoveTask, StartInv, Separates
<1> QED
  BY <1>1, <1>2, <1>5, <1>6, <1>7, <1>8, <1>9, <1>10 DEF Supervisor

-----------------------------------------------------------------------------
(* Readers: what a record of a reader holds.                               *)

ReadStates == {"idle", "list", "first", "read", "shown", "no logs", "opened", "follow", "ended"}

ReaderRec ==
    [at : ReadStates,
     ask : [stream : {"all", "o", "e"}, tail : Int, all : BOOLEAN, since : BOOLEAN],
     start : [time : Int \cup {None}, run : 0..MaxRuns], since : Int \cup {None},
     next : Nat, files : Seq(Paths), entries : Seq(Entry), seen : Seq(Entry),
     moved : BOOLEAN, inode : Nat \cup {None}, pos : Nat]

(* What a reader of the files fs, in which wr is written, holds at every   *)
(* step, whatever is rotated meanwhile.                                    *)
Holds(x, fs, wr) ==
    /\ x.at \in {"idle", "list", "first", "no logs", "ended"} => x.entries = <<>>
    /\ x.at = "idle" => x.next = 0 /\ x.files = <<>>
    /\ x.at = "list" => x.next \in Paths
    /\ x.at \in {"first", "read"} => x.files # <<>>
    /\ x.at \in {"opened", "follow"} => x.inode \in fs
    /\ x.inode = None \/ x.inode \in fs
    /\ ToSet(x.entries) \subseteq wr /\ ToSet(x.seen) \subseteq wr
    /\ x.at \in {"idle", "list", "first", "read", "shown"} /\ ~x.ask.since => x.since = x.start.time

LEMMA NoReadTypes ==
    ASSUME LogsAssumption
    PROVE  NoRead \in ReaderRec
<1>1. /\ [stream |-> "all", tail |-> -1, all |-> TRUE, since |-> FALSE]
            \in [stream : {"all", "o", "e"}, tail : Int, all : BOOLEAN, since : BOOLEAN]
      /\ NoStart \in [time : Int \cup {None}, run : 0..MaxRuns]
      /\ <<>> \in Seq(Paths) /\ <<>> \in Seq(Entry) /\ FALSE \in BOOLEAN
  BY DEF NoStart, LogsAssumption
<1> QED
  BY <1>1 DEF NoRead, ReaderRec, ReadStates

LEMMA NoReadHolds == \A fs, wr : Holds(NoRead, fs, wr)
<1>1. ToSet(<<>>) = {}
  BY DEF ToSet
<1> QED
  BY <1>1 DEF NoRead, Holds, NoStart

(* More files and more entries do a reader no harm. *)
LEMMA HoldsMore ==
    ASSUME NEW x, NEW fs, NEW gs, NEW wr, NEW vr,
           Holds(x, fs, wr), fs \subseteq gs, wr \subseteq vr
    PROVE  Holds(x, gs, vr)
<1>1. /\ x.at \in {"opened", "follow"} => x.inode \in gs
      /\ x.inode = None \/ x.inode \in gs
      /\ ToSet(x.entries) \subseteq vr /\ ToSet(x.seen) \subseteq vr
  BY DEF Holds
<1> QED
  BY <1>1 DEF Holds

LEMMA HoldsMoved ==
    ASSUME NEW x \in ReaderRec, NEW fs, NEW wr, Holds(x, fs, wr)
    PROVE  /\ Holds([x EXCEPT !.moved = TRUE], fs, wr)
           /\ [x EXCEPT !.moved = TRUE] \in ReaderRec
<1> DEFINE y == [x EXCEPT !.moved = TRUE]
<1>1. y \in ReaderRec
  BY DEF ReaderRec
<1>2. /\ y.at = x.at /\ y.ask = x.ask /\ y.start = x.start /\ y.since = x.since /\ y.next = x.next
      /\ y.files = x.files /\ y.entries = x.entries /\ y.seen = x.seen /\ y.inode = x.inode
  BY DEF ReaderRec
<1> HIDE DEF y
<1>3. Holds(y, fs, wr)
  BY <1>2 DEF Holds
<1> QED
  BY <1>1, <1>3 DEF y

-----------------------------------------------------------------------------
(* The last entries of a list. *)

LEMMA LastOfIs ==
    ASSUME NEW A, NEW s \in Seq(A), NEW tail \in Int
    PROVE  /\ tail < 0 \/ Len(s) <= tail => LastOf(s, tail) = s
           /\ tail >= 0 /\ Len(s) > tail =>
                 LastOf(s, tail) = SubSeq(s, Len(s) - tail + 1, Len(s))
BY DEF LastOf

LEMMA LastOfAt ==
    ASSUME NEW A, NEW s \in Seq(A), NEW tail \in Nat, Len(s) >= tail
    PROVE  /\ LastOf(s, tail) \in Seq(A) /\ Len(LastOf(s, tail)) = tail
           /\ \A k \in 1..tail : LastOf(s, tail)[k] = s[Len(s) - tail + k]
<1>0. Len(s) \in Nat /\ tail \in Int
  OBVIOUS
<1>1. CASE Len(s) = tail
  <2>1. LastOf(s, tail) = s
    BY <1>0, <1>1, LastOfIs
  <2> QED
    BY <1>0, <1>1, <2>1
<1>2. CASE Len(s) > tail
  <2> DEFINE m == Len(s) - tail + 1
             t == SubSeq(s, m, Len(s))
  <2>1. LastOf(s, tail) = t
    BY <1>0, <1>2, LastOfIs
  <2>2. m \in 1..Len(s) + 1 /\ Len(s) - m + 1 = tail
    BY <1>0, <1>2
  <2>3. t \in Seq(A) /\ Len(t) = tail
    <3>1. CASE tail = 0
      BY <1>0, <2>2, <3>1
    <3>2. CASE tail # 0
      <4>1. m \in 1..Len(s) /\ Len(s) \in 1..Len(s) /\ m <= Len(s)
        BY <1>0, <1>2, <3>2
      <4> HIDE DEF m
      <4> QED
        BY <1>0, <2>2, <4>1
    <3> QED
      BY <3>1, <3>2
  <2>4. \A k \in 1..tail : t[k] = s[m + k - 1]
    BY <1>0, <2>2
  <2>5. \A k \in 1..tail : m + k - 1 = Len(s) - tail + k
    BY <1>0
  <2> QED
    BY <2>1, <2>3, <2>4, <2>5
<1> QED
  BY <1>0, <1>1, <1>2

LEMMA LastOfConcat ==
    ASSUME NEW A, NEW s \in Seq(A), NEW t \in Seq(A), NEW tail \in Nat, Len(t) >= tail
    PROVE  LastOf(s \o t, tail) = LastOf(t, tail)
<1> DEFINE u == s \o t
<1>1. /\ u \in Seq(A) /\ Len(u) = Len(s) + Len(t) /\ Len(s) \in Nat /\ Len(t) \in Nat
      /\ \A k \in 1..Len(t) : u[Len(s) + k] = t[k]
  OBVIOUS
<1> HIDE DEF u
<1>2. u \in Seq(A) /\ Len(u) >= tail
  BY <1>1
<1>3. /\ LastOf(u, tail) \in Seq(A) /\ Len(LastOf(u, tail)) = tail
      /\ \A k \in 1..tail : LastOf(u, tail)[k] = u[Len(u) - tail + k]
  BY <1>2, LastOfAt
<1>4. /\ LastOf(t, tail) \in Seq(A) /\ Len(LastOf(t, tail)) = tail
      /\ \A k \in 1..tail : LastOf(t, tail)[k] = t[Len(t) - tail + k]
  BY LastOfAt
<1>5. \A k \in 1..tail : LastOf(u, tail)[k] = LastOf(t, tail)[k]
  <2>1. ASSUME NEW k \in 1..tail PROVE u[Len(u) - tail + k] = t[Len(t) - tail + k]
    <3>1. /\ Len(t) - tail + k \in 1..Len(t)
          /\ Len(u) - tail + k = Len(s) + (Len(t) - tail + k)
      BY <1>1
    <3> QED
      BY <1>1, <3>1
  <2> QED
    BY <1>3, <1>4, <2>1
<1>6. LastOf(u, tail) = LastOf(t, tail)
  BY <1>3, <1>4, <1>5, SeqEqual
<1> QED
  BY <1>6 DEF u

LEMMA LastOfTypes ==
    ASSUME NEW A, NEW s \in Seq(A), NEW tail \in Int
    PROVE  /\ LastOf(s, tail) \in Seq(A) /\ ToSet(LastOf(s, tail)) \subseteq ToSet(s)
           /\ IsInjective(s) => IsInjective(LastOf(s, tail))
<1>1. CASE tail < 0 \/ Len(s) <= tail
  BY <1>1, LastOfIs
<1>2. CASE ~(tail < 0 \/ Len(s) <= tail)
  <2>0. tail \in Nat /\ Len(s) >= tail /\ Len(s) \in Nat /\ DOMAIN s = 1..Len(s)
    BY <1>2
  <2> DEFINE t == LastOf(s, tail)
  <2>1. /\ t \in Seq(A) /\ Len(t) = tail
        /\ \A k \in 1..tail : t[k] = s[Len(s) - tail + k]
    BY <2>0, LastOfAt
  <2> HIDE DEF t
  <2>2. DOMAIN t = 1..tail
    BY <2>1
  <2>3. \A k \in 1..tail : Len(s) - tail + k \in 1..Len(s)
    BY <2>0
  <2>7. \A k \in 1..tail : t[k] \in {s[i] : i \in 1..Len(s)}
    BY <2>1, <2>3
  <2>4. ToSet(t) \subseteq ToSet(s)
    BY <2>0, <2>2, <2>7 DEF ToSet
  <2>5. ASSUME IsInjective(s), NEW i \in 1..tail, NEW j \in 1..tail, t[i] = t[j] PROVE i = j
    <3>1. s[Len(s) - tail + i] = s[Len(s) - tail + j]
      BY <2>1, <2>5
    <3>2. Len(s) - tail + i = Len(s) - tail + j
      BY <2>0, <2>3, <2>5, <3>1 DEF IsInjective
    <3> QED
      BY <2>0, <3>2
  <2>6. IsInjective(s) => IsInjective(t)
    BY <2>2, <2>5 DEF IsInjective
  <2> QED
    BY <2>1, <2>4, <2>6 DEF t
<1> QED
  BY <1>1, <1>2

LEMMA SelectNone ==
    ASSUME NEW A, NEW s \in Seq(A), NEW S, ToSet(s) \cap S = {}
    PROVE  Select(s, S) = <<>>
<1>1. Select(s, S) \in Seq(A) /\ ToSet(Select(s, S)) = {}
  BY SelectTypes, SelectSet
<1> DEFINE t == Select(s, S)
<1> HIDE DEF t
<1>2. t \in Seq(A) /\ ToSet(t) = {} => t = <<>>
  <2>1. t \in Seq(A) /\ Len(t) # 0 => t[1] \in ToSet(t)
    BY DEF ToSet
  <2> QED
    BY <2>1
<1> QED
  BY <1>1, <1>2 DEF t

-----------------------------------------------------------------------------
(* A reader that nothing has disturbed.                                    *)

(* The paths from lo on and before hi where pt has a file, in order.       *)
Lists(files, lo, hi, pt) ==
    /\ \A i, j \in 1..Len(files) : i < j => files[i] < files[j]
    /\ \A i \in 1..Len(files) : lo <= files[i] /\ files[i] < hi /\ pt[files[i]] # None
    /\ \A n \in Paths : lo <= n /\ n < hi /\ pt[n] # None => \E i \in 1..Len(files) : files[i] = n

LEMMA ListsNone == \A pt : Lists(<<>>, 0, 0, pt)
BY DEF Lists, Paths

(* One look at a path. *)
LEMMA ListsOne ==
    ASSUME LogsAssumption, NEW files \in Seq(Paths), NEW n \in Paths, NEW pt,
           Lists(files, 0, n, pt)
    PROVE  /\ pt[n] = None => Lists(files, 0, n + 1, pt)
           /\ pt[n] # None => Lists(Append(files, n), 0, n + 1, pt)
           /\ Append(files, n) \in Seq(Paths) /\ Append(files, n) # <<>>
<1>0. \A i \in 1..Len(files) : files[i] \in Nat /\ files[i] \in Paths
  BY DEF Paths
<1>1. n \in Nat /\ \A m \in Paths : m < n + 1 => m < n \/ m = n
  BY DEF Paths
<1>2. ASSUME pt[n] = None PROVE Lists(files, 0, n + 1, pt)
  BY <1>0, <1>1, <1>2 DEF Lists
<1>3. ASSUME pt[n] # None PROVE Lists(Append(files, n), 0, n + 1, pt)
  <2> DEFINE g == Append(files, n)
  <2>1. /\ Len(g) = Len(files) + 1 /\ Len(files) \in Nat /\ g[Len(files) + 1] = n
        /\ \A i \in 1..Len(files) : g[i] = files[i]
    OBVIOUS
  <2> HIDE DEF g
  <2>2. \A i \in 1..Len(g) : i \in 1..Len(files) \/ i = Len(files) + 1
    BY <2>1
  <2>3. \A i \in 1..Len(g) : 0 <= g[i] /\ g[i] < n + 1 /\ pt[g[i]] # None
    BY <1>0, <1>1, <1>3, <2>1, <2>2 DEF Lists
  <2>4. \A i, j \in 1..Len(g) : i < j => g[i] < g[j]
    <3> SUFFICES ASSUME NEW i \in 1..Len(g), NEW j \in 1..Len(g), i < j PROVE g[i] < g[j]
      OBVIOUS
    <3>1. i \in 1..Len(files)
      BY <2>1, <2>2
    <3>2. CASE j \in 1..Len(files)
      BY <2>1, <3>1, <3>2 DEF Lists
    <3>3. CASE j = Len(files) + 1
      BY <2>1, <3>1, <3>3 DEF Lists
    <3> QED
      BY <2>2, <3>2, <3>3
  <2>5. ASSUME NEW m \in Paths, 0 <= m, m < n + 1, pt[m] # None PROVE \E i \in 1..Len(g) : g[i] = m
    <3>1. CASE m < n
      <4>1. PICK i \in 1..Len(files) : files[i] = m
        BY <2>5, <3>1 DEF Lists
      <4>2. i \in 1..Len(g) /\ g[i] = m
        BY <2>1, <4>1
      <4> QED
        BY <4>2
    <3>2. CASE m = n
      <4>1. Len(files) + 1 \in 1..Len(g)
        BY <2>1
      <4> QED
        BY <2>1, <3>2, <4>1
    <3> QED
      BY <1>1, <2>5, <3>1, <3>2
  <2>6. Lists(g, 0, n + 1, pt)
    BY <2>3, <2>4, <2>5 DEF Lists
  <2> QED
    BY <2>6 DEF g
<1>4. Append(files, n) \in Seq(Paths) /\ Append(files, n) # <<>>
  OBVIOUS
<1> QED
  BY <1>2, <1>3, <1>4

(* The file that is read next is the newest of those that are listed.      *)
LEMMA ListsHead ==
    ASSUME LogsAssumption, NEW p \in Paths, NEW files \in Seq(Paths), files # <<>>, NEW pt,
           Lists(files, p, MaxLogFiles + 1, pt)
    PROVE  /\ Head(files) \in Paths /\ Head(files) >= p /\ pt[Head(files)] # None
           /\ \A n \in p..Head(files) - 1 : pt[n] = None
           /\ Tail(files) \in Seq(Paths)
           /\ Lists(Tail(files), Head(files) + 1, MaxLogFiles + 1, pt)
           /\ Tail(files) = <<>> => \A n \in Head(files) + 1..MaxLogFiles : pt[n] = None
           /\ Tail(files) # <<>> => Head(files) + 1 \in 1..MaxLogFiles
<1> DEFINE q == files[1]
           g == Tail(files)
<1>0. /\ Len(files) \in Nat /\ Len(files) >= 1 /\ Head(files) = q /\ p \in Nat /\ MaxLogFiles \in Nat
      /\ \A i \in 1..Len(files) : files[i] \in Paths /\ files[i] \in Nat
  BY DEF Paths, LogsAssumption
<1>1. /\ g \in Seq(Paths) /\ Len(g) = Len(files) - 1
      /\ \A i \in 1..Len(g) : g[i] = files[i + 1] /\ i + 1 \in 1..Len(files)
  BY <1>0, HeadTailProperties
<1>2. q \in Paths /\ q \in Nat /\ q >= p /\ pt[q] # None
  BY <1>0 DEF Lists
<1>3. \A i \in 1..Len(files) : i # 1 => q < files[i]
  BY <1>0 DEF Lists
<1> HIDE DEF g
<1>4. ASSUME NEW n \in p..q - 1 PROVE pt[n] = None
  <2>1. SUFFICES ASSUME pt[n] # None PROVE FALSE
    OBVIOUS
  <2>2. n \in Paths /\ n < q /\ p <= n /\ n < MaxLogFiles + 1 /\ n \in Nat
    BY <1>0, <1>2 DEF Paths
  <2>3. PICK i \in 1..Len(files) : files[i] = n
    BY <2>1, <2>2 DEF Lists
  <2>4. i # 1 => q < n
    BY <1>3, <2>3
  <2>5. i = 1 => q = n
    BY <2>3
  <2> QED
    BY <1>2, <2>2, <2>4, <2>5
<1>5. ASSUME NEW n \in Paths, q + 1 <= n, n < MaxLogFiles + 1, pt[n] # None
      PROVE  \E i \in 1..Len(g) : g[i] = n
  <2>1. p <= n /\ n \in Nat
    BY <1>2, <1>0, <1>5 DEF Paths
  <2>2. PICK i \in 1..Len(files) : files[i] = n
    BY <1>5, <2>1 DEF Lists
  <2>3. i # 1
    BY <1>2, <1>5, <2>1, <2>2
  <2>4. i - 1 \in 1..Len(g) /\ (i - 1) + 1 = i
    BY <1>0, <1>1, <2>3
  <2>5. g[i - 1] = n
    BY <1>1, <2>2, <2>4
  <2> QED
    BY <2>4, <2>5
<1>6. Lists(g, q + 1, MaxLogFiles + 1, pt)
  <2>1. \A i, j \in 1..Len(g) : i < j => g[i] < g[j]
    <3> SUFFICES ASSUME NEW i \in 1..Len(g), NEW j \in 1..Len(g), i < j PROVE g[i] < g[j]
      OBVIOUS
    <3>1. i + 1 < j + 1 /\ i + 1 \in 1..Len(files) /\ j + 1 \in 1..Len(files)
      BY <1>1
    <3> QED
      BY <1>1, <3>1 DEF Lists
  <2>2. \A i \in 1..Len(g) : q + 1 <= g[i] /\ g[i] < MaxLogFiles + 1 /\ pt[g[i]] # None
    <3> SUFFICES ASSUME NEW i \in 1..Len(g)
                 PROVE  q + 1 <= g[i] /\ g[i] < MaxLogFiles + 1 /\ pt[g[i]] # None
      OBVIOUS
    <3>1. i + 1 \in 1..Len(files) /\ i + 1 # 1 /\ g[i] = files[i + 1]
      BY <1>1
    <3> QED
      BY <1>0, <1>2, <1>3, <3>1 DEF Lists
  <2> QED
    BY <1>5, <2>1, <2>2 DEF Lists
<1>7. ASSUME g = <<>>, NEW n \in q + 1..MaxLogFiles PROVE pt[n] = None
  <2>1. n \in Paths /\ q + 1 <= n /\ n < MaxLogFiles + 1
    BY <1>0, <1>2 DEF Paths
  <2>2. 1..Len(g) = {}
    BY <1>7
  <2> QED
    BY <1>5, <2>1, <2>2
<1>8. ASSUME g # <<>> PROVE q + 1 \in 1..MaxLogFiles
  <2>1. 1 \in 1..Len(g)
    BY <1>1, <1>8
  <2>2. q + 1 <= g[1] /\ g[1] \in Paths
    BY <1>1, <1>6, <2>1 DEF Lists
  <2> QED
    BY <1>2, <1>0, <2>2 DEF Paths
<1> QED
  BY <1>0, <1>1, <1>2, <1>4, <1>6, <1>7, <1>8 DEF g

(* One more file read: what is left to read, and what has been read.       *)
LEMMA ReadsOneMore ==
    ASSUME LogsAssumption, NEW c \in [Paths -> Seq(Entry)], NEW pt,
           \A n \in Paths : pt[n] = None => c[n] = <<>>,
           NEW p \in Paths, NEW files \in Seq(Paths), files # <<>>,
           Lists(files, p, MaxLogFiles + 1, pt), NEW S \in Seq(Entry)
    PROVE  /\ Joined(c, p) \o S = Joined(c, Head(files) + 1) \o (c[Head(files)] \o S)
           /\ Tail(files) = <<>> => Joined(c, Head(files) + 1) = <<>>
<1> DEFINE q == Head(files)
<1>0. q \in Paths /\ q >= p /\ MaxLogFiles \in Nat /\ q \in Nat /\ p \in Nat
      /\ q \in 0..MaxLogFiles + 1 /\ q + 1 \in 0..MaxLogFiles + 1 /\ p \in 0..q
  <2>1. q \in Paths /\ q >= p
    BY ListsHead
  <2> HIDE DEF q
  <2> QED
    BY <2>1 DEF Paths, LogsAssumption
<1>1. \A n \in p..q - 1 : pt[n] = None
  BY ListsHead
<1>2. Tail(files) = <<>> => \A n \in q + 1..MaxLogFiles : pt[n] = None
  BY ListsHead
<1> HIDE DEF q
<1>3. \A n \in p..q - 1 : c[n] = <<>>
  <2>1. \A n \in p..q - 1 : n \in Paths
    BY <1>0 DEF Paths
  <2> QED
    BY <1>1, <2>1
<1>4. Joined(c, p) = Joined(c, q)
  BY <1>0, <1>3, JoinedSkip
<1>5. Joined(c, q) = Joined(c, q + 1) \o c[q]
  BY <1>0, JoinedSplit
<1>6. Joined(c, q + 1) \in Seq(Entry) /\ c[q] \in Seq(Entry)
  BY <1>0, JoinedTypes
<1>7. Cat(Cat(Joined(c, q + 1), c[q]), S) = Cat(Joined(c, q + 1), Cat(c[q], S))
  BY <1>6, CatAssoc
<1>8. Joined(c, p) \o S = Joined(c, q + 1) \o (c[q] \o S)
  BY <1>4, <1>5, <1>7 DEF Cat
<1>9. ASSUME Tail(files) = <<>> PROVE Joined(c, q + 1) = <<>>
  <2> DEFINE a == MaxLogFiles + 1
             b == q + 1
  <2>1. a \in 0..MaxLogFiles + 1 /\ b \in 0..a
    BY <1>0
  <2>2. \A n \in b..a - 1 : n \in q + 1..MaxLogFiles /\ n \in Paths
    BY <1>0 DEF Paths
  <2>3. \A n \in b..a - 1 : c[n] = <<>>
    BY <1>2, <1>9, <2>2
  <2> HIDE DEF a, b
  <2>4. Joined(c, b) = Joined(c, a)
    BY <2>1, <2>3, JoinedSkip
  <2> QED
    BY <2>4, JoinedNone DEF a, b
<1> QED
  BY <1>8, <1>9 DEF q

(* The scan may end where it does: what was not read adds nothing to what  *)
(* is shown.                                                               *)
LEMMA EndsExactly ==
    ASSUME LogsAssumption, NEW older \in Seq(Entry), NEW raw \in Seq(Entry), NEW S \in Seq(Entry),
           NEW ask, ask.tail \in Int, NEW since \in Int \cup {None},
           NEW R, R = Cat(raw, S), NEW seen, seen = Cat(older, R),
           since = None \/ InOrder(seen),
           NEW entries, entries = FilterEntries(R, ask, since),
           \/ raw # <<>> /\ Before(raw[1], since)
           \/ ask.tail >= 0 /\ Len(entries) >= ask.tail
           \/ older = <<>>
    PROVE  LastOf(entries, ask.tail) = LastOf(FilterEntries(seen, ask, since), ask.tail)
<1> DEFINE W == Wanted(ask, since)
           rest == raw \o S
<1>1. rest \in Seq(Entry)
  OBVIOUS
<1>2. seen = older \o rest /\ entries = Select(rest, W)
  BY DEF FilterEntries, Cat
<1> HIDE DEF W
<1>3. raw # <<>> => Len(rest) >= 1 /\ rest[1] = raw[1] /\ raw[1] \in Entry
  OBVIOUS
<1> HIDE DEF rest
<1>4. FilterEntries(seen, ask, since) = Select(seen, W)
  BY DEF FilterEntries, W
<1>5. Select(older \o rest, W) = Select(older, W) \o Select(rest, W)
  <2>1. Select(Cat(older, rest), W) = Cat(Select(older, W), Select(rest, W))
    BY <1>1, SelectCat
  <2> QED
    BY <2>1 DEF Cat
<1>6. Select(older, W) \in Seq(Entry) /\ entries \in Seq(Entry)
  BY <1>1, <1>2, SelectTypes
<1>7. Select(seen, W) = Select(older, W) \o entries
  BY <1>2, <1>5
<1>8. CASE Select(older, W) = <<>>
  <2>1. <<>> \o entries = entries
    BY <1>6, ConcatEmptySeq
  <2> QED
    BY <1>4, <1>7, <1>8, <2>1
<1>9. CASE ask.tail >= 0 /\ Len(entries) >= ask.tail
  <2>1. ask.tail \in Nat
    BY <1>9
  <2>2. LastOf(Select(older, W) \o entries, ask.tail) = LastOf(entries, ask.tail)
    BY <1>6, <1>9, <2>1, LastOfConcat
  <2> QED
    BY <1>4, <1>7, <2>2
<1>10. CASE older = <<>>
  BY <1>8, <1>10, SelectEmpty
<1>11. CASE raw # <<>> /\ Before(raw[1], since)
  <2>1. since # None /\ since \in Int /\ raw[1].time < since /\ InOrder(seen) /\ raw[1].time \in Int
    BY <1>3, <1>11 DEF Before, Entry
  <2>2. \A k \in 1..Len(older) : seen[k] = older[k] /\ older[k] \in Entry
    BY <1>1, <1>2
  <2>3. /\ Len(older) + 1 \in DOMAIN seen /\ seen[Len(older) + 1] = raw[1]
        /\ \A k \in 1..Len(older) : k \in DOMAIN seen /\ k < Len(older) + 1
    BY <1>1, <1>2, <1>3, <1>11
  <2>4. \A k \in 1..Len(older) : older[k].time < raw[1].time /\ older[k].time \in Int
    <3> SUFFICES ASSUME NEW k \in 1..Len(older)
                 PROVE  older[k].time < raw[1].time /\ older[k].time \in Int
      OBVIOUS
    <3>1. seen[k].time < seen[Len(older) + 1].time
      BY <2>1, <2>3 DEF InOrder
    <3> QED
      BY <2>2, <2>3, <3>1 DEF Entry
  <2>5. \A k \in 1..Len(older) : older[k] \notin W
    <3> SUFFICES ASSUME NEW k \in 1..Len(older) PROVE Before(older[k], since)
      BY DEF W, Wanted
    <3>1. older[k].time < since
      BY <2>1, <2>4
    <3> QED
      BY <2>1, <3>1 DEF Before
  <2>6. DOMAIN older = 1..Len(older)
    OBVIOUS
  <2>7. ToSet(older) \cap W = {}
    BY <2>5, <2>6 DEF ToSet
  <2>8. Select(older, W) = <<>>
    BY <2>7, SelectNone
  <2> QED
    BY <1>8, <2>8
<1> QED
  BY <1>9, <1>10, <1>11

-----------------------------------------------------------------------------
(* What an undisturbed reader has, and the steps of one reader.            *)

(* Read so far: the newest entries, and of those all that match.           *)
HalfRead(x, p, c) ==
    \E S \in Seq(Entry) : /\ x.seen = Cat(Joined(c, p), S)
                          /\ x.entries = FilterEntries(S, x.ask, x.since)

ShownExactly(x) ==
    x.since = None \/ InOrder(x.seen) =>
        x.entries = LastOf(FilterEntries(x.seen, x.ask, x.since), x.ask.tail)

(* A reader of the paths pt, which give the contents c, and of the files   *)
(* fl.                                                                     *)
Exact(x, pt, c, fl) ==
    /\ IsInjective(x.entries)
    /\ x.at = "list" => Lists(x.files, 0, x.next, pt)
    /\ x.at = "first" => Lists(x.files, 0, MaxLogFiles + 1, pt)
    /\ x.at = "read" =>
          /\ IsInjective(x.seen)
          /\ \E p \in 1..MaxLogFiles : Lists(x.files, p, MaxLogFiles + 1, pt) /\ HalfRead(x, p, c)
    /\ x.at = "shown" => ShownExactly(x)
    /\ x.at = "follow" =>
          \A j \in DOMAIN fl[x.inode] : j > x.pos => fl[x.inode][j] \notin ToSet(x.entries)

(* A follower is not past the end of its file. *)
Within(x, fl) == x.at = "follow" => x.pos <= Len(fl[x.inode])

Fine(x) ==
    /\ x \in ReaderRec /\ Holds(x, Files, Written) /\ Within(x, file)
    /\ ~x.moved => Exact(x, path, Contents, file)

ReaderInv ==
    /\ reader \in [Readers -> ReaderRec]
    /\ \A r \in Readers : Fine(reader[r])

(* What every reader may rely on. *)
LogInv == StampInv /\ FileInv /\ FreshInv /\ CountInv

LEMMA EmptyInjective == IsInjective(<<>>) /\ ToSet(<<>>) = {} /\ <<>> \in Seq(Entry)
BY DEF IsInjective, ToSet

LEMMA StepTo ==
    ASSUME NEW r \in Readers, reader \in [Readers -> ReaderRec], NEW s, NEW t \in ReadStates,
           NEW x \in ReaderRec, ReaderStep(r, s, t, x)
    PROVE  /\ reader'[r] \in ReaderRec /\ reader'[r].at = t
           /\ reader'[r].ask = x.ask /\ reader'[r].start = x.start /\ reader'[r].since = x.since
           /\ reader'[r].next = x.next /\ reader'[r].files = x.files
           /\ reader'[r].entries = x.entries /\ reader'[r].seen = x.seen
           /\ reader'[r].moved = x.moved /\ reader'[r].inode = x.inode /\ reader'[r].pos = x.pos
<1> DEFINE y == [x EXCEPT !.at = t]
<1>1. reader'[r] = y
  BY DEF ReaderStep
<1>2. /\ y \in ReaderRec /\ y.at = t
      /\ y.ask = x.ask /\ y.start = x.start /\ y.since = x.since
      /\ y.next = x.next /\ y.files = x.files /\ y.entries = x.entries /\ y.seen = x.seen
      /\ y.moved = x.moved /\ y.inode = x.inode /\ y.pos = x.pos
  BY DEF ReaderRec
<1> HIDE DEF y
<1> QED
  BY <1>1, <1>2

LEMMA AskStep ==
    ASSUME LogsAssumption, LogInv, ReaderInv, NEW r \in Readers, AskLogs(r)
    PROVE  Fine(reader'[r]) /\ (reader'[r].start = start \/ reader'[r].start = NoStart)
<1>1. PICK ask \in Asks :
         LET from == IF ask.all THEN NoStart ELSE start IN
         \E cutoff \in IF ask.since THEN -1..clock ELSE {None} :
            ReaderStep(r, "idle", "list",
               [reader[r] EXCEPT !.ask = ask, !.start = from,
                                 !.since = Later(from.time, cutoff)])
  BY DEF AskLogs
<1> DEFINE from == IF ask.all THEN NoStart ELSE start
<1>2. PICK cutoff \in IF ask.since THEN -1..clock ELSE {None} :
         ReaderStep(r, "idle", "list",
            [reader[r] EXCEPT !.ask = ask, !.start = from, !.since = Later(from.time, cutoff)])
  BY <1>1
<1>3. /\ ask \in [stream : {"all", "o", "e"}, tail : Int, all : BOOLEAN, since : BOOLEAN]
      /\ start \in [time : Int \cup {None}, run : 0..MaxRuns] /\ clock \in Nat
      /\ MaxRuns \in Nat /\ None \notin Int
  BY DEF LogsAssumption, LogInv, CountInv, StampInv
<1>4. from \in [time : Int \cup {None}, run : 0..MaxRuns] /\ (from = start \/ from = NoStart)
  <2>1. NoStart \in [time : Int \cup {None}, run : 0..MaxRuns]
    BY <1>3 DEF NoStart
  <2> QED
    BY <1>3, <2>1
<1> HIDE DEF from
<1>5. /\ from.time \in Int \cup {None}
      /\ cutoff \in Int \cup {None}
      /\ ask.since \in BOOLEAN
      /\ ~ask.since => cutoff = None
  BY <1>3, <1>4
<1>6. /\ Later(from.time, cutoff) \in Int \cup {None}
      /\ ~ask.since => Later(from.time, cutoff) = from.time
  BY <1>5 DEF Later
<1> DEFINE since == Later(from.time, cutoff)
           x == reader[r]
           y == [x EXCEPT !.ask = ask, !.start = from, !.since = since]
<1> HIDE DEF since
<1>7. x \in ReaderRec /\ Holds(x, Files, Written) /\ x.at = "idle"
  BY <1>2 DEF ReaderInv, Fine, ReaderStep
<1>8. since \in Int \cup {None} /\ (~ask.since => since = from.time)
  BY <1>6 DEF since
<1>9. /\ y \in ReaderRec /\ y.ask = ask /\ y.start = from /\ y.since = since
      /\ y.next = x.next /\ y.files = x.files /\ y.entries = x.entries /\ y.seen = x.seen
      /\ y.inode = x.inode /\ y.moved = x.moved
  <2> HIDE DEF x
  <2> QED
    BY <1>3, <1>4, <1>7, <1>8 DEF ReaderRec
<1>10. ReaderStep(r, "idle", "list", y)
  BY <1>2 DEF since
<1> HIDE DEF y, x
<1> DEFINE z == reader'[r]
<1>11. /\ z \in ReaderRec /\ z.at = "list"
       /\ z.ask = ask /\ z.start = from /\ z.since = since
       /\ z.next = x.next /\ z.files = x.files /\ z.entries = x.entries /\ z.seen = x.seen
       /\ z.inode = x.inode /\ z.moved = x.moved
  <2>1. reader \in [Readers -> ReaderRec] /\ "list" \in ReadStates /\ y \in ReaderRec
    BY <1>9 DEF ReaderInv, ReadStates
  <2>2. /\ z \in ReaderRec /\ z.at = "list"
        /\ z.ask = y.ask /\ z.start = y.start /\ z.since = y.since
        /\ z.next = y.next /\ z.files = y.files /\ z.entries = y.entries /\ z.seen = y.seen
        /\ z.inode = y.inode /\ z.moved = y.moved
    BY <1>10, <2>1, StepTo
  <2> QED
    BY <1>9, <2>2
<1> HIDE DEF z
<1>12. x.next = 0 /\ x.files = <<>> /\ x.entries = <<>> /\ 0 \in Paths
  BY <1>7 DEF Holds, Paths, LogsAssumption
<1>13. Holds(z, Files, Written)
  BY <1>7, <1>8, <1>11, <1>12 DEF Holds
<1>14. Exact(z, path, Contents, file)
  BY <1>11, <1>12, ListsNone, EmptyInjective DEF Exact
<1> QED
  BY <1>4, <1>11, <1>13, <1>14 DEF Fine, Within, z

LEMMA ListStep ==
    ASSUME LogsAssumption, LogInv, ReaderInv, NEW r \in Readers, ListLogFile(r)
    PROVE  Fine(reader'[r]) /\ reader'[r].start = reader[r].start
<1> DEFINE x == reader[r]
           fs == IF path[x.next] = None THEN x.files ELSE Append(x.files, x.next)
           t == CASE x.next < MaxLogFiles -> "list"
                  [] fs = <<>> -> "no logs"
                  [] OTHER -> "first"
           y == [x EXCEPT !.next = x.next + 1, !.files = fs]
           z == reader'[r]
<1>1. ReaderStep(r, "list", t, y)
  BY DEF ListLogFile
<1>2. x \in ReaderRec /\ Holds(x, Files, Written) /\ x.at = "list"
      /\ (~x.moved => Exact(x, path, Contents, file)) /\ reader \in [Readers -> ReaderRec]
  BY <1>1 DEF ReaderInv, Fine, ReaderStep
<1>3. x.next \in Paths /\ x.next \in Nat /\ x.files \in Seq(Paths) /\ MaxLogFiles \in Nat
      /\ x.entries = <<>>
  BY <1>2 DEF Holds, Paths, LogsAssumption, ReaderRec
<1> HIDE DEF x
<1>4. fs \in Seq(Paths)
  BY <1>3
<1>5. ~x.moved => Lists(fs, 0, x.next + 1, path)
  <2>1. ~x.moved => Lists(x.files, 0, x.next, path)
    BY <1>2 DEF Exact
  <2> QED
    BY <1>3, <2>1, ListsOne
<1> HIDE DEF fs
<1>6. /\ t \in {"list", "no logs", "first"}
      /\ t = "list" => x.next < MaxLogFiles
      /\ t = "first" => ~(x.next < MaxLogFiles) /\ fs # <<>>
  OBVIOUS
<1> HIDE DEF t
<1>7. /\ y \in ReaderRec /\ y.ask = x.ask /\ y.start = x.start /\ y.since = x.since
      /\ y.next = x.next + 1 /\ y.files = fs /\ y.entries = x.entries /\ y.seen = x.seen
      /\ y.inode = x.inode /\ y.moved = x.moved
  <2>1. x.next + 1 \in Nat /\ fs \in Seq(Paths) /\ x \in ReaderRec
    BY <1>2, <1>3, <1>4
  <2>2. y \in ReaderRec
    BY <2>1 DEF ReaderRec
  <2>3. /\ y.ask = x.ask /\ y.start = x.start /\ y.since = x.since
        /\ y.next = x.next + 1 /\ y.files = fs /\ y.entries = x.entries /\ y.seen = x.seen
        /\ y.inode = x.inode /\ y.moved = x.moved
    BY <2>1 DEF ReaderRec
  <2> QED
    BY <2>2, <2>3
<1> HIDE DEF y
<1>8. /\ z \in ReaderRec /\ z.at = t /\ z.ask = x.ask /\ z.start = x.start /\ z.since = x.since
      /\ z.next = x.next + 1 /\ z.files = fs /\ z.entries = <<>> /\ z.seen = x.seen
      /\ z.inode = x.inode /\ z.moved = x.moved
  <2>1. t \in ReadStates
    BY <1>6 DEF ReadStates
  <2>2. /\ z \in ReaderRec /\ z.at = t
        /\ z.ask = y.ask /\ z.start = y.start /\ z.since = y.since
        /\ z.next = y.next /\ z.files = y.files /\ z.entries = y.entries /\ z.seen = y.seen
        /\ z.inode = y.inode /\ z.moved = y.moved
    BY <1>1, <1>2, <1>7, <2>1, StepTo
  <2> QED
    BY <1>3, <1>7, <2>2
<1> HIDE DEF z
<1>9. t = "list" => x.next + 1 \in Paths
  BY <1>3, <1>6 DEF Paths
<1>10. t = "first" => x.next + 1 = MaxLogFiles + 1
  BY <1>3, <1>6 DEF Paths
<1>11. Holds(z, Files, Written)
  BY <1>2, <1>6, <1>8, <1>9 DEF Holds
<1>12. ~z.moved => Exact(z, path, Contents, file)
  BY <1>5, <1>6, <1>8, <1>10, EmptyInjective DEF Exact
<1>13. Within(z, file)
  BY <1>6, <1>8 DEF Within
<1> QED
  BY <1>8, <1>11, <1>12, <1>13 DEF Fine, z, x

(* Nothing is in two files at two paths. *)
LEMMA ContentsApart ==
    ASSUME LogsAssumption, FileInv, FreshInv
    PROVE  /\ Contents \in [Paths -> Seq(Entry)]
           /\ \A n \in Paths : path[n] = None => Contents[n] = <<>>
           /\ \A n \in Paths : ToSet(Contents[n]) \subseteq Written
           /\ Kept = Joined(Contents, 0) /\ IsInjective(Kept) /\ ToSet(Kept) \subseteq Written
           /\ \A n \in Paths : Contents[n] = FileAt(n)
<1>1. Contents \in [Paths -> Seq(Entry)] /\ \A n \in Paths : Contents[n] = FileAt(n)
  BY ContentsTypes
<1>2. Kept = Joined(Contents, 0)
  BY KeptIsJoined
<1>3. \A n \in Paths : path[n] = None => Contents[n] = <<>>
  BY <1>1 DEF FileAt
<1>4. \A n \in Paths : path[n] # None => path[n] \in Files /\ Contents[n] = file[path[n]]
  BY <1>1 DEF FileAt, FileInv
<1>5. \A n \in Paths : IsInjective(Contents[n]) /\ ToSet(Contents[n]) \subseteq Written
  BY <1>3, <1>4, EmptyInjective DEF FreshInv, Written
<1>6. ASSUME NEW m \in Paths, NEW n \in Paths, m # n
      PROVE  ToSet(Contents[m]) \cap ToSet(Contents[n]) = {}
  <2>1. CASE path[m] = None \/ path[n] = None
    BY <1>3, <2>1, EmptyInjective
  <2>2. CASE path[m] # None /\ path[n] # None
    <3>1. path[m] # path[n]
      BY <1>6, <2>2 DEF FileInv
    <3> QED
      BY <1>4, <2>2, <3>1 DEF FreshInv
  <2> QED
    BY <2>1, <2>2
<1>7. IsInjective(Joined(Contents, 0))
  <2> DEFINE c == Contents
  <2>1. c \in [Paths -> Seq(Entry)]
    BY <1>1
  <2>2. (\A n \in Paths : IsInjective(c[n]))
        /\ \A m, n \in Paths : m # n => ToSet(c[m]) \cap ToSet(c[n]) = {}
    BY <1>5, <1>6
  <2> HIDE DEF c
  <2>3. IsInjective(Joined(c, 0))
    BY <2>1, <2>2, JoinedInjective
  <2> QED
    BY <2>3 DEF c
<1>8. ToSet(Joined(Contents, 0)) \subseteq Written
  BY <1>1, <1>5, JoinedSet
<1> QED
  BY <1>1, <1>2, <1>3, <1>5, <1>7, <1>8

(* The file raw comes to be read, when the files from path p on, which are *)
(* listed, are left, and S has been read.                                  *)
Scanned(c, pt, files, p, S, seen, ask, since, raw, E) ==
    /\ c \in [Paths -> Seq(Entry)] /\ \A n \in Paths : pt[n] = None => c[n] = <<>>
    /\ files \in Seq(Paths) /\ files # <<>> /\ p \in Paths
    /\ Lists(files, p, MaxLogFiles + 1, pt)
    /\ S \in Seq(Entry) /\ seen = Cat(Joined(c, p), S) /\ IsInjective(seen)
    /\ ask.tail \in Int /\ since \in Int \cup {None}
    /\ raw = c[Head(files)]
    /\ E = Cat(FilterEntries(raw, ask, since), FilterEntries(S, ask, since))

LEMMA ReadsFile ==
    ASSUME LogsAssumption, NEW c, NEW pt, NEW files, NEW p, NEW S, NEW seen, NEW ask, NEW since,
           NEW raw, NEW E, Scanned(c, pt, files, p, S, seen, ask, since, raw, E)
    PROVE  /\ IsInjective(E)
           /\ Tail(files) # <<>> =>
                 \E q \in 1..MaxLogFiles :
                    /\ Lists(Tail(files), q, MaxLogFiles + 1, pt)
                    /\ \E R \in Seq(Entry) : seen = Cat(Joined(c, q), R) /\ E = FilterEntries(R, ask, since)
           /\ /\ Tail(files) = <<>> \/ (raw # <<>> /\ Before(raw[1], since))
                 \/ (ask.tail >= 0 /\ Len(E) >= ask.tail)
              /\ since = None \/ InOrder(seen)
              => LastOf(E, ask.tail) = LastOf(FilterEntries(seen, ask, since), ask.tail)
<1> DEFINE q == Head(files) + 1
           R == Cat(raw, S)
           older == Joined(c, q)
           W == Wanted(ask, since)
<1>0. /\ c \in [Paths -> Seq(Entry)] /\ \A n \in Paths : pt[n] = None => c[n] = <<>>
      /\ files \in Seq(Paths) /\ files # <<>> /\ p \in Paths
      /\ Lists(files, p, MaxLogFiles + 1, pt)
      /\ S \in Seq(Entry) /\ seen = Cat(Joined(c, p), S) /\ IsInjective(seen)
      /\ ask.tail \in Int /\ since \in Int \cup {None}
      /\ raw = c[Head(files)]
      /\ E = Cat(FilterEntries(raw, ask, since), FilterEntries(S, ask, since))
  BY DEF Scanned
<1>1. /\ Head(files) \in Paths
      /\ Tail(files) # <<>> => q \in 1..MaxLogFiles
      /\ Lists(Tail(files), q, MaxLogFiles + 1, pt)
  <2>1. /\ Head(files) \in Paths
        /\ Lists(Tail(files), Head(files) + 1, MaxLogFiles + 1, pt)
        /\ Tail(files) # <<>> => Head(files) + 1 \in 1..MaxLogFiles
    BY <1>0, ListsHead
  <2> QED
    BY <2>1
<1>2. q \in 0..MaxLogFiles + 1 /\ raw \in Seq(Entry)
  <2> DEFINE h == Head(files)
  <2>1. h \in Paths /\ raw = c[h] /\ c \in [Paths -> Seq(Entry)]
    BY <1>0, <1>1
  <2> HIDE DEF h
  <2>2. h + 1 \in 0..MaxLogFiles + 1 /\ raw \in Seq(Entry)
    BY <2>1 DEF Paths, LogsAssumption
  <2> QED
    BY <2>2 DEF h
<1>3. seen = Cat(older, R) /\ (Tail(files) = <<>> => older = <<>>)
  <2>1. /\ Joined(c, p) \o S = Joined(c, Head(files) + 1) \o (c[Head(files)] \o S)
        /\ Tail(files) = <<>> => Joined(c, Head(files) + 1) = <<>>
    BY <1>0, ReadsOneMore
  <2> QED
    BY <1>0, <2>1 DEF Cat
<1> HIDE DEF q
<1>4. older \in Seq(Entry) /\ R \in Seq(Entry)
  <2>1. older \in Seq(Entry)
    BY <1>0, <1>2, JoinedTypes
  <2>2. raw \o S \in Seq(Entry)
    BY <1>0, <1>2
  <2> QED
    BY <2>1, <2>2 DEF Cat
<1>5. E = Cat(Select(raw, W), Select(S, W))
  BY <1>0 DEF FilterEntries
<1> HIDE DEF W
<1>6. E = Select(R, W)
  BY <1>0, <1>2, <1>5, SelectCat
<1> HIDE DEF R, older
<1>7. IsInjective(R)
  BY <1>0, <1>3, <1>4, InjectiveConcat DEF Cat
<1>8. IsInjective(E)
  BY <1>4, <1>6, <1>7, SelectInjective
<1>9. E = FilterEntries(R, ask, since)
  BY <1>6 DEF FilterEntries, W
<1>10. ASSUME Tail(files) # <<>>
       PROVE  \E k \in 1..MaxLogFiles :
                    /\ Lists(Tail(files), k, MaxLogFiles + 1, pt)
                    /\ \E Q \in Seq(Entry) : seen = Cat(Joined(c, k), Q) /\ E = FilterEntries(Q, ask, since)
  <2>1. seen = Cat(Joined(c, q), R) /\ E = FilterEntries(R, ask, since) /\ R \in Seq(Entry)
    BY <1>3, <1>4, <1>9 DEF older
  <2> QED
    BY <1>1, <1>10, <2>1
<1>11. ASSUME Tail(files) = <<>> \/ (raw # <<>> /\ Before(raw[1], since))
                 \/ (ask.tail >= 0 /\ Len(E) >= ask.tail),
              since = None \/ InOrder(seen)
       PROVE  LastOf(E, ask.tail) = LastOf(FilterEntries(seen, ask, since), ask.tail)
  <2>1. \/ raw # <<>> /\ Before(raw[1], since)
        \/ ask.tail >= 0 /\ Len(E) >= ask.tail
        \/ older = <<>>
    BY <1>3, <1>11
  <2>2. R = Cat(raw, S) /\ seen = Cat(older, R)
    BY <1>3 DEF R, Cat
  <2>3. S \in Seq(Entry) /\ ask.tail \in Int /\ since \in Int \cup {None}
    BY <1>0
  <2> QED
    BY <1>2, <1>4, <1>9, <1>11, <2>1, <2>2, <2>3, EndsExactly
<1> QED
  BY <1>8, <1>10, <1>11

(* What a reader that is not disturbed has read before its next file. *)
Behind(x, seen, pt, c) ==
    \E p \in Paths : \E S \in Seq(Entry) :
        /\ Lists(x.files, p, MaxLogFiles + 1, pt)
        /\ seen = Cat(Joined(c, p), S)
        /\ x.entries = FilterEntries(S, x.ask, x.since)

LEMMA ReadBefore ==
    ASSUME LogsAssumption, LogInv, NEW x, x \in ReaderRec, Exact(x, path, Contents, file),
           x.at \in {"first", "read"}, x.at = "first" => x.entries = <<>>,
           NEW seen, seen = IF x.at = "first" THEN Kept ELSE x.seen
    PROVE  Behind(x, seen, path, Contents) /\ IsInjective(seen)
<1> DEFINE c == Contents
<1>0. /\ c \in [Paths -> Seq(Entry)] /\ Kept = Joined(c, 0) /\ IsInjective(Kept) /\ 0 \in Paths
      /\ 0 \in 0..MaxLogFiles + 1
  BY ContentsApart DEF LogInv, Paths, LogsAssumption
<1>1. CASE x.at = "first"
  <2>1. Joined(c, 0) \in Seq(Entry)
    BY <1>0, JoinedTypes
  <2>2. Joined(c, 0) = Cat(Joined(c, 0), <<>>)
    BY <2>1, ConcatEmptySeq DEF Cat
  <2>3. Lists(x.files, 0, MaxLogFiles + 1, path)
    BY <1>1 DEF Exact
  <2>4. x.entries = FilterEntries(<<>>, x.ask, x.since)
    BY <1>1, SelectEmpty DEF FilterEntries
  <2>5. seen = Cat(Joined(c, 0), <<>>)
    BY <1>0, <1>1, <2>2
  <2> HIDE DEF c
  <2>6. \E S \in Seq(Entry) : /\ Lists(x.files, 0, MaxLogFiles + 1, path)
                              /\ seen = Cat(Joined(c, 0), S)
                              /\ x.entries = FilterEntries(S, x.ask, x.since)
    BY <2>3, <2>4, <2>5, EmptyInjective
  <2> QED
    BY <1>0, <1>1, <2>6 DEF Behind, c
<1>2. CASE x.at = "read"
  <2>1. PICK p \in 1..MaxLogFiles : Lists(x.files, p, MaxLogFiles + 1, path) /\ HalfRead(x, p, c)
    BY <1>2 DEF Exact
  <2>2. p \in Paths
    BY DEF Paths, LogsAssumption
  <2>3. seen = x.seen /\ IsInjective(seen)
    BY <1>2 DEF Exact
  <2> QED
    BY <2>1, <2>2, <2>3 DEF Behind, HalfRead
<1> QED
  BY <1>1, <1>2

LEMMA ReadStep ==
    ASSUME LogsAssumption, LogInv, ReaderInv, NEW r \in Readers, ReadLogFile(r)
    PROVE  Fine(reader'[r]) /\ reader'[r].start = reader[r].start
<1> DEFINE x == reader[r]
           raw == FileAt(Head(x.files))
           E == FilterEntries(raw, x.ask, x.since) \o x.entries
           seen == IF x.at = "first" THEN Kept ELSE x.seen
           y == [x EXCEPT !.entries = E, !.seen = seen, !.files = Tail(x.files)]
           last == LastOf(E, x.ask.tail)
           v == [y EXCEPT !.files = <<>>, !.next = 0, !.entries = last]
           z == reader'[r]
<1>1. /\ x.at \in {"first", "read"}
      /\ \/ (Enough(raw, y) \/ y.files = <<>>) /\ ReaderStep(r, x.at, "shown",
                  [y EXCEPT !.files = <<>>, !.next = 0, !.entries = LastOf(y.entries, x.ask.tail)])
         \/ ~(Enough(raw, y) \/ y.files = <<>>) /\ ReaderStep(r, x.at, "read", y)
  BY DEF ReadLogFile
<1>2. x \in ReaderRec /\ Holds(x, Files, Written)
      /\ (~x.moved => Exact(x, path, Contents, file)) /\ reader \in [Readers -> ReaderRec]
  BY DEF ReaderInv, Fine
<1> HIDE DEF x
<1>3. /\ x.files \in Seq(Paths) /\ x.files # <<>> /\ x.entries \in Seq(Entry)
      /\ ToSet(x.entries) \subseteq Written /\ ToSet(x.seen) \subseteq Written
      /\ x.ask.tail \in Int /\ x.since \in Int \cup {None}
      /\ x.at = "first" => x.entries = <<>>
  BY <1>1, <1>2 DEF Holds, ReaderRec
<1>4. Head(x.files) \in Paths /\ Tail(x.files) \in Seq(Paths)
  BY <1>3
<1>5. /\ raw \in Seq(Entry) /\ ToSet(raw) \subseteq Written /\ raw = Contents[Head(x.files)]
      /\ Kept \in Seq(Entry) /\ ToSet(Kept) \subseteq Written
  <2>1. /\ Contents \in [Paths -> Seq(Entry)] /\ Kept = Joined(Contents, 0)
        /\ \A n \in Paths : ToSet(Contents[n]) \subseteq Written /\ Contents[n] = FileAt(n)
        /\ ToSet(Kept) \subseteq Written
    BY ContentsApart DEF LogInv
  <2>2. 0 \in 0..MaxLogFiles + 1
    BY DEF LogsAssumption
  <2>3. Joined(Contents, 0) \in Seq(Entry)
    BY <2>1, <2>2, JoinedTypes
  <2> QED
    BY <1>4, <2>1, <2>3
<1> HIDE DEF raw
<1>6. seen \in Seq(Entry) /\ ToSet(seen) \subseteq Written
  BY <1>2, <1>3, <1>5 DEF ReaderRec
<1>7. E \in Seq(Entry) /\ ToSet(E) \subseteq Written
  <2> DEFINE F == FilterEntries(raw, x.ask, x.since)
  <2>1. F \in Seq(Entry) /\ ToSet(F) \subseteq ToSet(raw)
    BY <1>5, SelectTypes, SelectSet DEF FilterEntries
  <2> HIDE DEF F
  <2>2. F \o x.entries \in Seq(Entry) /\ ToSet(F \o x.entries) = ToSet(F) \cup ToSet(x.entries)
    BY <1>3, <2>1, SetConcat
  <2> QED
    BY <1>3, <1>5, <2>1, <2>2 DEF F
<1>8. ASSUME ~x.moved
      PROVE  /\ IsInjective(E)
             /\ Tail(x.files) # <<>> =>
                   \E q \in 1..MaxLogFiles :
                      /\ Lists(Tail(x.files), q, MaxLogFiles + 1, path)
                      /\ \E R \in Seq(Entry) : seen = Cat(Joined(Contents, q), R)
                                               /\ E = FilterEntries(R, x.ask, x.since)
             /\ /\ Tail(x.files) = <<>> \/ (raw # <<>> /\ Before(raw[1], x.since))
                   \/ (x.ask.tail >= 0 /\ Len(E) >= x.ask.tail)
                /\ x.since = None \/ InOrder(seen)
                => last = LastOf(FilterEntries(seen, x.ask, x.since), x.ask.tail)
             /\ IsInjective(seen)
  <2>1. Behind(x, seen, path, Contents) /\ IsInjective(seen)
    BY <1>1, <1>2, <1>3, <1>8, ReadBefore
  <2>2. PICK p \in Paths, S \in Seq(Entry) :
               /\ Lists(x.files, p, MaxLogFiles + 1, path)
               /\ seen = Cat(Joined(Contents, p), S)
               /\ x.entries = FilterEntries(S, x.ask, x.since)
    BY <2>1 DEF Behind
  <2>3. E = Cat(FilterEntries(raw, x.ask, x.since), FilterEntries(S, x.ask, x.since))
    BY <2>2 DEF Cat
  <2>4. /\ Contents \in [Paths -> Seq(Entry)]
        /\ \A n \in Paths : path[n] = None => Contents[n] = <<>>
    BY ContentsApart DEF LogInv
  <2> DEFINE c == Contents
             files == x.files
             ask == x.ask
             since == x.since
  <2>5. /\ c \in [Paths -> Seq(Entry)] /\ \A n \in Paths : path[n] = None => c[n] = <<>>
    BY <2>4
  <2>6. files \in Seq(Paths) /\ files # <<>> /\ Lists(files, p, MaxLogFiles + 1, path)
    BY <1>3, <2>2
  <2>7. seen = Cat(Joined(c, p), S) /\ IsInjective(seen)
    BY <2>1, <2>2
  <2>8. ask.tail \in Int /\ since \in Int \cup {None} /\ raw = c[Head(files)]
    BY <1>3, <1>5
  <2>9. E = Cat(FilterEntries(raw, ask, since), FilterEntries(S, ask, since))
    BY <2>3
  <2>10. Scanned(c, path, files, p, S, seen, ask, since, raw, E)
    <3> HIDE DEF E, seen, c, files, ask, since
    <3> QED
      BY <2>5, <2>6, <2>7, <2>8, <2>9 DEF Scanned
  <2> HIDE DEF E, seen, c, files, ask, since
  <2>11. /\ IsInjective(E)
         /\ Tail(files) # <<>> =>
            \E q \in 1..MaxLogFiles :
               /\ Lists(Tail(files), q, MaxLogFiles + 1, path)
               /\ \E R \in Seq(Entry) : seen = Cat(Joined(c, q), R) /\ E = FilterEntries(R, ask, since)
         /\ /\ Tail(files) = <<>> \/ (raw # <<>> /\ Before(raw[1], since))
                  \/ (ask.tail >= 0 /\ Len(E) >= ask.tail)
            /\ since = None \/ InOrder(seen)
            => LastOf(E, ask.tail) = LastOf(FilterEntries(seen, ask, since), ask.tail)
    BY <2>10, ReadsFile
  <2> QED
    BY <2>7, <2>11 DEF c, files, ask, since
<1> HIDE DEF E, seen
<1>9. /\ y.at = x.at /\ y.ask = x.ask /\ y.start = x.start /\ y.since = x.since
      /\ y.files = Tail(x.files) /\ y.entries = E /\ y.seen = seen
      /\ y.inode = x.inode /\ y.moved = x.moved
  <2>1. x \in ReaderRec
    BY <1>2
  <2> QED
    BY <2>1 DEF ReaderRec
<1>10. y \in ReaderRec
  <2>1. x \in ReaderRec /\ Tail(x.files) \in Seq(Paths) /\ E \in Seq(Entry) /\ seen \in Seq(Entry)
    BY <1>2, <1>4, <1>6, <1>7
  <2> DEFINE g == Tail(x.files)
  <2> HIDE DEF g
  <2>2. [x EXCEPT !.entries = E, !.seen = seen, !.files = g] \in ReaderRec
    BY <2>1 DEF ReaderRec, g
  <2> QED
    BY <2>2 DEF g
<1> HIDE DEF y
<1>11. Enough(raw, y) <=> \/ raw # <<>> /\ Before(raw[1], x.since)
                          \/ x.ask.tail >= 0 /\ Len(E) >= x.ask.tail
  BY <1>9 DEF Enough
<1>12. x.at = "read" \/ x.at = "first"
  BY <1>1
<1>13. ~x.ask.since => x.since = x.start.time
  BY <1>2, <1>12 DEF Holds
<1>14. x.inode = None \/ x.inode \in Files
  BY <1>2 DEF Holds
<1>15. CASE /\ Enough(raw, y) \/ y.files = <<>>
            /\ ReaderStep(r, x.at, "shown",
                  [y EXCEPT !.files = <<>>, !.next = 0, !.entries = LastOf(y.entries, x.ask.tail)])
  <2>1. last \in Seq(Entry) /\ ToSet(last) \subseteq Written /\ (IsInjective(E) => IsInjective(last))
    BY <1>3, <1>7, LastOfTypes
  <2> HIDE DEF last
  <2>2. v \in ReaderRec
    <3>1. y \in ReaderRec /\ last \in Seq(Entry) /\ <<>> \in Seq(Paths)
      BY <1>10, <2>1
    <3> QED
      BY <3>1 DEF ReaderRec
  <2>3. /\ v.ask = x.ask /\ v.start = x.start /\ v.since = x.since
        /\ v.files = <<>> /\ v.entries = last /\ v.seen = seen
        /\ v.inode = x.inode /\ v.moved = x.moved
    <3>1. y \in ReaderRec
      BY <1>10
    <3>2. /\ v.ask = y.ask /\ v.start = y.start /\ v.since = y.since
          /\ v.files = <<>> /\ v.entries = last /\ v.seen = y.seen
          /\ v.inode = y.inode /\ v.moved = y.moved
      BY <3>1 DEF ReaderRec
    <3> HIDE DEF v
    <3> QED
      BY <1>9, <3>2
  <2>4. ReaderStep(r, x.at, "shown", v)
    BY <1>9, <1>15 DEF last
  <2> HIDE DEF v
  <2>5. /\ z \in ReaderRec /\ z.at = "shown"
        /\ z.ask = v.ask /\ z.start = v.start /\ z.since = v.since
        /\ z.files = v.files /\ z.entries = v.entries /\ z.seen = v.seen
        /\ z.inode = v.inode /\ z.moved = v.moved
    <3>1. "shown" \in ReadStates
      BY DEF ReadStates
    <3> QED
      BY <1>2, <2>2, <2>4, <3>1, StepTo
  <2> HIDE DEF z
  <2>6. /\ z.at = "shown"
        /\ z.ask = x.ask /\ z.start = x.start /\ z.since = x.since
        /\ z.files = <<>> /\ z.entries = last /\ z.seen = seen
        /\ z.inode = x.inode /\ z.moved = x.moved
    BY <2>3, <2>5
  <2>7. Holds(z, Files, Written)
    BY <1>6, <1>13, <1>14, <2>1, <2>6 DEF Holds
  <2>8. ASSUME ~z.moved PROVE Exact(z, path, Contents, file)
    <3>1. ~x.moved
      BY <2>6, <2>8
    <3>2. IsInjective(last)
      BY <1>8, <2>1, <3>1
    <3>3. Tail(x.files) = <<>> \/ (raw # <<>> /\ Before(raw[1], x.since))
                   \/ (x.ask.tail >= 0 /\ Len(E) >= x.ask.tail)
      BY <1>9, <1>11, <1>15
    <3>4. x.since = None \/ InOrder(seen)
              => last = LastOf(FilterEntries(seen, x.ask, x.since), x.ask.tail)
      BY <1>8, <3>1, <3>3
    <3>5. ShownExactly(z)
      BY <2>6, <3>4 DEF ShownExactly
    <3> QED
      BY <2>6, <3>2, <3>5 DEF Exact
  <2>9. Within(z, file)
    BY <2>6 DEF Within
  <2> QED
    BY <2>5, <2>6, <2>7, <2>8, <2>9 DEF Fine, z, x
<1>16. CASE ~(Enough(raw, y) \/ y.files = <<>>) /\ ReaderStep(r, x.at, "read", y)
  <2>1. /\ z \in ReaderRec /\ z.at = "read"
        /\ z.ask = y.ask /\ z.start = y.start /\ z.since = y.since
        /\ z.files = y.files /\ z.entries = y.entries /\ z.seen = y.seen
        /\ z.inode = y.inode /\ z.moved = y.moved
    <3>1. "read" \in ReadStates
      BY DEF ReadStates
    <3> QED
      BY <1>2, <1>10, <1>16, <3>1, StepTo
  <2> HIDE DEF z
  <2>2. /\ z.at = "read"
        /\ z.ask = x.ask /\ z.start = x.start /\ z.since = x.since
        /\ z.files = Tail(x.files) /\ z.entries = E /\ z.seen = seen
        /\ z.inode = x.inode /\ z.moved = x.moved /\ Tail(x.files) # <<>>
    BY <1>9, <1>16, <2>1
  <2>3. Holds(z, Files, Written)
    BY <1>6, <1>7, <1>13, <1>14, <2>2 DEF Holds
  <2>4. ASSUME ~z.moved PROVE Exact(z, path, Contents, file)
    <3>1. ~x.moved
      BY <2>2, <2>4
    <3>2. IsInjective(E) /\ IsInjective(seen)
      BY <1>8, <3>1
    <3>3. PICK q \in 1..MaxLogFiles :
             /\ Lists(Tail(x.files), q, MaxLogFiles + 1, path)
             /\ \E R \in Seq(Entry) : seen = Cat(Joined(Contents, q), R)
                                      /\ E = FilterEntries(R, x.ask, x.since)
      BY <1>8, <2>2, <3>1
    <3>4. Lists(z.files, q, MaxLogFiles + 1, path) /\ HalfRead(z, q, Contents)
      BY <2>2, <3>3 DEF HalfRead
    <3> QED
      BY <2>2, <3>2, <3>4 DEF Exact
  <2>5. Within(z, file)
    BY <2>2 DEF Within
  <2> QED
    BY <2>1, <2>2, <2>3, <2>4, <2>5 DEF Fine, z, x
<1> QED
  BY <1>1, <1>15, <1>16

(* A reader that ends. *)
LEMMA EndStep ==
    ASSUME LogsAssumption, ReaderInv, NEW r \in Readers, NEW s, ReaderStep(r, s, "ended", NoRead)
    PROVE  Fine(reader'[r]) /\ reader'[r].start = NoStart
<1> DEFINE z == reader'[r]
<1>1. "ended" \in ReadStates /\ NoRead \in ReaderRec /\ reader \in [Readers -> ReaderRec]
  BY NoReadTypes DEF ReadStates, ReaderInv
<1>2. /\ z \in ReaderRec /\ z.at = "ended"
      /\ z.start = NoRead.start /\ z.entries = NoRead.entries /\ z.seen = NoRead.seen
      /\ z.inode = NoRead.inode
  BY <1>1, StepTo
<1>3. NoRead.start = NoStart /\ NoRead.entries = <<>> /\ NoRead.seen = <<>> /\ NoRead.inode = None
  BY DEF NoRead
<1> HIDE DEF z
<1>4. z.at = "ended" /\ z.start = NoStart /\ z.entries = <<>> /\ z.seen = <<>> /\ z.inode = None
  BY <1>2, <1>3
<1>5. Holds(z, Files, Written) /\ Within(z, file) /\ Exact(z, path, Contents, file)
  BY <1>4, EmptyInjective DEF Holds, Within, Exact
<1> QED
  BY <1>2, <1>4, <1>5 DEF Fine, z

LEMMA OpenStep ==
    ASSUME LogsAssumption, LogInv, ReaderInv, NEW r \in Readers, OpenNewest(r)
    PROVE  Fine(reader'[r]) /\ reader'[r].start = NoStart
<1> DEFINE x == reader[r]
           y == [NoRead EXCEPT !.ask = x.ask, !.entries = x.entries,
                               !.moved = x.moved, !.inode = path[0]]
           z == reader'[r]
<1>1. CASE path[0] = None
  BY <1>1, EndStep DEF OpenNewest
<1>2. CASE path[0] # None
  <2>1. ReaderStep(r, "shown", "opened", y)
    BY <1>2 DEF OpenNewest
  <2>2. x \in ReaderRec /\ Holds(x, Files, Written) /\ x.at = "shown"
        /\ (~x.moved => Exact(x, path, Contents, file)) /\ reader \in [Readers -> ReaderRec]
    BY <2>1 DEF ReaderInv, Fine, ReaderStep
  <2>3. path[0] \in Files /\ path[0] \in Nat
    BY <1>2 DEF LogInv, FileInv, Paths, LogsAssumption, Files
  <2> HIDE DEF x
  <2>4. y \in ReaderRec
    <3>1. NoRead \in ReaderRec /\ x \in ReaderRec
      BY <2>2, NoReadTypes
    <3> QED
      BY <2>3, <3>1 DEF ReaderRec
  <2>5. /\ y.entries = x.entries /\ y.seen = <<>> /\ y.start = NoStart /\ y.inode = path[0]
        /\ y.moved = x.moved
    BY DEF NoRead
  <2> HIDE DEF y
  <2>6. "opened" \in ReadStates
    BY DEF ReadStates
  <2>7. /\ z \in ReaderRec /\ z.at = "opened"
        /\ z.start = y.start /\ z.entries = y.entries /\ z.seen = y.seen
        /\ z.inode = y.inode /\ z.moved = y.moved
    BY <2>1, <2>2, <2>4, <2>6, StepTo
  <2> HIDE DEF z
  <2>8. /\ z.at = "opened" /\ z.start = NoStart /\ z.entries = x.entries /\ z.seen = <<>>
        /\ z.inode \in Files /\ z.moved = x.moved
    BY <2>3, <2>5, <2>7
  <2>9. Holds(z, Files, Written) /\ Within(z, file)
    BY <2>2, <2>8, EmptyInjective DEF Holds, Within
  <2>10. ~z.moved => Exact(z, path, Contents, file)
    BY <2>2, <2>8 DEF Exact
  <2> QED
    BY <2>7, <2>8, <2>9, <2>10 DEF Fine, z
<1> QED
  BY <1>1, <1>2

LEMMA SeekStep ==
    ASSUME LogsAssumption, LogInv, ReaderInv, NEW r \in Readers, SeekEnd(r)
    PROVE  Fine(reader'[r]) /\ reader'[r].start = reader[r].start
<1> DEFINE x == reader[r]
           y == [x EXCEPT !.pos = Len(file[x.inode])]
           z == reader'[r]
<1>1. ReaderStep(r, "opened", "follow", y)
  BY DEF SeekEnd
<1>2. x \in ReaderRec /\ Holds(x, Files, Written) /\ x.at = "opened"
      /\ (~x.moved => Exact(x, path, Contents, file)) /\ reader \in [Readers -> ReaderRec]
  BY <1>1 DEF ReaderInv, Fine, ReaderStep
<1> HIDE DEF x
<1>3. x.inode \in Files /\ file[x.inode] \in Seq(Entry)
  <2>1. x.inode \in Files
    BY <1>2 DEF Holds
  <2> QED
    BY <2>1 DEF LogInv, FileInv, Files
<1>4. /\ y \in ReaderRec /\ y.start = x.start /\ y.entries = x.entries /\ y.seen = x.seen
      /\ y.inode = x.inode /\ y.moved = x.moved /\ y.pos = Len(file[x.inode])
  <2> DEFINE n == Len(file[x.inode])
  <2>1. n \in Nat /\ x \in ReaderRec
    BY <1>2, <1>3
  <2> HIDE DEF n
  <2>2. y = [x EXCEPT !.pos = n]
    BY DEF n
  <2>3. [x EXCEPT !.pos = n] \in ReaderRec
    BY <2>1 DEF ReaderRec
  <2>4. y.start = x.start /\ y.entries = x.entries /\ y.seen = x.seen
        /\ y.inode = x.inode /\ y.moved = x.moved /\ y.pos = n
    BY <2>1, <2>2 DEF ReaderRec
  <2> QED
    BY <2>2, <2>3, <2>4 DEF n
<1> HIDE DEF y
<1>5. "follow" \in ReadStates
  BY DEF ReadStates
<1>6. /\ z \in ReaderRec /\ z.at = "follow"
      /\ z.start = y.start /\ z.entries = y.entries /\ z.seen = y.seen
      /\ z.inode = y.inode /\ z.moved = y.moved /\ z.pos = y.pos
  BY <1>1, <1>2, <1>4, <1>5, StepTo
<1> HIDE DEF z
<1>7. /\ z.at = "follow" /\ z.start = x.start /\ z.entries = x.entries /\ z.seen = x.seen
      /\ z.inode = x.inode /\ z.moved = x.moved /\ z.pos = Len(file[x.inode])
  BY <1>4, <1>6
<1>8. Holds(z, Files, Written) /\ Within(z, file)
  BY <1>2, <1>3, <1>7 DEF Holds, Within
<1>9. \A j \in DOMAIN file[z.inode] : ~(j > z.pos)
  BY <1>3, <1>7
<1>10. ~z.moved => Exact(z, path, Contents, file)
  BY <1>2, <1>7, <1>9 DEF Exact
<1> QED
  BY <1>6, <1>7, <1>8, <1>10 DEF Fine, z, x

LEMMA FollowStep ==
    ASSUME LogsAssumption, LogInv, ReaderInv, NEW r \in Readers, FollowLine(r)
    PROVE  Fine(reader'[r]) /\ reader'[r].start = reader[r].start
<1> DEFINE x == reader[r]
           f == file[x.inode]
           n == x.pos + 1
           e == f[n]
           g == FilterEntries(<<e>>, x.ask, None)
           E == x.entries \o g
           y == [x EXCEPT !.pos = n, !.entries = E]
           z == reader'[r]
<1>1. ReaderStep(r, "follow", "follow", y) /\ ~(x.pos = Len(f)) /\ x.at = "follow"
  BY DEF FollowLine, AtEOF
<1>2. x \in ReaderRec /\ Holds(x, Files, Written) /\ Within(x, file)
      /\ (~x.moved => Exact(x, path, Contents, file)) /\ reader \in [Readers -> ReaderRec]
  BY DEF ReaderInv, Fine
<1> HIDE DEF x
<1>3. x.inode \in Files /\ f \in Seq(Entry) /\ IsInjective(f) /\ ToSet(f) \subseteq Written
  <2>1. x.inode \in Files
    BY <1>1, <1>2 DEF Holds
  <2> QED
    BY <2>1 DEF LogInv, FileInv, Files, FreshInv, Written
<1>4. x.pos \in Nat /\ x.pos <= Len(f) /\ x.entries \in Seq(Entry) /\ ToSet(x.entries) \subseteq Written
  BY <1>1, <1>2 DEF Holds, Within, ReaderRec
<1> HIDE DEF f
<1>5. n \in 1..Len(f) /\ n \in Nat /\ DOMAIN f = 1..Len(f)
  BY <1>1, <1>3, <1>4
<1>6. n > x.pos /\ \A j \in Int : j > n => j > x.pos
  BY <1>4
<1> HIDE DEF n
<1>7. e \in Entry /\ e \in ToSet(f)
  BY <1>3, <1>5 DEF ToSet
<1>8. \A j \in 1..Len(f) : j # n => f[j] # e
  BY <1>3, <1>5 DEF IsInjective
<1> HIDE DEF e
<1>9. g \in Seq(Entry) /\ ToSet(g) \subseteq {e} /\ IsInjective(g)
  <2> DEFINE one == <<e>>
  <2>1. one \in Seq(Entry) /\ ToSet(one) = {e} /\ IsInjective(one)
    BY <1>7 DEF ToSet, IsInjective
  <2> HIDE DEF one
  <2>2. /\ Select(one, Wanted(x.ask, None)) \in Seq(Entry)
        /\ ToSet(Select(one, Wanted(x.ask, None))) = ToSet(one) \cap Wanted(x.ask, None)
        /\ IsInjective(Select(one, Wanted(x.ask, None)))
    BY <2>1, SelectTypes, SelectSet, SelectInjective
  <2> QED
    BY <2>1, <2>2 DEF FilterEntries, one
<1> HIDE DEF g
<1>10. E \in Seq(Entry) /\ ToSet(E) = ToSet(x.entries) \cup ToSet(g)
  BY <1>4, <1>9, SetConcat
<1>11. IsInjective(x.entries) /\ e \notin ToSet(x.entries) => IsInjective(E)
  BY <1>4, <1>9, InjectiveConcat
<1> HIDE DEF E
<1>12. /\ y \in ReaderRec /\ y.ask = x.ask /\ y.start = x.start /\ y.entries = E /\ y.seen = x.seen
       /\ y.inode = x.inode /\ y.moved = x.moved /\ y.pos = n
  <2>1. x \in ReaderRec /\ n \in Nat /\ E \in Seq(Entry)
    BY <1>2, <1>5, <1>10
  <2>2. y \in ReaderRec
    BY <2>1 DEF ReaderRec
  <2>3. /\ y.ask = x.ask /\ y.start = x.start /\ y.entries = E /\ y.seen = x.seen
        /\ y.inode = x.inode /\ y.moved = x.moved /\ y.pos = n
    BY <2>1 DEF ReaderRec
  <2> QED
    BY <2>2, <2>3
<1> HIDE DEF y
<1>13. /\ z \in ReaderRec /\ z.at = "follow" /\ z.start = x.start /\ z.entries = E
       /\ z.seen = x.seen /\ z.inode = x.inode /\ z.moved = x.moved /\ z.pos = n
  <2>1. "follow" \in ReadStates
    BY DEF ReadStates
  <2>2. /\ z \in ReaderRec /\ z.at = "follow"
        /\ z.start = y.start /\ z.entries = y.entries /\ z.seen = y.seen
        /\ z.inode = y.inode /\ z.moved = y.moved /\ z.pos = y.pos
    BY <1>1, <1>2, <1>12, <2>1, StepTo
  <2> QED
    BY <1>12, <2>2
<1> HIDE DEF z
<1>14. Holds(z, Files, Written)
  <2>1. ToSet(E) \subseteq Written
    BY <1>3, <1>4, <1>7, <1>9, <1>10
  <2>2. ToSet(x.seen) \subseteq Written
    BY <1>2 DEF Holds
  <2> QED
    BY <1>3, <1>13, <2>1, <2>2 DEF Holds
<1>15. Within(z, file)
  BY <1>5, <1>13 DEF Within, f
<1>16. ASSUME ~z.moved PROVE Exact(z, path, Contents, file)
  <2>1. /\ IsInjective(x.entries)
        /\ \A j \in DOMAIN f : j > x.pos => f[j] \notin ToSet(x.entries)
    BY <1>1, <1>2, <1>13, <1>16 DEF Exact, f
  <2>2. IsInjective(E)
    BY <1>5, <1>6, <1>11, <2>1 DEF e
  <2>3. ASSUME NEW j \in DOMAIN f, j > n PROVE f[j] \notin ToSet(E)
    <3>1. j \in 1..Len(f) /\ j # n /\ j > x.pos
      BY <1>5, <1>6, <2>3
    <3> QED
      BY <1>8, <1>9, <1>10, <2>1, <3>1
  <2> QED
    BY <1>13, <2>2, <2>3 DEF Exact, f
<1> QED
  BY <1>13, <1>14, <1>15, <1>16 DEF Fine, z, x

-----------------------------------------------------------------------------
(* What the steps of the supervisor leave to readers.                      *)

(* Files only grow, by entries that no reader has. *)
Grows ==
    /\ Files \subseteq Files' /\ Written \subseteq Written'
    /\ \A f \in Files : \/ file'[f] = file[f]
                        \/ \E e \in Entry : e \notin Written /\ file'[f] = Append(file[f], e)

(* The paths stay what they are, and so do all files but the newest. *)
Undisturbed ==
    /\ reader' = reader /\ path' = path
    /\ \A n \in 1..MaxLogFiles : Contents'[n] = Contents[n]

LEMMA SupervisorGrows ==
    ASSUME LogsAssumption, LogInv, FileInv', Supervisor
    PROVE  Grows /\ (Undisturbed \/ Disturbed)
<1>0. StampInv /\ FileInv /\ FreshInv
  BY DEF LogInv
<1>1. ASSUME NEW w \in Writers, Write(w) PROVE Grows /\ Undisturbed
  <2>1. /\ stamped[w] \in Entry /\ stamped[w] \notin Written
        /\ reader' = reader /\ path' = path
    BY <1>0, <1>1 DEF Write, StampInv, FreshInv
  <2>2. /\ Written' = Written \/ Written' = Written \cup {stamped[w]}
        /\ Files' = Files
        /\ \A f \in Files : file'[f] = file[f] \/ file'[f] = Append(file[f], stamped[w])
    BY <1>0, <1>1, WrittenGrows
  <2>3. Grows
    BY <2>1, <2>2 DEF Grows
  <2>4. \A f \in Files : f # path[0] => file'[f] = file[f]
    BY <1>0, <1>1, Writes
  <2>5. ASSUME NEW n \in 1..MaxLogFiles PROVE Contents'[n] = Contents[n]
    <3>1. n \in Paths /\ 0 \in Paths /\ n # 0
      BY DEF Paths, LogsAssumption
    <3>2. path[n] # None => path[n] \in Files /\ path[n] # path[0]
      BY <1>0, <3>1 DEF FileInv
    <3>3. FileAt(n)' = FileAt(n)
      BY <2>1, <2>4, <3>2 DEF FileAt
    <3>4. Contents[n] = FileAt(n) /\ Contents'[n] = FileAt(n)'
      BY <3>1 DEF Contents
    <3> QED
      BY <3>3, <3>4
  <2> QED
    BY <2>1, <2>3, <2>5 DEF Undisturbed
<1>2. ASSUME UNCHANGED <<file, path, reader>> PROVE Grows /\ Undisturbed
  <2>1. Files' = Files /\ Written' = Written
    BY <1>2 DEF Files, Written
  <2>2. Contents' = Contents
    BY <1>2 DEF Contents, FileAt
  <2> QED
    BY <1>2, <2>1, <2>2 DEF Grows, Undisturbed
<1>3. CASE RotateLog \/ RemovesItself \/ RequestRemoves
  <2>1. Files' = Files /\ Written' = Written /\ file' = file /\ Disturbed
    BY <1>3 DEF RotateLog, RemovesItself, RequestRemoves, RemoveTask, Files, Written
  <2> QED
    BY <2>1 DEF Grows
<1>4. CASE Reopen \/ NewSupervisor
  <2>1. OpenLog /\ Disturbed
    BY <1>4 DEF Reopen, NewSupervisor
  <2>2. Written' = Written
    BY <1>0, <2>1, WrittenOpens
  <2>3. Files \subseteq Files' /\ \A f \in Files : file'[f] = file[f]
    <3>1. CASE path[0] = None
      <4>1. file' = Append(file, <<>>) /\ file \in Seq(Seq(Entry)) /\ <<>> \in Seq(Entry)
        BY <1>0, <2>1, <3>1, EmptyInjective DEF OpenLog, FileInv
      <4> QED
        BY <4>1, AppendProperties DEF Files
    <3>2. CASE path[0] # None
      BY <2>1, <3>2 DEF OpenLog, Files
    <3> QED
      BY <3>1, <3>2
  <2> QED
    BY <2>1, <2>2, <2>3 DEF Grows
<1>5. CASE \/ \E w \in Writers : Capture(w)
           \/ HealthEvent \/ StartChild \/ StartFails \/ WriteStartTime \/ ChildEnds
           \/ RestartLater \/ RecordExit
           \/ Returns \/ NoRotation \/ BeginRotation \/ StoppedInDelay \/ Killed
  <2>1. UNCHANGED <<file, path, reader>>
    BY <1>5 DEF Capture, HealthEvent, StartChild, StartFails, WriteStartTime, ChildEnds,
                RestartLater, RecordExit, Returns, NoRotation, BeginRotation, StoppedInDelay, Killed,
                CloseLog, log
  <2> QED
    BY <1>2, <2>1
<1> QED
  BY <1>1, <1>3, <1>4, <1>5 DEF Supervisor

LEMMA GrowsAt ==
    ASSUME LogInv, Grows, NEW f \in Files
    PROVE  /\ Len(file[f]) <= Len(file'[f])
           /\ \A j \in DOMAIN file'[f] :
                 \/ j \in DOMAIN file[f] /\ file'[f][j] = file[f][j]
                 \/ file'[f][j] \notin Written
<1>1. file[f] \in Seq(Entry)
  BY DEF LogInv, FileInv, Files
<1> DEFINE s == file[f]
<1>2. CASE file'[f] = s
  BY <1>1, <1>2
<1>3. ASSUME NEW e \in Entry, e \notin Written, file'[f] = Append(s, e)
      PROVE  /\ Len(s) <= Len(file'[f])
             /\ \A j \in DOMAIN file'[f] : \/ j \in DOMAIN s /\ file'[f][j] = s[j]
                                           \/ file'[f][j] \notin Written
  <2> DEFINE t == Append(s, e)
  <2> HIDE DEF s
  <2>1. /\ Len(t) = Len(s) + 1 /\ Len(s) \in Nat /\ DOMAIN t = 1..Len(s) + 1 /\ DOMAIN s = 1..Len(s)
        /\ t[Len(s) + 1] = e /\ \A j \in 1..Len(s) : t[j] = s[j]
    BY <1>1 DEF s
  <2> HIDE DEF t
  <2>2. \A j \in DOMAIN t : j \in 1..Len(s) \/ j = Len(s) + 1
    BY <2>1
  <2>3. /\ Len(s) <= Len(t)
        /\ \A j \in DOMAIN t : (j \in DOMAIN s /\ t[j] = s[j]) \/ t[j] \notin Written
    BY <1>3, <2>1, <2>2
  <2>4. file'[f] = t
    BY <1>3 DEF t, s
  <2> QED
    BY <2>3, <2>4
<1> QED
  BY <1>2, <1>3 DEF Grows

LEMMA ExactStays ==
    ASSUME LogsAssumption, LogInv, Grows, NEW x, x \in ReaderRec, Holds(x, Files, Written),
           Exact(x, path, Contents, file),
           x.at \in {"list", "first", "read"} => Undisturbed
    PROVE  Exact(x, path', Contents', file')
<1>1. x.at \in {"list", "first"} => path' = path
  BY DEF Undisturbed
<1>2. ASSUME x.at = "read"
      PROVE  \E p \in 1..MaxLogFiles : /\ Lists(x.files, p, MaxLogFiles + 1, path')
                                       /\ HalfRead(x, p, Contents')
  <2>1. PICK p \in 1..MaxLogFiles : Lists(x.files, p, MaxLogFiles + 1, path) /\ HalfRead(x, p, Contents)
    BY <1>2 DEF Exact
  <2>2. path' = path /\ \A n \in p..MaxLogFiles : Contents'[n] = Contents[n]
    <3>1. \A n \in p..MaxLogFiles : n \in 1..MaxLogFiles
      BY DEF LogsAssumption
    <3> QED
      BY <1>2, <3>1 DEF Undisturbed
  <2>3. p \in 0..MaxLogFiles + 1
    BY DEF LogsAssumption
  <2>4. Joined(Contents', p) = Joined(Contents, p)
    BY <2>2, <2>3, JoinedAgree
  <2> QED
    BY <2>1, <2>2, <2>4 DEF HalfRead
<1>3. ASSUME x.at = "follow", NEW j \in DOMAIN file'[x.inode], j > x.pos
      PROVE  file'[x.inode][j] \notin ToSet(x.entries)
  <2>1. x.inode \in Files /\ ToSet(x.entries) \subseteq Written
    BY <1>3 DEF Holds
  <2>2. \/ j \in DOMAIN file[x.inode] /\ file'[x.inode][j] = file[x.inode][j]
        \/ file'[x.inode][j] \notin Written
    BY <1>3, <2>1, GrowsAt
  <2>3. \A i \in DOMAIN file[x.inode] : i > x.pos => file[x.inode][i] \notin ToSet(x.entries)
    BY <1>3 DEF Exact
  <2> QED
    BY <1>3, <2>1, <2>2, <2>3
<1>4. IsInjective(x.entries) /\ (x.at = "read" => IsInjective(x.seen))
      /\ (x.at = "list" => Lists(x.files, 0, x.next, path))
      /\ (x.at = "first" => Lists(x.files, 0, MaxLogFiles + 1, path))
      /\ (x.at = "shown" => ShownExactly(x))
  BY DEF Exact
<1> QED
  BY <1>1, <1>2, <1>3, <1>4 DEF Exact

LEMMA FineStays ==
    ASSUME LogsAssumption, LogInv, Grows, NEW x, Fine(x),
           x.at \in {"list", "first", "read"} /\ ~x.moved => Undisturbed
    PROVE  /\ x \in ReaderRec /\ Holds(x, Files', Written') /\ Within(x, file')
           /\ ~x.moved => Exact(x, path', Contents', file')
<1>1. x \in ReaderRec /\ Holds(x, Files, Written) /\ Within(x, file)
      /\ (~x.moved => Exact(x, path, Contents, file))
  BY DEF Fine
<1>2. Holds(x, Files', Written')
  BY <1>1, HoldsMore DEF Grows
<1>3. Within(x, file')
  <2>1. SUFFICES ASSUME x.at = "follow" PROVE x.pos <= Len(file'[x.inode])
    BY DEF Within
  <2>2. x.inode \in Files /\ x.pos <= Len(file[x.inode]) /\ x.pos \in Nat
    BY <1>1, <2>1 DEF Holds, Within, ReaderRec
  <2>3. Len(file[x.inode]) <= Len(file'[x.inode]) /\ Len(file[x.inode]) \in Nat
    BY <2>2, GrowsAt DEF LogInv, FileInv, Files
  <2>4. Len(file'[x.inode]) \in Int
    <3>1. file[x.inode] \in Seq(Entry)
      BY <2>2 DEF LogInv, FileInv, Files
    <3> QED
      BY <2>2, <3>1 DEF Grows
  <2> QED
    BY <2>2, <2>3, <2>4
<1>4. ~x.moved => Exact(x, path', Contents', file')
  BY <1>1, ExactStays
<1> QED
  BY <1>1, <1>2, <1>3, <1>4

LEMMA ReadersOfSupervisor ==
    ASSUME LogsAssumption, LogInv, FileInv', ReaderInv, Supervisor
    PROVE  ReaderInv' /\ \A r \in Readers : reader'[r].start = reader[r].start
<1>1. Grows /\ (Undisturbed \/ Disturbed)
  BY SupervisorGrows
<1>2. CASE Undisturbed
  <2>1. reader' = reader
    BY <1>2 DEF Undisturbed
  <2>2. ASSUME NEW r \in Readers
        PROVE  /\ reader[r] \in ReaderRec /\ Holds(reader[r], Files', Written')
               /\ Within(reader[r], file')
               /\ ~reader[r].moved => Exact(reader[r], path', Contents', file')
    BY <1>1, <1>2, FineStays DEF ReaderInv
  <2> QED
    BY <2>1, <2>2 DEF ReaderInv, Fine
<1>3. CASE Disturbed
  <2>1. ASSUME NEW r \in Readers
        PROVE  /\ reader'[r] \in ReaderRec /\ Holds(reader'[r], Files', Written')
               /\ Within(reader'[r], file')
               /\ ~reader'[r].moved => Exact(reader'[r], path', Contents', file')
               /\ reader'[r].start = reader[r].start
    <3> DEFINE x == reader[r]
    <3>1. Fine(x) /\ x \in ReaderRec /\ Holds(x, Files, Written)
      BY DEF ReaderInv, Fine
    <3>2. CASE x.at \in {"list", "first", "read"}
      <4> DEFINE y == [x EXCEPT !.moved = TRUE]
      <4>1. reader'[r] = y
        BY <1>3, <3>2 DEF Disturbed
      <4> HIDE DEF x
      <4>2. Holds(y, Files, Written) /\ y \in ReaderRec
        BY <3>1, HoldsMoved
      <4>3. y.moved = TRUE /\ y.at = x.at /\ y.start = x.start
        BY <3>1 DEF ReaderRec
      <4> HIDE DEF y
      <4>4. Holds(y, Files', Written')
        BY <1>1, <4>2, HoldsMore DEF Grows
      <4>5. Within(y, file')
        BY <3>2, <4>3 DEF Within
      <4> QED
        BY <4>1, <4>2, <4>3, <4>4, <4>5 DEF x
    <3>3. CASE x.at \notin {"list", "first", "read"}
      <4>1. reader'[r] = x
        BY <1>3, <3>3 DEF Disturbed
      <4> HIDE DEF x
      <4>2. /\ x \in ReaderRec /\ Holds(x, Files', Written') /\ Within(x, file')
            /\ ~x.moved => Exact(x, path', Contents', file')
        BY <1>1, <3>1, <3>3, FineStays
      <4> QED
        BY <4>1, <4>2 DEF x
    <3> QED
      BY <3>2, <3>3
  <2>2. reader' \in [Readers -> ReaderRec]
    <3>1. \A r \in Readers : reader'[r] \in ReaderRec
      BY <2>1
    <3> QED
      BY <1>3, <3>1 DEF Disturbed
  <2> QED
    BY <2>1, <2>2 DEF ReaderInv, Fine
<1> QED
  BY <1>1, <1>2, <1>3

-----------------------------------------------------------------------------
(* The invariant of the log, its writers and its readers.                  *)

LEMMA ReadersOfReader ==
    ASSUME LogsAssumption, LogInv, ReaderInv, NEW r \in Readers, Reads(r)
    PROVE  /\ ReaderInv'
           /\ \A q \in Readers : reader'[q].start \in {reader[q].start, start, NoStart}
<1>1. Fine(reader'[r]) /\ reader'[r].start \in {reader[r].start, start, NoStart}
  <2>1. CASE AskLogs(r)
    BY <2>1, AskStep
  <2>2. CASE ListLogFile(r)
    BY <2>2, ListStep
  <2>3. CASE ReadLogFile(r)
    BY <2>3, ReadStep
  <2>4. CASE OpenNewest(r)
    BY <2>4, OpenStep
  <2>5. CASE SeekEnd(r)
    BY <2>5, SeekStep
  <2>6. CASE FollowLine(r)
    BY <2>6, FollowStep
  <2>7. CASE FollowEnd(r)
    BY <2>7, EndStep DEF FollowEnd
  <2> QED
    BY <2>1, <2>2, <2>3, <2>4, <2>5, <2>6, <2>7 DEF Reads, Follows
<1>2. /\ UNCHANGED log /\ \A q \in Readers \ {r} : reader'[q] = reader[q]
      /\ \E y : reader' = [q \in Readers |-> IF q = r THEN y ELSE reader[q]]
  <2>1. ASSUME NEW s, NEW t, NEW x, ReaderStep(r, s, t, x)
        PROVE  UNCHANGED log /\ \E y : reader' = [reader EXCEPT ![r] = y]
    BY <2>1 DEF ReaderStep
  <2>2. UNCHANGED log /\ \E y : reader' = [reader EXCEPT ![r] = y]
    BY <2>1 DEF Reads, AskLogs, ListLogFile, ReadLogFile, OpenNewest, SeekEnd, Follows,
                FollowLine, FollowEnd
  <2>3. PICK y : reader' = [reader EXCEPT ![r] = y]
    BY <2>2
  <2>4. reader \in [Readers -> ReaderRec]
    BY DEF ReaderInv
  <2> QED
    BY <2>2, <2>3, <2>4
<1>3. Files' = Files /\ Written' = Written /\ file' = file /\ path' = path /\ Contents' = Contents
  BY <1>2 DEF log, Files, Written, Contents, FileAt
<1>4. ASSUME NEW q \in Readers
      PROVE  /\ Fine(reader'[q])
             /\ reader'[q].start \in {reader[q].start, start, NoStart}
  <2>1. CASE q = r
    BY <1>1, <2>1
  <2>2. CASE q # r
    BY <1>2, <2>2 DEF ReaderInv
  <2> QED
    BY <2>1, <2>2
<1>5. \A q \in Readers :
         /\ reader'[q] \in ReaderRec /\ Holds(reader'[q], Files', Written') /\ Within(reader'[q], file')
         /\ ~reader'[q].moved => Exact(reader'[q], path', Contents', file')
  BY <1>3, <1>4 DEF Fine
<1>6. reader' \in [Readers -> ReaderRec]
  <2>1. PICK y : reader' = [q \in Readers |-> IF q = r THEN y ELSE reader[q]]
    BY <1>2
  <2> DEFINE z(q) == IF q = r THEN y ELSE reader[q]
  <2>2. ASSUME NEW q \in Readers
        PROVE  z(q) \in ReaderRec
    <3>1. reader'[q] = z(q)
      BY <2>1
    <3>2. reader'[q] \in ReaderRec
      BY <1>5
    <3> HIDE DEF z
    <3> QED
      BY <3>1, <3>2
  <2> QED
    BY <2>1, <2>2
<1> QED
  BY <1>4, <1>5, <1>6 DEF ReaderInv, Fine

LEMMA ReaderInit == LogsAssumption /\ Init => ReaderInv
<1> SUFFICES ASSUME LogsAssumption, Init PROVE ReaderInv
  OBVIOUS
<1>1. reader = [r \in Readers |-> NoRead] /\ NoRead \in ReaderRec
  BY NoReadTypes DEF Init
<1>2. Holds(NoRead, Files, Written)
  BY NoReadHolds
<1>3. NoRead.at = "idle" /\ NoRead.entries = <<>>
  BY DEF NoRead
<1>4. Within(NoRead, file) /\ Exact(NoRead, path, Contents, file)
  BY <1>3, EmptyInjective DEF Within, Exact
<1> QED
  BY <1>1, <1>2, <1>4 DEF ReaderInv, Fine

(* Every start that a reader found on record separates output. *)
SeparatesAll == \A r \in Readers : Separates(reader[r].start, Written, stamped, clock, run)

LEMMA SeparatesNone == \A wr, st, t, k : Separates(NoStart, wr, st, t, k)
BY DEF Separates

LogsInv == Inv /\ ShiftInv /\ CountInv /\ FreshInv /\ StartInv /\ ReaderInv /\ SeparatesAll

LEMMA LogsInit == LogsAssumption /\ Init => LogsInv
<1> SUFFICES ASSUME LogsAssumption, Init PROVE LogsInv
  OBVIOUS
<1>1. ShiftInv
  BY DEF Init, ShiftInv
<1>2. SeparatesAll
  <2>1. \A r \in Readers : reader[r].start = NoStart
    BY DEF Init, NoRead
  <2> QED
    BY <2>1, SeparatesNone DEF SeparatesAll
<1> QED
  BY <1>1, <1>2, InvInit, CountInit, FreshInit, StartInit, ReaderInit DEF LogsInv

LEMMA LogsStep ==
    ASSUME LogsAssumption, LogsInv, [Next]_vars
    PROVE  LogsInv' /\ Settled
<1>1. Inv' /\ Settled
  BY InvStep DEF LogsInv
<1>2. LogInv /\ StampInv /\ FileInv /\ FreshInv /\ FileInv'
  BY <1>1 DEF LogsInv, LogInv, Inv
<1>3. CASE Supervisor
  <2>1. ShiftInv'
    BY <1>2, <1>3, ShiftStep DEF LogsInv
  <2>2. CountInv'
    BY <1>2, <1>3, CountStep DEF LogsInv
  <2>3. FreshInv'
    BY <1>2, <1>3, FreshStep
  <2>4. StartInv'
    BY <1>2, <1>3, StartStep DEF LogsInv
  <2>5. ReaderInv' /\ \A r \in Readers : reader'[r].start = reader[r].start
    BY <1>2, <1>3, ReadersOfSupervisor DEF LogsInv
  <2>6. SeparatesAll'
    <3>1. ASSUME NEW r \in Readers
          PROVE  Separates(reader'[r].start, Written', stamped', clock', run')
      <4>1. Separates(reader[r].start, Written, stamped, clock, run)
        BY DEF LogsInv, SeparatesAll
      <4>2. Separates(reader[r].start, Written', stamped', clock', run')
        BY <1>2, <1>3, <4>1, SeparatesStep
      <4> QED
        BY <2>5, <4>2
    <3> QED
      BY <3>1 DEF SeparatesAll
  <2> QED
    BY <1>1, <2>1, <2>2, <2>3, <2>4, <2>5, <2>6 DEF LogsInv
<1>4. CASE \E r \in Readers : Reads(r)
  <2>0. PICK r \in Readers : Reads(r)
    BY <1>4
  <2>1. UNCHANGED <<log, stamped, sup, shift, run, clock, dropped>>
    BY <2>0, ReaderSteps
  <2>2. UNCHANGED <<attempt, marks>>
    <3>1. ASSUME NEW s, NEW t, NEW x, ReaderStep(r, s, t, x)
          PROVE  UNCHANGED <<attempt, marks>>
      BY <3>1 DEF ReaderStep
    <3> QED
      BY <2>0, <3>1 DEF Reads, AskLogs, ListLogFile, ReadLogFile, OpenNewest, SeekEnd, Follows,
                        FollowLine, FollowEnd
  <2>3. /\ UNCHANGED <<file, path, open, start, exit>>
        /\ Written' = Written /\ Files' = Files
    BY <2>1, <2>2 DEF log, marks, Written, Files
  <2>4. ShiftInv' /\ CountInv'
    BY <2>1, <2>2, <2>3 DEF LogsInv, ShiftInv, CountInv
  <2>5. FreshInv' /\ StartInv'
    BY <2>1, <2>3 DEF LogsInv, FreshInv, StartInv
  <2>6. /\ ReaderInv'
        /\ \A q \in Readers : reader'[q].start \in {reader[q].start, start, NoStart}
    BY <1>2, <2>0, ReadersOfReader DEF LogsInv
  <2>7. SeparatesAll'
    <3>1. ASSUME NEW q \in Readers
          PROVE  Separates(reader'[q].start, Written', stamped', clock', run')
      <4>1. /\ Separates(reader[q].start, Written, stamped, clock, run)
            /\ Separates(start, Written, stamped, clock, run)
            /\ Separates(NoStart, Written, stamped, clock, run)
        BY SeparatesNone DEF LogsInv, SeparatesAll, StartInv
      <4>2. Separates(reader'[q].start, Written, stamped, clock, run)
        BY <2>6, <4>1
      <4> QED
        BY <2>1, <2>3, <4>2
    <3> QED
      BY <3>1 DEF SeparatesAll
  <2> QED
    BY <1>1, <2>4, <2>5, <2>6, <2>7 DEF LogsInv
<1>5. CASE UNCHANGED vars
  <2>1. UNCHANGED <<file, path, open, stamped, sup, attempt, shift, run, clock, start, exit, dropped, reader>>
    BY <1>5 DEF vars, log, marks
  <2>2. Written' = Written /\ Files' = Files /\ Contents' = Contents
    BY <2>1 DEF Written, Files, Contents, FileAt
  <2>3. ShiftInv' /\ CountInv' /\ FreshInv' /\ StartInv' /\ SeparatesAll'
    BY <2>1, <2>2 DEF LogsInv, ShiftInv, CountInv, FreshInv, StartInv, SeparatesAll
  <2>4. ReaderInv'
    BY <2>1, <2>2 DEF LogsInv, ReaderInv, Fine
  <2> QED
    BY <1>1, <2>3, <2>4 DEF LogsInv
<1> QED
  BY <1>1, <1>3, <1>4, <1>5 DEF Next

-----------------------------------------------------------------------------
(* Every step keeps LogsInv, whatever the supervisor, the kills and the    *)
(* readers do in between.                                                  *)
THEOREM LogsInvariant == Spec => []LogsInv
<1>1. Init => LogsInv
  BY LogsInit, LogsAssumption
<1>2. LogsInv /\ [Next]_vars => LogsInv'
  BY LogsStep, LogsAssumption
<1> QED
  BY <1>1, <1>2, PTL DEF Spec

LEMMA LogsTypes == LogsAssumption /\ LogsInv => TypeOK
<1> SUFFICES ASSUME LogsAssumption, LogsInv PROVE TypeOK
  OBVIOUS
<1>1. /\ sup \in SupSteps /\ run \in 0..MaxRuns /\ clock \in Nat /\ MaxRuns \in Nat
      /\ stamped \in [Writers -> Entry \cup {None}]
  BY DEF LogsInv, Inv, StampInv, LogsAssumption
<1>2. /\ file \in Seq(Seq(Entry)) /\ path \in [0..MaxLogFiles -> Files \cup {None}]
      /\ open \in Files \cup {None} /\ shift \in 0..MaxLogFiles
  BY DEF LogsInv, Inv, FileInv, Paths
<1>3. /\ attempt \in 0..MaxRuns /\ exit \in BOOLEAN /\ dropped \subseteq Entry
      /\ start \in [time : Int \cup {None}, run : 0..MaxRuns]
  BY <1>1 DEF LogsInv, CountInv
<1>4. ASSUME NEW r \in Readers
      PROVE  /\ reader[r].at \in ReadStates /\ reader[r].entries \in Seq(Entry)
             /\ reader[r].inode \in Files \cup {None}
  <2>1. reader[r] \in ReaderRec /\ Holds(reader[r], Files, Written)
    BY DEF LogsInv, ReaderInv, Fine
  <2> QED
    BY <2>1 DEF ReaderRec, Holds
<1> QED
  BY <1>1, <1>2, <1>3, <1>4 DEF TypeOK, SupSteps, ReadStates

(* The log, its paths and what readers hold keep their types: no path and  *)
(* no reader ever has a file that was never created.                       *)
THEOREM LogsTypeCorrect == Spec => []TypeOK
BY LogsInvariant, LogsTypes, LogsAssumption, PTL

(* No line the command printed is ever dropped, whatever is rotated, and   *)
(* at whatever step supervisors are killed (supervisor.go:320-334).        *)
THEOREM NoOutputDropped == Spec => []OutputNotDropped
<1>1. LogsInv => OutputNotDropped
  BY DEF LogsInv, Inv
<1> QED
  BY <1>1, LogsInvariant, PTL

(* Nothing is written to a file once it has been rotated: the log is       *)
(* closed before its path is moved, and every later writer opens what is   *)
(* at output.jsonl (supervisor.go:320-334, rotate.go:27-45).               *)
THEOREM RotatedStays == Spec => RotatedFilesAreFinal
<1>1. ASSUME LogsAssumption, LogsInv, [Next]_vars
      PROVE  [\A n \in 1..MaxLogFiles : path[n] # None => file'[path[n]] = file[path[n]]]_vars
  <2>1. SUFFICES ASSUME NEW n \in 1..MaxLogFiles, path[n] # None
                 PROVE  file'[path[n]] = file[path[n]]
    OBVIOUS
  <2>2. n \in Paths /\ 0 \in Paths /\ n # 0
    BY <1>1 DEF Paths, LogsAssumption
  <2>3. path[n] \in Files /\ path[n] # path[0]
    BY <2>1, <2>2, <1>1 DEF LogsInv, Inv, FileInv
  <2> QED
    BY <2>3, <1>1, LogsStep DEF Settled
<1>2. LogsInv /\ [Next]_vars
         => [\A n \in 1..MaxLogFiles : path[n] # None => file'[path[n]] = file[path[n]]]_vars
  BY <1>1, LogsAssumption
<1> QED
  BY <1>2, LogsInvariant, PTL DEF Spec, RotatedFilesAreFinal

(* The delay before a child is started again is one second at least and    *)
(* one minute at most, and never shorter than the one before, at every     *)
(* attempt, though a restart that was asked for sets the attempt back      *)
(* (restart.go:32-51, supervisor.go:286-380).                              *)
THEOREM DelaysBackOff == Spec => []BacksOff
<1>1. LogsInv => BacksOff
  BY LogsAssumption, CountBacksOff DEF LogsInv
<1> QED
  BY <1>1, LogsInvariant, PTL

(* In the middle of a rotation too, and after one that a kill cut short,   *)
(* the paths give the log in the order in which it was written; only the   *)
(* oldest file ever goes (rotate.go:27-45, logs.go:20-35).                 *)
THEOREM OnlyTheOldestIsLost == Spec => LosesOnlyTheOldest
<1>1. ASSUME LogsAssumption, LogsInv, [Next]_vars
      PROVE  OnlyTheOldest
  <2>1. StampInv /\ FileInv /\ FileInv' /\ ShiftInv
    BY <1>1, LogsStep DEF LogsInv, Inv
  <2>2. CASE Supervisor
    BY <1>1, <2>1, <2>2, KeptStep
  <2>3. CASE ~Supervisor
    <3>1. UNCHANGED log
      <4>1. CASE UNCHANGED vars
        BY <4>1 DEF vars
      <4>2. CASE \E r \in Readers : Reads(r)
        BY <4>2, ReaderSteps
      <4> QED
        BY <1>1, <2>3, <4>1, <4>2 DEF Next
    <3>2. UNCHANGED <<file, path>>
      BY <3>1 DEF log
    <3> QED
      BY <1>1, <3>2, KeptStays DEF OnlyTheOldest
  <2> QED
    BY <2>2, <2>3
<1>2. LogsInv /\ [Next]_vars
         => [\/ Kept' = Kept \/ sup' = "removed"
             \/ Len(Kept') = Len(Kept) + 1 /\ IsPrefix(Kept, Kept')
             \/ Kept = FileAt(MaxLogFiles) \o Kept']_vars
  BY <1>1, LogsAssumption DEF OnlyTheOldest
<1> QED
  BY <1>2, LogsInvariant, PTL DEF Spec, LosesOnlyTheOldest

(* Though it stops at the first file whose first entry is too old, or when *)
(* it has enough, a read shows the last tail entries of all that match, as *)
(* if it had gone through all the files (logs.go:37-90).                   *)
THEOREM ReadsAreExact == Spec => []ReadsExact
<1>1. LogsInv => ReadsExact
  <2> SUFFICES ASSUME LogsInv, NEW r \in Readers, reader[r].at = "shown", ~reader[r].moved,
                      reader[r].since = None \/ InOrder(reader[r].seen)
               PROVE  reader[r].entries
                        = LastOf(FilterEntries(reader[r].seen, reader[r].ask, reader[r].since),
                                 reader[r].ask.tail)
    BY DEF ReadsExact
  <2>1. ShownExactly(reader[r])
    BY DEF LogsInv, ReaderInv, Fine, Exact
  <2> QED
    BY <2>1 DEF ShownExactly
<1> QED
  BY <1>1, LogsInvariant, PTL

(* Undisturbed by a rotation while it reads the files, a reader shows no   *)
(* entry twice, nor does a follower that opens the newest file only then   *)
(* (logs.go:37-90, commands.go:459-520).                                   *)
THEOREM NothingShownTwice == Spec => []NothingTwice
<1>1. LogsInv => NothingTwice
  BY DEF LogsInv, ReaderInv, Fine, Exact, NothingTwice
<1> QED
  BY <1>1, LogsInvariant, PTL

LEMMA RunShown ==
    ASSUME LogsAssumption, LogsInv, NEW r \in Readers,
           reader[r].at = "shown", ~reader[r].moved, InOrder(reader[r].seen),
           ~reader[r].ask.all, ~reader[r].ask.since, reader[r].ask.stream = "o",
           reader[r].ask.tail < 0, reader[r].start # NoStart
    PROVE  ToSet(reader[r].entries)
             = {e \in ToSet(reader[r].seen) : e.stream = "o" /\ e.run >= reader[r].start.run}
<1> DEFINE x == reader[r]
<1>1. /\ x \in ReaderRec /\ Holds(x, Files, Written) /\ ShownExactly(x)
      /\ Separates(x.start, Written, stamped, clock, run)
  BY DEF LogsInv, ReaderInv, Fine, Exact, SeparatesAll
<1>2. /\ x.at = "shown" /\ InOrder(x.seen) /\ ~x.ask.since /\ x.ask.stream = "o"
      /\ x.ask.tail < 0 /\ x.start # NoStart
  OBVIOUS
<1> HIDE DEF x
<1>3. x.ask.tail \in Int /\ x.seen \in Seq(Entry) /\ x.entries \in Seq(Entry)
  BY <1>1 DEF ReaderRec
<1>4. x.since = x.start.time /\ ToSet(x.seen) \subseteq Written
  BY <1>1, <1>2 DEF Holds
<1>5. x.start.time \in Nat /\ x.start.run \in Nat /\ x.start.time # None
      /\ \A e \in Written : Tells(x.start, e)
  BY <1>1, <1>2 DEF Separates, LogsAssumption
<1> DEFINE W == Wanted(x.ask, x.since)
<1>6. x.entries = Select(x.seen, W)
  <2>1. FilterEntries(x.seen, x.ask, x.since) = Select(x.seen, W)
    BY DEF FilterEntries
  <2>2. Select(x.seen, W) \in Seq(Entry)
    BY <1>3, SelectTypes
  <2>3. x.entries = LastOf(FilterEntries(x.seen, x.ask, x.since), x.ask.tail)
    BY <1>1, <1>2 DEF ShownExactly
  <2> HIDE DEF W
  <2> QED
    BY <1>2, <1>3, <2>1, <2>2, <2>3, LastOfIs
<1>7. ToSet(x.entries) = ToSet(x.seen) \cap W
  BY <1>3, <1>6, SelectSet
<1>8. ASSUME NEW e \in ToSet(x.seen)
      PROVE  e \in W <=> e.stream = "o" /\ e.run >= x.start.run
  <2>0. e \in Entry
    BY <1>3 DEF ToSet
  <2>1. e \in Entry /\ e.time \in Int /\ e.stream \in {"o", "e", "x"} /\ Tells(x.start, e)
    BY <2>0, <1>4, <1>5 DEF Entry, Streams
  <2>2. e \in W <=> e.stream = "o" /\ ~(e.time < x.start.time)
    BY <1>2, <1>4, <1>5, <2>1 DEF Wanted, Before
  <2> QED
    BY <1>5, <2>1, <2>2 DEF Tells
<1>9. ToSet(x.entries) = {e \in ToSet(x.seen) : e.stream = "o" /\ e.run >= x.start.run}
  BY <1>7, <1>8
<1> QED
  BY <1>9 DEF x

(* The start on record tells the output of the last child from that of the *)
(* ones before: the loop takes the time when all of those have been        *)
(* written, and before its own child writes any (supervisor.go:286-310,    *)
(* logs.go:60-80).                                                         *)
THEOREM TheRunIsShown == Spec => []ShowsTheRun
<1>1. LogsInv => ShowsTheRun
  BY RunShown, LogsAssumption DEF ShowsTheRun
<1> QED
  BY <1>1, LogsInvariant, PTL
=============================================================================
