-------------------------------- MODULE Logs --------------------------------
(***************************************************************************)
(* The output log of one task: the supervisor that writes it, rotates it   *)
(* between two children and may be killed at any step, the removal of the  *)
(* task's directory, and the readers of Service.Logs, which find and read  *)
(* the files one by one meanwhile and may then follow the newest (bgtask   *)
(* logs -f).                                                               *)
(*                                                                         *)
(* A file is a sequence of entries and stays what it is under whatever     *)
(* path; an open file is not bound to a path.  An entry's time is taken    *)
(* before the writer's mutex, so entries may be written out of the order   *)
(* of their times.  Sizes are counted in entries.                          *)
(***************************************************************************)
EXTENDS Integers, Sequences, SequencesExt, Subsequences

CONSTANTS
    Readers, None,
    MaxLogFiles,     \* rotated files kept; 3 in the code
    MaxLogSize,      \* entries from which a file is rotated
    Captured,        \* the pipes the command writes to: "o", "e"
    Asks,            \* the requests readers make
    MaxTime,         \* bound on the clock
    MaxRuns          \* bound on the children started

Streams == {"o", "e", "x"}

ASSUME LogsAssumption ==
    /\ Captured \subseteq {"o", "e"} /\ None \notin Int
    /\ MaxLogFiles \in Nat \ {0} /\ MaxLogSize \in Nat \ {0}
    /\ MaxTime \in Nat /\ MaxRuns \in Nat
    /\ Asks \subseteq [stream : {"all", "o", "e"}, tail : Int, all : BOOLEAN, since : BOOLEAN]

Entry == [time : Int, stream : Streams, run : 0..MaxRuns]

VARIABLES
    file,        \* the log files created so far, each a sequence of entries
    path,        \* path[n]: the file at output.jsonl.n (0: output.jsonl), or None
    open,        \* the file of the jsonlWriter, or None
    stamped,     \* stamped[w]: the entry that w has made and not yet written
    sup,         \* where Run and runChild are, and whether the task is removed
    attempt,     \* how often the child was started since it was asked for
    shift,       \* the rotated file the rotation comes to next
    run,         \* the number of the child
    clock,       \* the last time taken
    start,       \* what child.starttime says, and of which child
    exit,        \* exit.json exists
    dropped,     \* entries for which no file was open
    reader       \* reader[r]: the request of reader r

log == <<file, path, open>>
marks == <<start, exit>>
vars == <<log, stamped, sup, attempt, shift, run, clock, marks, dropped, reader>>

(* The goroutines that write: both captures, the health checker, the loop. *)
Writers == Captured \cup {"health", "loop"}
StreamOf(w) == IF w \in Captured THEN w ELSE "x"

NoStart == [time |-> None, run |-> 0]

NoRead == [at |-> "idle", ask |-> [stream |-> "all", tail |-> -1, all |-> TRUE, since |-> FALSE],
           start |-> NoStart, since |-> None, next |-> 0, files |-> <<>>,
           entries |-> <<>>, seen |-> <<>>, moved |-> FALSE, inode |-> None, pos |-> 0]

Init ==
    /\ file = <<>> /\ path = [n \in 0..MaxLogFiles |-> None] /\ open = None
    /\ stamped = [w \in Writers |-> None]
    /\ sup = "gone" /\ attempt = 0 /\ shift = 0 /\ run = 0 /\ clock = 0
    /\ start = NoStart /\ exit = FALSE
    /\ dropped = {}
    /\ reader = [r \in Readers |-> NoRead]

-----------------------------------------------------------------------------
(* jsonlWriter *)

Stamp(w) ==
    /\ stamped[w] = None /\ clock < MaxTime
    /\ clock' = clock + 1
    /\ stamped' = [stamped EXCEPT ![w] =
          [time |-> clock + 1, stream |-> StreamOf(w), run |-> run]]

Write(w) ==
    /\ stamped[w] # None /\ ~(w = "loop" /\ sup = "timing")
    /\ IF open = None
       THEN dropped' = dropped \cup {stamped[w]} /\ UNCHANGED file
       ELSE /\ file' = [file EXCEPT ![open] = Append(@, stamped[w])]
            /\ UNCHANGED dropped
    /\ stamped' = [stamped EXCEPT ![w] = None]
    /\ UNCHANGED <<path, open, sup, shift, run, attempt, clock, marks, reader>>

(* os.OpenFile with O_CREATE and O_APPEND. *)
OpenLog ==
    IF path[0] = None
    THEN /\ file' = Append(file, <<>>)
         /\ open' = Len(file) + 1
         /\ path' = [path EXCEPT ![0] = Len(file) + 1]
    ELSE open' = path[0] /\ UNCHANGED <<file, path>>

CloseLog == open' = None /\ UNCHANGED <<file, path>>

Capture(w) ==
    /\ w \in Captured /\ sup = "running"
    /\ Stamp(w)
    /\ UNCHANGED <<log, sup, shift, run, attempt, marks, dropped, reader>>

(* The health checker works until Run returns, whatever the loop does. *)
HealthEvent ==
    /\ sup \notin {"gone", "removed"}
    /\ Stamp("health")
    /\ UNCHANGED <<log, sup, shift, run, attempt, marks, dropped, reader>>

-----------------------------------------------------------------------------
(* Run and runChild *)

(* Mutant: a restart resets the attempt at the head of the loop. *)
StartChild_FromZero ==
    /\ sup \in {"begin", "ended", "delay"} /\ run < MaxRuns
    /\ \/ attempt' = 0 /\ sup # "begin"
       \/ attempt' = attempt + 1 /\ sup # "ended"
    /\ run' = run + 1
    /\ Stamp("loop")
    /\ start' = NoStart
    /\ sup' = "timing"
    /\ UNCHANGED <<log, shift, exit, dropped, reader>>

(* A child is started: at first, at once after a restart that was asked    *)
(* for, or when the delay is over or cut short by such a restart.          *)
(* os.WriteFile empties child.starttime before it writes the time taken.   *)
StartChild ==
    /\ sup \in {"begin", "ended", "delay"} /\ run < MaxRuns
    /\ \/ attempt' = 1 /\ sup # "begin"
       \/ attempt' = attempt + 1 /\ sup # "ended"
    /\ run' = run + 1
    /\ Stamp("loop")
    /\ start' = NoStart
    /\ sup' = "timing"
    /\ UNCHANGED <<log, shift, exit, dropped, reader>>

(* cmd.Start fails: no child, no start on record, but a child_error event. *)
StartFails ==
    /\ sup \in {"begin", "ended", "delay"} /\ run < MaxRuns
    /\ \/ attempt' = 1 /\ sup # "begin"
       \/ attempt' = attempt + 1 /\ sup # "ended"
    /\ run' = run + 1
    /\ Stamp("loop")
    /\ sup' = "ended"
    /\ UNCHANGED <<log, shift, marks, dropped, reader>>

WriteStartTime ==
    /\ sup = "timing"
    /\ start' = [time |-> stamped["loop"].time, run |-> run]
    /\ stamped' = [stamped EXCEPT !["loop"] = None]
    /\ sup' = "running"
    /\ UNCHANGED <<log, shift, run, attempt, clock, exit, dropped, reader>>

(* Mutant: without wg.Wait. *)
ChildEnds_NoWait ==
    /\ sup = "running"
    /\ sup' = "ended"
    /\ UNCHANGED <<log, stamped, shift, run, attempt, clock, marks, dropped, reader>>

(* The captures have seen the end of both pipes: wg.Wait. *)
ChildEnds ==
    /\ sup = "running"
    /\ \A w \in Captured : stamped[w] = None
    /\ sup' = "ended"
    /\ UNCHANGED <<log, stamped, shift, run, attempt, clock, marks, dropped, reader>>

RestartLater ==
    /\ sup = "ended"
    /\ Stamp("loop")
    /\ sup' = "restarting"
    /\ UNCHANGED <<log, shift, run, attempt, marks, dropped, reader>>

RecordExit ==
    /\ sup = "ended"
    /\ exit' = TRUE
    /\ Stamp("loop")
    /\ sup' = "leaving"
    /\ UNCHANGED <<log, shift, run, attempt, start, dropped, reader>>

Returns ==
    /\ sup = "leaving" /\ stamped["loop"] = None
    /\ CloseLog
    /\ sup' = "gone"
    /\ stamped' = [stamped EXCEPT !["health"] = None]
    /\ UNCHANGED <<shift, run, attempt, clock, marks, dropped, reader>>

(* computeDelay, in seconds, without a configured RestartDelay.            *)
Delay(n) ==
    LET shift6 == IF n - 1 > 6 THEN 6 ELSE n - 1 IN
    IF shift6 < 0 THEN 0         \* a shift by 2^64 - 1
    ELSE IF 2 ^ shift6 > 60 THEN 60 ELSE 2 ^ shift6

ShouldRotateLog == path[0] # None /\ Len(file[path[0]]) >= MaxLogSize

NoRotation ==
    /\ sup = "restarting" /\ stamped["loop"] = None /\ ~ShouldRotateLog
    /\ sup' = "delay"
    /\ UNCHANGED <<log, stamped, shift, run, attempt, clock, marks, dropped, reader>>

(* Mutant: one path too many. *)
BeginRotation_OneMore ==
    /\ sup = "restarting" /\ stamped["loop"] = None /\ ShouldRotateLog
    /\ CloseLog
    /\ sup' = "rotating" /\ shift' = MaxLogFiles + 1
    /\ UNCHANGED <<stamped, run, attempt, clock, marks, dropped, reader>>

(* Mutant: the log is rotated while it is open. *)
BeginRotation_StaysOpen ==
    /\ sup = "restarting" /\ stamped["loop"] = None /\ ShouldRotateLog
    /\ UNCHANGED log
    /\ sup' = "rotating" /\ shift' = MaxLogFiles
    /\ UNCHANGED <<stamped, run, attempt, clock, marks, dropped, reader>>

BeginRotation ==
    /\ sup = "restarting" /\ stamped["loop"] = None /\ ShouldRotateLog
    /\ CloseLog
    /\ sup' = "rotating" /\ shift' = MaxLogFiles
    /\ UNCHANGED <<stamped, run, attempt, clock, marks, dropped, reader>>

(* What readers between their first look at the paths and their last find  *)
(* is no longer one state of the log.                                      *)
Disturbed ==
    reader' = [r \in Readers |->
        IF reader[r].at \in {"list", "first", "read"} THEN [reader[r] EXCEPT !.moved = TRUE]
        ELSE reader[r]]

(* os.Rename replaces what is there, and fails if there is nothing to move *)
MovePath(n) ==
    path' = IF path[n] = None THEN path
            ELSE [path EXCEPT ![n] = None, ![n + 1] = path[n]]

(* Mutant: from the newest path to the oldest. *)
RotateLog_NewestFirst ==
    /\ sup = "rotating"
    /\ IF shift = 0 THEN path' = [path EXCEPT ![MaxLogFiles] = None]
                    ELSE MovePath(MaxLogFiles - shift)
    /\ IF shift = 0 THEN sup' = "reopen" /\ UNCHANGED shift
                    ELSE shift' = shift - 1 /\ UNCHANGED sup
    /\ Disturbed
    /\ UNCHANGED <<file, open, stamped, run, attempt, clock, marks, dropped>>

RotateLog ==
    /\ sup = "rotating"
    /\ IF shift = MaxLogFiles THEN path' = [path EXCEPT ![shift] = None]
                              ELSE MovePath(shift)
    /\ IF shift = 0 THEN sup' = "reopen" /\ UNCHANGED shift
                    ELSE shift' = shift - 1 /\ UNCHANGED sup
    /\ Disturbed
    /\ UNCHANGED <<file, open, stamped, run, attempt, clock, marks, dropped>>

Reopen ==
    /\ sup = "reopen"
    /\ OpenLog
    /\ Disturbed
    /\ sup' = "delay"
    /\ UNCHANGED <<stamped, shift, run, attempt, clock, marks, dropped>>

StoppedInDelay ==
    /\ sup = "delay"
    /\ exit' = TRUE
    /\ CloseLog
    /\ sup' = "gone"
    /\ stamped' = [stamped EXCEPT !["health"] = None]
    /\ UNCHANGED <<shift, run, attempt, clock, start, dropped, reader>>

Killed ==
    /\ sup \notin {"gone", "removed"}
    /\ CloseLog
    /\ sup' = "gone" /\ shift' = 0
    /\ stamped' = [w \in Writers |-> None]
    /\ UNCHANGED <<run, attempt, clock, marks, dropped, reader>>

(* The task is started, or started again. *)
NewSupervisor ==
    /\ sup = "gone" /\ run < MaxRuns
    /\ exit' = FALSE
    /\ OpenLog
    /\ Disturbed
    /\ sup' = "begin" /\ attempt' = 0
    /\ UNCHANGED <<stamped, shift, run, clock, start, dropped>>

(* Store.Remove, in one step: whoever has a file open keeps it. *)
RemoveTask ==
    /\ path' = [n \in 0..MaxLogFiles |-> None] /\ open' = None
    /\ start' = NoStart /\ exit' = FALSE
    /\ Disturbed
    /\ sup' = "removed"
    /\ stamped' = [stamped EXCEPT !["health"] = None]
    /\ UNCHANGED <<file, shift, run, attempt, clock, dropped>>

(* A task with Meta.AutoRm goes once it has exited; as it stays when it is *)
(* stopped, both ends are open to one task.                                *)
RemovesItself ==
    /\ sup = "leaving" /\ stamped["loop"] = None
    /\ RemoveTask

(* rm, cleanup or run --replace, whose supervisor is gone or was stopped. *)
RequestRemoves ==
    /\ sup = "gone"
    /\ RemoveTask

Supervisor ==
    \/ \E w \in Writers : Write(w) \/ Capture(w)
    \/ HealthEvent
    \/ StartChild \/ StartFails \/ WriteStartTime \/ ChildEnds
    \/ RestartLater \/ RecordExit \/ Returns \/ RemovesItself
    \/ NoRotation \/ BeginRotation \/ RotateLog \/ Reopen
    \/ StoppedInDelay \/ Killed \/ NewSupervisor
    \/ RequestRemoves

-----------------------------------------------------------------------------
(* Service.Logs *)

ReaderStep(r, s, t, x) ==
    /\ reader[r].at = s
    /\ reader' = [reader EXCEPT ![r] = [x EXCEPT !.at = t]]
    /\ UNCHANGED <<log, stamped, sup, shift, run, attempt, clock, marks, dropped>>

Later(s, t) == IF s = None \/ (t # None /\ t > s) THEN t ELSE s

(* The lower bound of times: the child's start, and any --since cutoff.    *)
AskLogs(r) ==
    /\ sup # "removed"
    /\ \E ask \in Asks :
          LET from == IF ask.all THEN NoStart ELSE start IN
          \E cutoff \in IF ask.since THEN -1..clock ELSE {None} :
             ReaderStep(r, "idle", "list",
                [reader[r] EXCEPT !.ask = ask, !.start = from,
                                  !.since = Later(from.time, cutoff)])

ListLogFile(r) ==
    LET x == reader[r]
        files == IF path[x.next] = None THEN x.files ELSE Append(x.files, x.next)
    IN ReaderStep(r, "list",
          CASE x.next < MaxLogFiles -> "list"
            [] files = <<>> -> "no logs"
            [] OTHER -> "first",
          [x EXCEPT !.next = @ + 1, !.files = files])

Before(e, since) == since # None /\ e.time < since

Wanted(ask, since) ==
    {e \in Entry : ask.stream \in {"all", e.stream} /\ ~Before(e, since)}

FilterEntries(raw, ask, since) == Select(raw, Wanted(ask, since))

LastOf(entries, tail) ==
    IF tail < 0 \/ Len(entries) <= tail THEN entries
    ELSE SubSeq(entries, Len(entries) - tail + 1, Len(entries))

(* Mutant: the scan ends one entry early. *)
Enough_OneShort(raw, x) ==
    \/ raw # <<>> /\ Before(raw[1], x.since)
    \/ x.ask.tail >= 0 /\ Len(x.entries) + 1 >= x.ask.tail

(* Mutant: nor is one if this one had nothing to show. *)
Enough_NothingFound(raw, x) ==
    \/ FilterEntries(raw, x.ask, x.since) = <<>>
    \/ x.ask.tail >= 0 /\ Len(x.entries) >= x.ask.tail

(* No older file is needed. *)
Enough(raw, x) ==
    \/ raw # <<>> /\ Before(raw[1], x.since)
    \/ x.ask.tail >= 0 /\ Len(x.entries) >= x.ask.tail

(* All entries kept, oldest first. *)
FileAt(n) == IF path[n] = None THEN <<>> ELSE file[path[n]]

Kept == FlattenSeq([k \in 1..MaxLogFiles + 1 |-> FileAt(MaxLogFiles + 1 - k)])

ReadLogFile(r) ==
    LET x == reader[r]
        raw == FileAt(Head(x.files))
        y == [x EXCEPT !.entries = FilterEntries(raw, x.ask, x.since) \o @,
                       !.seen = IF x.at = "first" THEN Kept ELSE @,
                       !.files = Tail(@)]
    IN /\ x.at \in {"first", "read"}
       /\ IF Enough(raw, y) \/ y.files = <<>>
          THEN ReaderStep(r, x.at, "shown",
                  [y EXCEPT !.files = <<>>, !.next = 0, !.entries = LastOf(@, x.ask.tail)])
          ELSE ReaderStep(r, x.at, "read", y)

-----------------------------------------------------------------------------
(* showLogs with -f: after the entries of Service.Logs, the new lines of   *)
(* the file that was the newest when it came to open it.                   *)

OpenNewest(r) ==
    IF path[0] = None THEN ReaderStep(r, "shown", "ended", NoRead)
    ELSE ReaderStep(r, "shown", "opened",
            [NoRead EXCEPT !.ask = reader[r].ask, !.entries = reader[r].entries,
                           !.moved = reader[r].moved, !.inode = path[0]])

(* Mutant: the whole file is new. *)
SeekEnd_NoSeek(r) == ReaderStep(r, "opened", "follow", reader[r])

SeekEnd(r) ==
    ReaderStep(r, "opened", "follow",
       [reader[r] EXCEPT !.pos = Len(file[reader[r].inode])])

AtEOF(r) == reader[r].pos = Len(file[reader[r].inode])

FollowLine(r) ==
    /\ reader[r].at = "follow" /\ ~AtEOF(r)
    /\ LET e == file[reader[r].inode][reader[r].pos + 1] IN
       ReaderStep(r, "follow", "follow",
          [reader[r] EXCEPT !.pos = @ + 1,
             !.entries = @ \o FilterEntries(<<e>>, reader[r].ask, None)])

(* Mutant: it looks for exit.json only while it has the newest file. *)
FollowEnd_Newest(r) ==
    /\ reader[r].at = "follow" /\ AtEOF(r) /\ exit /\ reader[r].inode = path[0]
    /\ ReaderStep(r, "follow", "ended", NoRead)

(* At every fifth EOF in a row it looks for exit.json. *)
FollowEnd(r) ==
    /\ reader[r].at = "follow" /\ AtEOF(r) /\ exit
    /\ ReaderStep(r, "follow", "ended", NoRead)

Follows(r) == FollowLine(r) \/ FollowEnd(r)

Reads(r) ==
    \/ AskLogs(r) \/ ListLogFile(r) \/ ReadLogFile(r)
    \/ OpenNewest(r) \/ SeekEnd(r) \/ Follows(r)

Next == Supervisor \/ \E r \in Readers : Reads(r)

Spec == Init /\ [][Next]_vars

(* A follower polls every 200 ms for as long as it takes. *)
FairSpec == Spec /\ \A r \in Readers : WF_vars(Follows(r))

-----------------------------------------------------------------------------
Files == 1..Len(file)

TypeOK ==
    /\ file \in Seq(Seq(Entry)) /\ path \in [0..MaxLogFiles -> Files \cup {None}]
    /\ open \in Files \cup {None}
    /\ stamped \in [Writers -> Entry \cup {None}]
    /\ sup \in {"begin", "timing", "running", "ended", "restarting",
                "rotating", "reopen", "delay", "leaving", "gone", "removed"}
    /\ attempt \in 0..MaxRuns
    /\ shift \in 0..MaxLogFiles /\ run \in 0..MaxRuns /\ clock \in Nat
    /\ start \in [time : Int \cup {None}, run : 0..MaxRuns]
    /\ exit \in BOOLEAN /\ dropped \subseteq Entry
    /\ \A r \in Readers :
          /\ reader[r].at \in {"idle", "list", "first", "read", "shown", "no logs",
                               "opened", "follow", "ended"}
          /\ reader[r].entries \in Seq(Entry) /\ reader[r].inode \in Files \cup {None}

(* Whatever resets the attempt, a child that ended by itself is started    *)
(* again after one second at least and one minute at most, and later       *)
(* after each further end.                                                 *)
BacksOff ==
    sup \in {"restarting", "rotating", "reopen", "delay"} =>
        \A n \in attempt..attempt + 8 : 1 <= Delay(n) /\ Delay(n) <= Delay(n + 1)
                                        /\ Delay(n + 1) <= 60

(* While the log is closed for rotation entries have nowhere to go; that   *)
(* never costs output of the command, only an event of the health checker  *)
(* or of the loop, because the log is rotated between two children.        *)
OutputNotDropped == \A e \in dropped : e.stream = "x"

(* The paths always give the log in the order in which it was written,     *)
(* and all of it but for what was written first: entries are appended at   *)
(* the end, and nothing but the oldest file ever goes - also in the middle *)
(* of a rotation, and after one that a kill interrupted - until the task   *)
(* is removed.                                                             *)
LosesOnlyTheOldest ==
    [][\/ Kept' = Kept \/ sup' = "removed"
       \/ Len(Kept') = Len(Kept) + 1 /\ IsPrefix(Kept, Kept')
       \/ Kept = FileAt(MaxLogFiles) \o Kept']_vars

(* A rotated file does not change any more.                                *)
RotatedFilesAreFinal ==
    [][\A n \in 1..MaxLogFiles : path[n] # None => file'[path[n]] = file[path[n]]]_vars

(* Are the entries in the order of their times? *)
InOrder(s) == \A j, k \in DOMAIN s : j < k => s[j].time < s[k].time

(* The early ends of the scan cost nothing: a read during which nothing    *)
(* was rotated shows the last ask.tail entries of all that match, oldest   *)
(* first.  With a lower bound of times this needs entries that were        *)
(* written in their order ("raw[0].Time.Before", logs.go:74).              *)
ReadsExact ==
    \A r \in Readers :
        LET x == reader[r] IN
        x.at = "shown" /\ ~x.moved /\ (x.since = None \/ InOrder(x.seen)) =>
            x.entries = LastOf(FilterEntries(x.seen, x.ask, x.since), x.ask.tail)

(* Without --all and --since, a read shows all output of the child whose   *)
(* start it found on record, and of later ones, and none of earlier ones   *)
(* ("default: current run only", types.go:97).                             *)
ShowsTheRun ==
    \A r \in Readers :
        LET x == reader[r]
        IN x.at = "shown" /\ ~x.moved /\ InOrder(x.seen) /\ ~x.ask.all /\ ~x.ask.since
           /\ x.ask.stream = "o" /\ x.ask.tail < 0 /\ x.start # NoStart =>
             ToSet(x.entries) = {e \in ToSet(x.seen) : e.stream = "o" /\ e.run >= x.start.run}

(* A reader shows no entry twice if nothing was rotated while it read the  *)
(* files, and a follower none in the lines after that either, whatever is  *)
(* rotated from then on.                                                   *)
NothingTwice ==
    \A r \in Readers :
        ~reader[r].moved => IsInjective(reader[r].entries)

(* A follower comes back once the task has an exit on record, though the   *)
(* file it follows may have been rotated away long ago - unless, before it *)
(* looks, the record goes: the task is started again, or removed.  In a    *)
(* removed task it never finds an exit and never comes back, although      *)
(* help.go:103 says "blocks until task exits".                             *)
FollowEnds ==
    \A r \in Readers :
        (reader[r].at = "follow" /\ exit)
            ~> (reader[r].at = "ended" \/ sup \in {"begin", "removed"})
=============================================================================
