# bgtask in TLA+

bgtask runs commands in the background: every task is a directory of small
files, served by a detached supervisor process, and acted upon by any number
of short-lived command line processes and long-lived servers (HTTP, MCP) at the
same time. There is no daemon that owns the state; what keeps it together is a
lock file per task, one for the whole store, pid files with creation times, and
signals. These modules model that machinery, check it with TLC and prove part
of it with TLAPS.

## 1. Inventory

| Component | Source | State | Operations |
|---|---|---|---|
| lease lock | `internal/state/lock.go`, `process/atomic.go` | one lock file (nonce, pid, creation time, heartbeat) | acquire with bounded wait, reap, renew, unlock |
| task store | `internal/state/store.go` | `procs/<id>/`: `meta.json`, `supervisor.pid`, `createtime`, `child.pid`, `child.createtime`, `exit.json` | create, read, write, remove, resolve, list |
| task lifecycle | `internal/taskservice/{run,lifecycle,launch,service,controller}.go` | none of its own: reads and writes the store under the locks | run (and replace), start, stop, restart, remove, cleanup, status |
| names and labels | `taskservice/{rename_labels,resolve}.go`, `validation/` | `meta.json` | rename, set labels, resolve a reference, batches over labels or all, validate |
| supervisor | `internal/supervisor/supervisor.go` | flags, channels, the child, failure and attempt counts | serve one task: start, restart, back off, health check, stop, record the exit |
| process control | `internal/process/` | the operating system's | liveness, creation time, signals, detach |
| logs | `state/rotate.go`, `taskservice/logs.go`, `mcpserver/logs.go`, `cmd/bgtask/logs.go` | `output.jsonl` and three rotated files, `child.starttime` | append, rotate, tail, follow, byte budget |
| list and get | `taskservice/list_get.go` | none | snapshot, filter, page with a cursor |
| HTTP, MCP, command line | `internal/server`, `internal/mcpserver`, `cmd/bgtask` | none per task | translate requests to taskservice |

How they interact. A request resolves a reference to a task id, takes the task's
lock (`run`, `rename`: the store-wide lock first, then the task's), re-reads the
task under the lock, acts by signals and pid files, and unlocks. `run` and
`start` launch a supervisor and keep the lock until the supervisor has written
its pid. The supervisor never takes a lock: it writes its pid files, its exit
record, and for an `--rm` task removes the whole directory, beside whatever
request holds the lock. Everything else between processes is signals (SIGTERM:
stop, SIGHUP: restart) and `kill(pid, 0)`.

What is hard about it:

* the lock is a file, and file operations on a path are not compare-and-swap;
  its owner may die, or stall, at any point;
* a supervisor may be killed between any two of its writes, and its child
  lives on;
* the supervisor is five goroutines that share two flags and a channel of
  capacity one, used without blocking;
* readiness, graceful stops and lock waits end by timeouts that race with the
  event they wait for;
* supervisors act on the directory without the lock;
* a request reads the store one `meta.json` at a time, while others rename, relabel,
  create and remove tasks;
* a batch does some of its work before it fails, and three adapters each decide what
  their client gets to know of that;
* the log is rotated by renames below readers that go from file to file.

What makes each part correct:

* lease: one live holder; nothing of a dead or finished owner blocks others for
  ever; nobody's file is removed by anyone else while it holds;
* supervisor: a stop ends it, whatever the child does; a restart is served, once;
  nothing is killed without a request; the exit record is the truth;
* lifecycle: never two supervisors or two children of one task; a child that
  lost its supervisor can still be found; a stop stops all of it; a task with an
  exit record is not about to be served;
* names: no two tasks of one name; no write to `meta.json` undoes another; no requests
  wait on each other in a circle;
* list and batches: no task that was there all along is passed over or shown twice;
  a failure of a part is reported as one by every adapter;
* logs: no output of the command is dropped, nothing but the oldest file is ever
  lost, a reader that is not overtaken by a rotation sees what it asked for, a follower
  comes back.

`PROJECT.json` lists the components with their status, and the hazards at the
lines where they bite.

## 2. Plan

| # | Module | Purpose | State |
|---|---|---|---|
| 1 | `Lease`, `Mutex`, `LeaseProofs` | the lock, its abstraction, refinement, proofs | done |
| 2 | `Supervisor`, `SupervisorProofs` | the goroutines of one supervisor | done |
| 3 | `TaskLifecycle`, `TaskLifecycleProofs` | requests, supervisors and children of one task, over the abstract lock | done |
| 4 | `Names`, `NameTable`, `NamesProofs` | several tasks, the store-wide lock, names, labels, batches; what names promise; refinement, proofs | done |
| 5 | `Adapters`, `Service`, `ServiceProofs`, `MCService` | what HTTP, MCP and the command line ask and answer; listing by pages over a changing store; proofs | done |
| 6 | `Logs`, `LogTool`, `LogsProofs`, `LogToolProofs`, `MCLogs` | append, rotation, readers, followers; the MCP tool's decoding and byte budget; proofs about both | done |
| 7 | `Subsequences`, `SubsequenceProofs` | the loops that pick elements of a list, for `Logs` and `Adapters`; lists that are joined and selected from, proved about | done |

How they compose. `Lease` implements `Mutex`, and the locks of `TaskLifecycle` and
`Names` are `Mutex`es. `TaskLifecycle` takes one task apart that `Names` treats in one
step per request (`Act`, `Launch`), and leaves out the other tasks. `Service` extends
`Adapters`, which extends `Names`. The supervisor of `Logs` is the loop of
`Supervisor` again, cut down to what it does to the log.

A module that shows `Supervisor` to implement the supervisor of `TaskLifecycle` was
planned and dropped, because it does not: the latter acts at once on a signal it
has handled, while the goroutines may lose the token of a stop or keep that of a
restart too long (section 6). `TaskLifecycle` covers both outcomes by other means: the
service escalates to SIGKILL at any time, and a child may end at any time. The
algorithms that were planned as a module of their own (backoff, tail, byte budget,
numbers) are in `Logs` and `LogTool`, next to the code that uses them.

What could still be added: the control file that replaces SIGHUP on Windows, and reuse of pids.

## 3. Modules and the code

### Lease

One element of `Calls` is one `acquireLease` together with the `Lease` it returns.
`file` is what is at the path, `pc` the step of a call, `hb` its heartbeat goroutine,
`seen` what its reap attempt read first, `alive` the processes that run. Every
system call on the path is a step of its own: create, write, the two reads of
`tryReapStaleLease`, its remove, the read and the rename of a renewal, the check
and the delete of `Unlock`. A write goes to the descriptor, so it shows at the path
only while the file is the one the caller created. Time is one bit: `Age` marks
the file as older than `leaseStaleAfter`.

What the environment may do is in three constants, so that each result says what
it rests on:

* `Stalls`: a live process may stop for 30 s. Without it, a live owner's file never
  ages (it is renewed every 5 s), and no reap attempt that saw an empty file
  is still under way 30 s after the file was written.
* `TornCrash`: a process may die between create and write, which leaves an empty
  file. Two empty files are equal, so the reaper's second read cannot tell the
  dead one from a later one.
* `LateRemove`: other processes may run between a reaper's second read and its
  `os.Remove`.

The lock is a mutual exclusion lock only if all three are off. With any of them
two callers may hold it; `late_remove` is the shortest case.

### Mutex

What callers may rely on: a call is out, waiting, alone inside, or over.
`Lease!ImplementsMutex` maps a call's step to these four.

### Supervisor

`m`, `h`, `hc` and `mon[k]` are the next steps of the main loop, the signal handler,
the health checker and the monitor of the k-th child. Flags are set, tokens sent
and flags cleared in separate steps, in the code's order: the handler sets
`restartRequested` and sends to `stopCh` afterwards, the main loop looks at
`stopRequested`, then at `restartRequested`, clears it, and drains `stopCh`.
`schedule = "late"` lets a monitor goroutine run for the first time after its child
was reaped. `restartCh` is left out (nothing waits on it), and so is the length of
the backoff. `asked`, `lateStarts` and `failingSince` are history: how many
restarts were asked for, how many children were started after a stop, and during
which child the current run of health failures began.

`MaxChildren` bounds the monitors only, and `ChildrenAssumption` makes it no bound at all: a
child that is gone ended by itself, took the token of a signal, or was
restarted for three failed probes, so there can be no more children than those allow.
`TypeOK` says that the bound never stops the model, and is proved (section 5).

### TaskLifecycle

One task. `rec` is its pid files and exit record, `sup[k]` the k-th supervisor
(`at`: its step, `kid`: its child, `sig`: pending signals, `flag`: what its handler
has set), `up` the children that run, `call[c]` the request of caller c. Requests go
through the steps of `taskservice`: lock, read meta, verify the pid, then by
`IfAlive`/`IfDead` the branch of their operation (signal, wait, kill, kill the child,
remove, clear the exit, launch, await). The lock is the abstract one; a caller that
dies keeps it until `LeaseReaped`. The supervisor is cut down to its effects on the
directory, with each file a write of its own.

Pid reuse is not modelled: the k-th process has pid k and creation time k, so
creation times tell processes apart exactly when the record is torn. "gone" and
"zombie" are the two things an ended supervisor may be, and `kill(pid, 0)` cannot
tell a zombie from a live one.

Constants for what may go wrong around the program:

* `GivesUp`: the wait for readiness ends, or the lock is reclaimed, before the
  supervisor has written its pid (a startup that takes longer than the timeout).
  With it, the next `start` launches a second supervisor beside the slow one.
* `EarlyAccess`: others may lock a new task between `Store.Create` and the lock of
  the run that created it. This is what the code allows; it is a constant so that the
  other properties are checked without the duplicate it leads to.
* `KillsInStart`: a supervisor may be killed between starting a child and
  recording its pid. With it the child is lost: no later request finds it.

### Names

Several tasks in one store. `meta[i]` is the name and labels in the `meta.json` of
task i, `dirs` the directories, `served` the tasks whose supervisor runs,
`storeLock` and `taskLock` the two kinds of lock, `call[c]` the request of client c and
how far it is. A request goes through the code's steps: `Run` and `Rename` take the
store-wide lock and then a task's, `SetLabels` and every item of a batch a task's
alone. Where the code reads the store (`Resolve`, `IsNameTaken`, `ListIDs` with a
filter) the directory is listed in one step and each `meta.json` read in one of its own
(`Reads`, then `SearchOne`, `TakenOne`, `FilterOne`). A write is the store's
read-change-replace: `Reread`, then `Write` or `WriteFails`. `os.RemoveAll` is two steps
(`Unlinks`, `RemovesDir`): a request that writes in between puts a `meta.json`
into a directory that was as good as gone. Such a task is `revived`; section 6
says what follows.

What a request does to the one task it has locked is one step (`Act`), with the outcomes
`TaskLifecycle` finds. A batch (`Snapshot`, `NextItem`, `AfterItem`) is a list of references, which
ends at its first failure, or a snapshot of ids, which does not. `mix` selects which
requests the clients of a run choose from; it never changes.

A revived task is exempt from `NamesUnique`, and so is no other: the promise of the
comment at rename_labels.go:11-12 holds for all tasks but those.

### NameTable

What names promise, with no locks and no files: an id claims a free name, moves to a
free name, or gives its name back, each in one step; an id is used once. `Names`
implements it (`ImplementsNameTable`).

### Adapters

For a request `w` as it reaches HTTP, MCP or the command line: the set of service
requests made of it, empty if it is refused (`HttpRun`, `McpBatch`, `CliBatch`, ...),
and what becomes of the results of a batch (`RespondBatch` and `RespondTask` with their status
codes, `BatchOutcome` with its counts and the cap on items, `Cli`). Operators, not actions: the
adapters keep no state. `MCService` builds the clients' requests with them, so what
the runs explore is what the adapters can ask for. `With` is a loop that keeps the items
with some results, in order (`Select` of `Subsequences`).

### Service

`Names` with readers beside the clients. `page[r]` is a listing in progress: the ids are
listed, with a label filter each `meta.json` is read, then each again, in the order of the
request, and tasks at or before the cursor are skipped. A cursor carries the last id and
the filters it was made for. `stayed` is history: for each client and reader the tasks
that have matched its selection ever since it first asked. It is what `PagesComplete` and
`BatchReachesAll` compare with.

### Logs

A file (`file`, a sequence of entries) is not a path (`path[n]`: what is at
`output.jsonl.n`) and neither is it what the writer has open (`open`): rotation moves
paths, one `os.Rename` per step (`RotateLog`), readers open paths, the writer and the followers keep
files. An entry is stamped (`Stamp`) before the writer's mutex and written afterwards, so
entries of the captures, the health checker and the loop may be written out of the
order of their times. `child.starttime` is emptied and then written. The supervisor
may be `Killed` at any step, also in the middle of a rotation, and a new one opens
whatever is at the path. A start of the command that fails (`StartFails`) leaves no start on
record, but an event. The task may be removed, by its supervisor right after the exit record if
it is an `--rm` task (`RemovesItself`), or by a request once the supervisor is gone
(`RequestRemoves`): nothing is left at any path, nor the start and the exit, and whoever has a
file open keeps it. Whether a task is an `--rm` task is no variable: one that is stopped stays, so
that both ends are open to every task. A reader notes which paths exist (`ListLogFile`), reads from the newest
back until it has enough (`Enough`), and may go on as `showLogs -f` does: open the newest
path, seek to its end, print new lines, look for `exit.json` at end of file. Sizes are
counted in entries; `moved` is history: a path changed during the reader's pass. What a
request keeps of the entries it has read is `Select` with the entries it asks for (`Wanted`).

### LogTool

One call of the MCP logs tool. A JSON number is its digits, how many of them are
fraction, and the exponent; `ExactJSONInteger` takes it exactly or refuses it. It never computes
a power of ten but appends zeros, as the code does (`Zeros`), and looks at no exponent beyond 32
bits (`MaxExponent`). That this loses no integer rests on `LengthAssumption`: the digits of a number
are at most 2^31 - 19. A longer one, with an exponent as large to match, is refused
by the code though it may be an integer. A text is the
sequence of the widths of its UTF-8 characters, which is all `TruncateUTF8Bytes`
and the byte budget of `RenderLogs` depend on. A call may carry a tail, a limit, both or neither
(`ToolInit`), either of which may not decode. The handler's replies to calls that cannot be
decoded or name no task, with or without a usable limit, are actions too.

## 4. Runs

| Run | Question | Bounds |
|---|---|---|
| `mutual_exclusion` | is the lease a lock in a gentle environment, and does it implement `Mutex`? | 3 calls in 2 processes, 1 renewal each, any process may die |
| `lease_faults` | under every fault, does a finished call leave its file behind, does every call end? | the same |
| `late_remove` (violation) | is the comment right that a reap never deletes a later acquisition? | the same |
| `supervisor` | is nothing started that nobody asked for, do stops end it, are restarts served, under every interleaving of the goroutines? | 2 signals, 1 child exit, 3 health checks, two policies, both schedules |
| `stale_token` (violation) | does the drain prevent stale signals from killing the next child? | 1 SIGHUP, 1 exit |
| `health_carry_over` (violation) | are failures forgotten when the child is replaced? | 1 signal, 3 health checks |
| `task` | one supervisor, one child, strays on record, stops complete, exits final | 2 callers, 3 requests of the ten kinds, 3 supervisors, 3 children, 1 exit, 2 processes killed |
| `duplicate_supervisor` (violation) | does the lock held by a run prevent a duplicate? | a run and two starts |
| `force_restart` (violation) | does the supervisor stay alive through a forced restart? | a run and a restart |
| `zombie` (violation) | does start refuse only running tasks? | a run and a start |
| `service` | are names unique, waits free of circles, pages and batches complete, failures reported, and is `NameTable` implemented? | 2 clients and 1 reader, 3 tasks, 3 names, 1 label, three mixes of requests, pages of 1, 1 item per MCP reply |
| `logs` | does the log keep what it should, do readers get what they ask for, do followers come back; is every number and text of the tool handled exactly? | 1 reader, 2 rotated files, rotation after 1 entry, 3 ticks, 4 children; numbers of 3 digits, beside them one of two others, 8-bit integers |

Why the bounds are enough. Lease: every hazard needs at most a dead owner, a slow
reaper and a fast one, so three calls; two processes let two calls die together.
Supervisor: two signals are a stop and a restart in either order, or two of a kind;
three health checks are the least that reach the threshold of three; six children
are more than these can start (`ChildrenAssumption`, and the theorem `TypeCorrect`).
Without a policy and with one that starts a failed child again are the two ways a child's end
goes on; "always" differs from the latter for an exit code of 0 only.
Task: with three requests one launches, one acts on a task that is being served, and
the third comes while the second is under way or after its caller died; two kills are
a supervisor and a caller, or two supervisors in a row. Callers differ only in what they
ask for, hence the symmetry.
Service: the first mix has two clients that run, rename and remove tasks of two
names, which is what it takes to make two tasks of one name; the second sets every selection of
every batch against lists, relabelling and renaming, over one task that is served and one that
is not; the third has a reader ask for pages of one task each, in either order and with every
kind of filter, while a task comes, one goes and one changes its labels. New
tasks come before and after an old one in the first mix, after two of them in the third. One item per reply makes every batch of two
overflow it. Logs: with two rotated files the oldest is dropped by the third rotation, and the run
starts afresh and again where as many rotations have been; one entry per file makes
every end of a child rotate; three more ticks write to three files, one of them late.
Numbers of three digits with exponents between -2 and 2 reach both sides of 8 bits, and exponents
of -7 and 6 are out of range on either side.
`LogTool` has no state in common with the log, so the run checks them one at a time.

`CHECK_DEADLOCK FALSE` stands in each configuration
because each of these systems may stop: calls, supervisors and requests end.

Fairness. `Lease`: a live process takes its steps, a holder unlocks (every wait in a
critical section is bounded in the code), and time passes (`WF` of `Age`). Nothing is
assumed of crashes, expired contexts or failed writes. `Supervisor`: goroutines that can run do
(the Go scheduler), and a child that got SIGKILL dies. A child may run for ever and
may ignore SIGTERM; the health checker need not tick. `Logs`: a follower polls every 200 ms;
nothing is assumed of the supervisor, so `FollowEnds` speaks of tasks with an exit on
record that are neither started again nor removed before the follower looks. Both exceptions are
the code's: a start clears the record and the follower goes on with the same file, while in a
removed task there is nothing left to find (section 6).

Every action and every disjunct of the next-state relations fires, with one
exception inside `ReadMeta`: a run that replaces a task re-reads its name under the
task's lock and goes on without replacing it if the name has changed (run.go:194).
Under the store-wide lock the name cannot have changed, so the code's check never
answers that way.

## 5. Proofs

`LeaseProofs`, for every set of calls and processes and every number of renewals:

* `TypeCorrect`, `NoOrphan`: under every fault. `TypeInv` strengthens `TypeOK` by the
  bound on a renewal under way; `FileInv` says that whoever wrote the file at the
  path has not given it back, and that an empty file is one whose creator is about to
  write it.
* `MutualExclusion`, `HolderKeeps`, `Implementation`: assuming `Gentle` (`Stalls`,
  `TornCrash` and `LateRemove` all FALSE). Mutual exclusion is not inductive; `ExclusionInv`
  adds that an owner that lives has its own file at the path, that an old file's
  owner is dead, that a creator that has not written yet lives, and that a reaper
  at its second read has seen a file whose owner is dead. Two holders would both own the
  one file. The refinement has one case per action: it is a step of `Mutex` or
  leaves `Phase` alone. None of the three can be spared: with any one of them TRUE, TLC
  finds each of the three properties violated on the bounds of `mutual_exclusion`.

`SupervisorProofs`, for every number of signals, exits, health checks and children, and both
schedules:

* `AtMostOneStartAfterStop`: the flag is never cleared, and looked at first when a child has
  ended.
* `OneRestartPerRequest`: a request is pending, about to start a child, or has started
  one, never two of these.
* `ExitsRecorded`: only a child that Run waits for may run, a signalled one leaves code -1
  until the next starts, and so what Run writes last is true of the last child.
* `TypeCorrect`, from `ChildrenAssumption`. That there are never more than `MaxChildren`
  children is not inductive; `GoneInv` balances what was spent against what it was spent on:
  three times the children that are gone and the tokens still to be taken, and the
  current run of failures, are at most three times the exits and the signals
  handled, and the probes. `BlockedInv`: a monitor waits only while Run waits for its child.

`TaskLifecycleProofs`, for every number of callers, requests, supervisors, children and
crashes, every set of operations, and with supervisors killed at any point:

* `TypeCorrect`: without further assumptions. `TypeInv` adds which operation can be at
  which step, and that a request that signals a supervisor has its pid.
* `OneSupervisorServes`, `ExitStands`: assuming `Gentle` (`GivesUp` and `EarlyAccess`
  FALSE; the runs show what goes wrong otherwise). `OneSupervisor` is not inductive: a
  request launches because it found nobody, so `SupInv` says where a serving supervisor
  can be found (`Found`: until its pid is on record the lock is held for it, by a request
  that waits for it or died waiting; then by pid and creation time) and what a
  request may conclude at each of its steps (`Knows`: from `verify` on, nobody is still to
  write its pid; past a dead answer or a kill, nobody serves). `Fresh` and `RunWaits` are
  for `run`, which looks at nothing before it launches. The weakest point of the
  argument is also the code's: a supervisor not yet on record is known only to the
  lock.

Its second half, about children, goes on from there, assuming `Careful`: `Gentle`, and `KillsInStart` FALSE,
because a child whose supervisor is killed before it has recorded it is lost to everyone.
Again nothing can be spared: on the bounds of the run `task`, TLC finds all five properties
violated with `GivesUp` or with `EarlyAccess`, and these last three with `KillsInStart`.
`OneChildRuns`, `StraysStayOnRecord` and `StopsStopAll` rest on one invariant, `ChildInv`:
nothing runs but the child of the one serving supervisor, which is on record from
the moment the supervisor may be killed, or else a stray, which is on record
until a request kills it (`Alone`); and a request past its kills knows that nothing
runs (`Informed`). It builds on `SupInv` above: that a second supervisor cannot come up is
what makes the one record of a child enough.

`NamesProofs`, for every set of clients, names and labels, any number of tasks, any
requests, batches of any length, with and without `--rm` tasks; from `NamesAssumption`
and `RequestsAssumption` alone:

* `TypeCorrect`, by `TypeInv`: `TypeOK` and what each step needs of a request's fields.
* `NoCircle`, by `LockInv`: who is at a step that needs a lock holds it, nobody holds two
  locks of tasks, and nobody waits for the store-wide lock while it holds a task's. So
  the one that holds the store-wide lock, or if there is none anyone that holds a task's, does not
  wait for another of the circle.
* `UniqueNames` and `WritesKeep`, by `NameInv`: while a run or rename goes through the
  store, no id it has already read has the name it wants (nobody else can give it
  to a task: that takes the store-wide lock), and what a request is about to write is
  what is there but for the one field it changes, or what is there is gone. Steps
  that write no `meta.json` can only take names away (`Shrinks`) and go through at once;
  `Create` and `Write` have the real argument.
* `NameTableImplemented`: `Create` claims, `Write` of a rename moves, removals give; the rest
  leaves the table alone.

`ServiceProofs`, for every set of clients, readers and labels, pages of any size, and any
requests the adapters can make; it builds on `TypeInv` of `NamesProofs` (a step of `Service` is one
of `Names`, or a reader's):

* `PagesInOrder`, by `PagesInv`: the ids listed are sorted the way the request goes, what is shown
  comes before what is still to be read, and nothing that comes later is at or before the cursor
  (`CursorInv`, `ReadInv`).
* `PagesMissNothing`, by `StayedInv`: a task that has matched ever since the first page was asked for
  is shown already, or among the ids the page has still to go through, or, between two pages, after
  the cursor. It leans on the order: a task that is passed over is at or before the cursor, and so was
  shown.
* `BatchMissesNothing`, by `BatchInv`: a task that has been selected all along is among the items
  done or among those left (`Reached`), at the snapshot because the directory holds it, and under a
  label filter because its `meta.json` said so whenever it was read.
* `OutcomesReported`, by `FailInv`: a list of references ends at its first failure, so that a
  failure among its items is the last of them and the reply is due. For the rest the
  counts of changed, unchanged and failed items add up to all of them (`CountsAddUp`), and the items
  MCP puts first under its cap are the failed ones (`FailuresFirst`), so that the three
  adapters agree on what failed.
* `StoreIsNames`, `StoreHoldsUnderReaders`: `Service` does to the store what `Names` does, so that all that
  is proved of `Names` (`NamesUnique`, `NoCircularWait`, `WritesKeepTheRest`, `ImplementsNameTable`) holds of
  the composition too, which is what the run `service` checks.

`LogsProofs`, for every number of files, readers, children and kills, from `LogsAssumption` alone.
One invariant, `LogsInv`, is behind its theorems; its parts build on each other:

* `NoOutputDropped`: a capture has an entry in hand only while the child runs, and then the
  log is open (`StampInv`).
* `RotatedStays`: the open log is the file at `output.jsonl`, it is closed whenever the paths
  move, and no file is at two paths (`FileInv`).
* `OnlyTheOldestIsLost`: the path that is moved to next is free once the oldest file is gone
  (`ShiftInv`), so a rename never lands on entries; read as one list, the files keep what
  they held, but for the oldest, until the task is removed.
* `DelaysBackOff`: what is started again has been started at least once (`CountInv`), and from the
  first attempt on the delays grow from one second to a minute.
* `ReadsAreExact`, `NothingShownTwice`: every entry was stamped at a time of its own and is at one place of
  one file, or in one writer's hand (`FreshInv`). A reader that no rotation has overtaken
  has read the last of the entries the files held, from the newest path back without
  a gap (`ReaderInv`); what it shows is then what a scan of all files would have shown.
  Where it stops early (`Enough`) because an entry is older than it asked for, entries in order
  of their times make everything before it older still.
* `TheRunIsShown`: while output is being written, the start on record separates it: output of
  this run is not older, and that of earlier runs is all written and older (`StartInv`); what a reader
  took for the start keeps separating what it has read (`SeparatesAll`).
* `LogsTypeCorrect`: a corollary of these.

`SubsequenceProofs` has what `ServiceProofs` and `LogsProofs` need of lists: what joining lists
(`FlattenSeq`) and selecting from them yields, keeps and commutes with. The library's induction
theorems take an operator as a parameter and cannot be used here; its lemmas state induction
over numbers and lists with a set in the place of that operator (by the least
number outside it), and show that the recursive function inside `FlattenSeq` exists and is unique.

`LogToolProofs`, for numbers of any size (within `LengthAssumption`), machine integers of any width that
have at most `MaxDigits` digits (`DigitsAssumption`), texts and entries of any length, and any limits:

* `NumbersAreExact`: the value of a list of digits is additive up to powers of ten (`ValueConcat`,
  `PowerSum`), and what the code trims off is zeros before and a power of ten behind (`TrimmedValue`).
  If the point falls right of the last digit that is not zero, value and number agree up to that power,
  and a number the code refuses for its length is larger than any integer (`PowerGrows`);
  if it falls left of it, an integer would be a multiple of ten and end in that digit
  (`ExactIs`). An exponent that is out of range moves the point past all digits
  (`ExponentFits`), so refusing it refuses no integer.
* `MessagesAreCut`: where `UpTo` cuts is the last place that leaves room for the ellipsis (`UpToCuts`,
  `Truncates`).
* `NewestAreRendered`: after each entry, from the newest back, the lines so far are those of
  the newest entries, their sizes and the separators add up to the total, and once one did
  not fit nothing more is added (`Shows`, `RendersNewest`).

`ToolInv` carries these through the handler: at each step, what the numbers were taken for, that a limit
has been checked before anything is cut to it, and that a reply with no lines is a
message. `Bytes`, `ValueOf` and `RenderLogs` fold a list, and the library's fold is a recursive function over
sets of positions; the first lemmas show that it exists, is unique, and goes through the list in
order (`FoldsExist`, `FoldsMore`, `FoldsChain`).

Left to TLC: liveness (`CallsEnd`, `StopEnds`, `RestartServed`, `FollowEnds`), which no prover here
does, as it rests on ENABLED. No other property is only model-checked. The six runs
that expect a violation check what does not hold, and so have no theorem.

## 6. Where code and documentation disagree

Each is a finding in `PROJECT.json`, with a run that shows it:

1. `late_remove`: a reaper's `os.Remove` may delete a lease that was created after its
   second read, which lock.go:217-218 rules out.
2. `stale_token`: a restart whose child ends by itself at the same moment leaves a token
   that kills the next child; without a restart policy the supervisor then exits.
3. `health_carry_over`: failures counted against one child are held against the next,
   because the reset looks for a flag that Run has long cleared.
4. `duplicate_supervisor`: a start between a run's `Store.Create` and its lock.
5. `force_restart`: killing the child first lets the supervisor act on its death
   before it gets SIGHUP; without a policy it exits.
6. `zombie`: a server never waits for the supervisors it launched, and an ended one
   looks alive to every check for as long as the server lives.

Other disagreements, and behaviour that a reader of the code might not expect, met while
modelling. They have no run of their own: some show up with other constants or without
a condition that a property names, others are outside of what the modules say.

Supervisor and lifecycle:

* the drain of a restart (supervisor.go:288) can also swallow the token of a stop that
  came after the check of `stopRequested`: the next child then runs until the service
  escalates to SIGKILL, which is why `StopEnds` is stated for stops with no restart pending;
* a monitor that first runs after its child was reaped may take the token of a stop, which then
  has no one to serve it until the escalation: `StopEnds` and `RestartServed` are stated for the schedule "prompt";
* a holder that stalls between the read and the rename of a renewal (lock.go:323) replaces the
  lease of whoever reaped its own meanwhile: `mutual_exclusion` has `Stalls` FALSE;
* `GivesUp` leads to two supervisors, as said above.

Names and batches:

* a supervisor removes its `--rm` task without a lock. A rename or set_labels that has
  read `meta.json` just before may write it back into the directory that is being
  removed, which then stays, with a task nobody serves; its name may have been given to
  another task by then, and rename_labels.go:11-12 says names are unique in the store;
* after a rename or set_labels HTTP reads the task again without a lock
  (routes_tasks.go:195 and 213): it may answer 404 for a change that was made;
* a label filter is judged on an earlier read than the one that is returned, so that a
  page may show a task without the label;
* `rm` by name locks the task the name resolved to and does not look at the name
  again: a rename in between does not save it;
* the command line prints only the error if a list of tasks fails half way
  (commands.go:531), where HTTP and MCP also say what was done; and it takes several
  selections at once, names before `--all` before labels, which HTTP and MCP refuse;
* the waits of the command line for a lock are unbounded; that they end rests on
  `NoCircularWait` and on the lease;
* a server that shuts down gives requests 5 s; those that take longer are cut off with
  their locks held, until the leases are reclaimed.

Logs:

* entries are "chronological" (logs.go:58-59) only if none was stamped before and
  written after another, and nothing was rotated during the read; otherwise a
  reader may repeat or miss a file, and a late event of the health checker at the
  head of a file makes the scan skip an older one (logs.go:74). `ReadsExact` names both
  conditions;
* `child.starttime` is emptied before it is written: a reader in between shows all
  runs for the current one;
* a follower loses what is written between its first read and its seek, and stays with the old
  file after a rotation;
* a follower may never end, where help.go:103 and demo.md:100 say it "blocks until task exits". It looks
  for `exit.json` once a second (logs.go:55 of `cmd/bgtask`). An `--rm` task deletes its directory right after it
  wrote the record (supervisor.go:305-309), and `rm`, `cleanup` and `run --replace` delete one that is followed: the
  follower then polls a file without a path for ever. The trace that TLC gives for `FollowEnds` without
  its case `"removed"` is the first of these: `RecordExit`, a reader comes to follow before it looks,
  `RemovesItself`, and nothing more. Nor does it end if the supervisor was killed before it wrote the
  record; and a start that clears the record in time makes it wait for the next exit;
* a line of more than 1 MiB ends the capture of its pipe for good;
* the log is rotated between two children only: one long-running child may
  write a file of any size.

## 7. What is not modelled

* pid reuse; creation times are exact, and always available;
* the Windows paths (control file, job objects) and Darwin's process table;
* pipes and grandchildren: a child ends with its pipes (README.md of bgtask lists
  process trees as a limitation);
* errors of the file system other than those the lease handles: a full disk, lost
  permissions, a log that cannot be opened again after a rotation (supervisor.go:330-337);
* other errors of the operating system: a supervisor whose executable cannot be started (run.go:114-117,
  lifecycle.go:185-187), a SIGHUP that cannot be sent (lifecycle.go:132-133);
* a configured delay before restarts (supervisor.go:366-368), which takes the place of the backoff;
* in `Logs`, an interrupted removal of the directory: it is one step there, and several in `Names`;
* in `Names`, that a supervisor dies while it is launched, which `TaskLifecycle` has (`LaunchDied`);
* of HTTP: the listener, host and token checks, the shape of its replies; shutdown; the read
  after a rename or set_labels;
* of MCP: the protocol library, the schemas and the rendered tables;
* of the command line: flags, completion, tables, terminal styles;
* what changes no state: the views of a task, the lookup of its ports, and the encoding of a cursor
  (its contents are in `Service`);
* the form of names, labels and durations: requests arrive validated, and names do not
  look like ids;
* writes that are atomic in the code (temporary file and rename) are one step; lines
  of the log are whole.
