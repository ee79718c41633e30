------------------------------- MODULE Names -------------------------------
(***************************************************************************)
(* Several tasks in one store, their names and labels, and the requests    *)
(* that read and change them: Run, Rename and SetLabels, and the requests  *)
(* runBatch carries out over a selection of tasks (stop, start, restart,   *)
(* remove, cleanup).  What a request does to one task is one step here and *)
(* the subject of TaskLifecycle; here it is what requests do to each other *)
(* through the store: the store-wide lock, the locks of the tasks, and     *)
(* meta.json files that are read one at a time.                            *)
(*                                                                         *)
(* Both locks are the abstract one that Lease implements.  A task's id     *)
(* ends in random digits, so a new id may come anywhere in the order of    *)
(* the directory.  Names cannot look like ids (ValidateName), so a         *)
(* reference is one or the other.  os.RemoveAll is two steps: it unlinks   *)
(* meta.json, and then removes the directory unless something is in it     *)
(* again.                                                                  *)
(***************************************************************************)
EXTENDS Naturals, Sequences

CONSTANTS
    Clients, None,
    TaskNames, Labels,
    MaxTasks,        \* bound on the ids generated
    Requests,        \* Requests[m][c]: what client c asks for in the mix m
    AutoRm           \* may tasks be --rm tasks, which supervisors remove?

IDs == 1..MaxTasks
Refs == IDs \cup TaskNames

BatchOps == {"stop", "start", "restart", "remove", "cleanup"}
AllOps == {"run", "rename", "set_labels"} \cup BatchOps

ASSUME NamesAssumption ==
    /\ MaxTasks \in Nat /\ AutoRm \in BOOLEAN
    /\ None \notin Clients \cup TaskNames \cup IDs
    /\ None \notin [name : TaskNames, labels : SUBSET Labels]
    /\ TaskNames \cap IDs = {}

VARIABLES
    meta,        \* meta[i]: the name and labels in task i's meta.json, or None
    dirs,        \* the ids whose directory exists
    used,        \* the ids ever generated
    served,      \* the tasks whose supervisor runs
    leaving,     \* the --rm tasks whose supervisor is removing them
    storeLock,   \* who holds the store-wide lock
    taskLock,    \* taskLock[i]: who holds task i's lock
    mix,         \* the mix of requests clients choose from
    call,        \* call[c]: the request of client c
    revived      \* tasks whose meta.json was written during their removal

store == <<meta, dirs, used, revived>>
sups == <<served, leaving>>
locks == <<storeLock, taskLock>>
vars == <<store, sups, locks, mix, call>>

Codes == {"not_found", "conflict", "busy", "deadline_exceeded",
          "failed_precondition", "internal"}
Results == {"changed", "no_op"} \cup Codes

Selections == {"refs", "labels", "all"}

(* A request and how far it is.  ref: what it is about now; id: the task   *)
(* that is; scan: the ids it has yet to read; hits: those that matched;    *)
(* buf: what it has read; refs, todo: what a batch has yet to do; items:   *)
(* the results so far.                                                     *)
Idle == [at |-> "idle", op |-> "stop", sel |-> "refs", ref |-> None,
         name |-> None, labels |-> {}, replace |-> FALSE, id |-> None,
         scan |-> {}, hits |-> {}, buf |-> None, refs |-> <<>>, todo |-> {},
         items |-> <<>>]

(* The requests, as they are when they have passed validation.             *)
Run(n, ls, replace) ==
    [Idle EXCEPT !.op = "run", !.ref = n, !.name = n, !.labels = ls,
                 !.replace = replace, !.at = "store"]

Rename(ref, n) ==
    [Idle EXCEPT !.op = "rename", !.ref = ref, !.name = n, !.at = "store"]

SetLabels(ref, ls) ==
    [Idle EXCEPT !.op = "set_labels", !.ref = ref, !.labels = ls, !.at = "resolve"]

OnRefs(op, refs) == [Idle EXCEPT !.op = op, !.refs = refs, !.at = "next"]

OnLabels(op, ls) ==
    [Idle EXCEPT !.op = op, !.sel = "labels", !.labels = ls, !.at = "snapshot"]

OnAll(op) == [Idle EXCEPT !.op = op, !.sel = "all", !.at = "snapshot"]

IsRequest(r) ==
    \/ \E n \in TaskNames, ls \in SUBSET Labels, b \in BOOLEAN : r = Run(n, ls, b)
    \/ \E ref \in Refs, n \in TaskNames : r = Rename(ref, n)
    \/ \E ref \in Refs, ls \in SUBSET Labels : r = SetLabels(ref, ls)
    \/ \E op \in BatchOps :
          \/ op # "cleanup" /\ r = OnRefs(op, r.refs) /\ r.refs \in Seq(Refs) \ {<<>>}
          \/ op # "cleanup" /\ \E ls \in SUBSET Labels : r = OnLabels(op, ls)
          \/ r = OnAll(op)

ASSUME RequestsAssumption ==
    \A m \in DOMAIN Requests :
        /\ DOMAIN Requests[m] = Clients
        /\ \A c \in Clients : \A r \in Requests[m][c] : IsRequest(r)

Exists(i) == meta[i] # None

TypeMeta == [name : TaskNames, labels : SUBSET Labels]

(* Any store with at most one task of a name, and nobody at work.          *)
Init ==
    /\ used \in SUBSET IDs
    /\ meta \in [IDs -> TypeMeta \cup {None}]
    /\ \A i \in IDs : Exists(i) <=> i \in used
    /\ \A i, j \in used : meta[i].name = meta[j].name => i = j
    /\ dirs = used
    /\ served \in SUBSET used
    /\ leaving = {} /\ revived = {}
    /\ storeLock = None /\ taskLock = [i \in IDs |-> None]
    /\ mix \in DOMAIN Requests
    /\ call = [c \in Clients |-> Idle]

-----------------------------------------------------------------------------
(* How a request goes on. *)

At(c, s) == call[c].at = s

Goto(c, s) == call' = [call EXCEPT ![c].at = s]

Reads(c, s) ==      \* ListIDs, to read what it returns one by one
    call' = [call EXCEPT ![c].at = s, ![c].scan = dirs, ![c].hits = {}]

Held(c) == [i \in IDs |-> IF taskLock[i] = c THEN None ELSE taskLock[i]]

(* Mutant: a batch keeps the locks until it is done, as with a defer in    *)
(* the loop.                                                               *)
Release_AtTheEnd(c) ==
    /\ taskLock' = IF call'[c].at = "replied" THEN Held(c) ELSE taskLock
    /\ storeLock' = IF storeLock = c THEN None ELSE storeLock

(* The deferred unlocks, the task's before the store's. *)
Release(c) ==
    /\ taskLock' = Held(c)
    /\ storeLock' = IF storeLock = c THEN None ELSE storeLock

(* Mutant: a snapshot ends at its first failure too. *)
AfterItem_AnyFailure(c, r) ==
    IF \/ call[c].op \notin BatchOps
       \/ r \in Codes
       \/ call[c].refs = <<>> /\ call[c].todo = {}
    THEN "replied" ELSE "next"

(* runBatch: a list of references ends at its first failure. *)
AfterItem(c, r) ==
    IF \/ call[c].op \notin BatchOps
       \/ call[c].sel = "refs" /\ r \in Codes
       \/ call[c].refs = <<>> /\ call[c].todo = {}
    THEN "replied" ELSE "next"

(* The request, or its turn on one task, ends with the result r. *)
Ends(c, r) ==
    /\ LET next == AfterItem(c, r)
           items == Append(call[c].items, [id |-> call[c].id, res |-> r])
           rest == IF next = "replied" THEN Idle
                   ELSE [Idle EXCEPT !.labels = call[c].labels,
                                     !.refs = call[c].refs, !.todo = call[c].todo]
       IN call' = [call EXCEPT ![c] = [rest EXCEPT !.at = next, !.items = items,
                                          !.op = call[c].op, !.sel = call[c].sel]]
    /\ Release(c)

Ask(c) ==
    /\ At(c, "idle")
    /\ \E r \in Requests[mix][c] : call' = [call EXCEPT ![c] = r]
    /\ UNCHANGED <<store, sups, locks, mix>>

-----------------------------------------------------------------------------
(* Locks.  A request that holds no lock waits until its client gives up; a *)
(* wait for a task's lock under the store-wide one is bounded.             *)

(* Mutant: Rename does not take the store-wide lock. *)
LockStore_NotForRename(c) ==
    /\ At(c, "store")
    /\ IF call[c].op = "run"
       THEN storeLock = None /\ storeLock' = c /\ Reads(c, "taken")
       ELSE UNCHANGED storeLock /\ Goto(c, "resolve")
    /\ UNCHANGED <<store, sups, taskLock>>

LockStore(c) ==
    /\ At(c, "store") /\ storeLock = None
    /\ storeLock' = c
    /\ IF call[c].op = "run" THEN Reads(c, "taken") ELSE Goto(c, "resolve")
    /\ UNCHANGED <<store, sups, taskLock>>

GivesUpStore(c) ==
    /\ At(c, "store") /\ storeLock # None
    /\ Ends(c, "deadline_exceeded")
    /\ UNCHANGED <<store, sups>>

(* Mutant: SetLabels does not take the task's lock. *)
LockTask_NotForLabels(c) ==
    /\ At(c, "lock")
    /\ IF call[c].op = "set_labels" THEN UNCHANGED taskLock
       ELSE /\ taskLock[call[c].id] = None
            /\ taskLock' = [taskLock EXCEPT ![call[c].id] = c]
    /\ Goto(c, "read")
    /\ UNCHANGED <<store, sups, storeLock>>

LockTask(c) ==
    /\ At(c, "lock") /\ taskLock[call[c].id] = None
    /\ taskLock' = [taskLock EXCEPT ![call[c].id] = c]
    /\ Goto(c, "read")
    /\ UNCHANGED <<store, sups, storeLock>>

GivesUpTask(c) ==
    /\ At(c, "lock") /\ taskLock[call[c].id] # None
    /\ \/ Ends(c, "deadline_exceeded")
       \/ storeLock = c /\ Ends(c, "busy")
    /\ UNCHANGED <<store, sups>>

-----------------------------------------------------------------------------
(* Reading the store: a directory listing, then one file after the other.  *)

NextId(c, i) == i \in call[c].scan /\ \A j \in call[c].scan : i <= j

(* Resolve: the reference as an id first. *)
ResolveId(c) ==
    /\ At(c, "resolve")
    /\ IF call[c].ref \in IDs /\ Exists(call[c].ref)
       THEN call' = [call EXCEPT ![c].id = call[c].ref, ![c].at = "lock"]
       ELSE Reads(c, "search")
    /\ UNCHANGED <<store, sups, locks>>

SearchOne(c) ==
    /\ At(c, "search")
    /\ \E i \in IDs :
          /\ NextId(c, i)
          /\ call' = [call EXCEPT ![c].scan = @ \ {i},
                      ![c].hits = IF Exists(i) /\ meta[i].name = call[c].ref
                                  THEN @ \cup {i} ELSE @]
    /\ UNCHANGED <<store, sups, locks>>

(* Run goes on without anything to replace if the task has vanished.       *)
Resolved(c) ==
    /\ At(c, "search") /\ call[c].scan = {}
    /\ \/ /\ call[c].hits = {}
          /\ IF call[c].op = "run" THEN Goto(c, "create") /\ UNCHANGED locks
                                   ELSE Ends(c, "not_found")
       \/ \E i \in call[c].hits :
             /\ call[c].hits = {i}
             /\ call' = [call EXCEPT ![c].id = i, ![c].hits = {}, ![c].at = "lock"]
             /\ UNCHANGED locks
       \/ /\ \E i, j \in call[c].hits : i # j
          /\ Ends(c, "conflict")
    /\ UNCHANGED <<store, sups>>

(* IsNameTaken stops at the first task of that name. *)
TakenOne(c) ==
    /\ At(c, "taken")
    /\ \E i \in IDs :
          /\ NextId(c, i)
          /\ IF Exists(i) /\ meta[i].name = call[c].name
             THEN \/ /\ call[c].op = "run" /\ call[c].replace
                     /\ Goto(c, "resolve") /\ UNCHANGED locks
                  \/ /\ ~(call[c].op = "run" /\ call[c].replace)
                     /\ Ends(c, "conflict")
             ELSE /\ call' = [call EXCEPT ![c].scan = @ \ {i}]
                  /\ UNCHANGED locks
    /\ UNCHANGED <<store, sups>>

NotTaken(c) ==
    /\ At(c, "taken") /\ call[c].scan = {}
    /\ Goto(c, IF call[c].op = "run" THEN "create" ELSE "reread")
    /\ UNCHANGED <<store, sups, locks>>

(* The read under the task's lock. *)
ReadGone(c) ==
    /\ At(c, "read") /\ ~Exists(call[c].id)
    /\ IF call[c].op = "run"
       THEN Goto(c, "create") /\ taskLock' = Held(c) /\ UNCHANGED storeLock
       ELSE Ends(c, IF call[c].op = "cleanup" THEN "no_op" ELSE "not_found")
    /\ UNCHANGED <<store, sups>>

ReadMeta(c) ==
    /\ At(c, "read") /\ Exists(call[c].id)
    /\ LET named == meta[call[c].id].name IN
       \/ /\ call[c].op = "run" /\ named # call[c].name
          /\ Goto(c, "create") /\ taskLock' = Held(c) /\ UNCHANGED storeLock
       \/ /\ call[c].op = "run" /\ named = call[c].name
          /\ Goto(c, "act") /\ UNCHANGED locks
       \/ /\ call[c].op = "rename" /\ named = call[c].name
          /\ Ends(c, "no_op")
       \/ /\ call[c].op = "rename" /\ named # call[c].name
          /\ Reads(c, "taken") /\ UNCHANGED locks
       \/ /\ call[c].op = "set_labels"
          /\ Goto(c, "reread") /\ UNCHANGED locks
       \/ /\ call[c].op \in BatchOps
          /\ Goto(c, "act") /\ UNCHANGED locks
    /\ UNCHANGED <<store, sups>>

-----------------------------------------------------------------------------
(* Writing meta.json: Store.Rename and Store.SetLabels read it once more,  *)
(* change one field, and replace the file, which needs the directory.      *)

Reread(c) ==
    /\ At(c, "reread")
    /\ IF Exists(call[c].id)
       THEN /\ call' = [call EXCEPT ![c].buf = meta[call[c].id], ![c].at = "write"]
            /\ UNCHANGED locks
       ELSE Ends(c, "internal")
    /\ UNCHANGED <<store, sups>>

NewMeta(c) ==
    IF call[c].op = "rename" THEN [call[c].buf EXCEPT !.name = call[c].name]
                             ELSE [call[c].buf EXCEPT !.labels = call[c].labels]

(* While RemoveAll is between its two steps the new file may still get     *)
(* into the directory, or be swept up with the rest.                       *)
Write(c) ==
    /\ At(c, "write") /\ call[c].id \in dirs
    /\ meta' = [meta EXCEPT ![call[c].id] = NewMeta(c)]
    /\ revived' = IF Exists(call[c].id) THEN revived ELSE revived \cup {call[c].id}
    /\ Ends(c, "changed")
    /\ UNCHANGED <<dirs, used, sups>>

WriteFails(c) ==
    /\ At(c, "write") /\ ~Exists(call[c].id)
    /\ Ends(c, "internal")
    /\ UNCHANGED <<store, sups>>

-----------------------------------------------------------------------------
(* Run, once the name is free. *)

Create(c) ==
    /\ At(c, "create")
    /\ \E i \in IDs \ used :
          /\ used' = used \cup {i}
          /\ dirs' = dirs \cup {i}
          /\ meta' = [meta EXCEPT ![i] = [name |-> call[c].name,
                                           labels |-> call[c].labels]]
          /\ call' = [call EXCEPT ![c].id = i, ![c].at = "own"]
    /\ UNCHANGED <<sups, locks, revived>>

(* The new task's lock, and then the store-wide one is given back. *)
LockOwn(c) ==
    /\ At(c, "own") /\ taskLock[call[c].id] = None
    /\ taskLock' = [taskLock EXCEPT ![call[c].id] = c]
    /\ storeLock' = None
    /\ Goto(c, "launch")
    /\ UNCHANGED <<store, sups>>

OwnLockTimesOut(c) ==
    /\ At(c, "own") /\ taskLock[call[c].id] # None
    /\ Goto(c, "discard")
    /\ UNCHANGED <<store, sups, locks>>

(* A supervisor that finds no meta.json ends at once. *)
Comes(i) == served' = IF Exists(i) THEN served \cup {i} ELSE served

Launch(c) ==
    /\ At(c, "launch")
    /\ \/ Comes(call[c].id) /\ Ends(c, "changed")
       \/ Goto(c, "discard") /\ UNCHANGED <<served, locks>>
    /\ UNCHANGED <<store, leaving>>

-----------------------------------------------------------------------------
(* What a batch does to one task under its lock. *)

Alive(c) == call[c].id \in served

(* The supervisor of an --rm task removes the task before it ends. *)
StopsSupervisor(i) ==
    /\ served' = served \ {i}
    /\ \/ UNCHANGED store
       \/ /\ AutoRm /\ i \in served
          /\ meta' = [meta EXCEPT ![i] = None] /\ dirs' = dirs \ {i}
          /\ UNCHANGED <<used, revived>>

Act(c) ==
    /\ At(c, "act")
    /\ \/ /\ call[c].op = "stop"
          /\ StopsSupervisor(call[c].id)
          /\ Ends(c, IF Alive(c) THEN "changed" ELSE "no_op")
       \/ /\ call[c].op = "restart"
          /\ Ends(c, IF Alive(c) THEN "changed" ELSE "failed_precondition")
          /\ UNCHANGED <<store, served>>
       \/ /\ call[c].op = "start" /\ Alive(c)
          /\ Ends(c, "failed_precondition") /\ UNCHANGED <<store, served>>
       \/ /\ call[c].op = "start" /\ ~Alive(c)
          /\ \/ Ends(c, "changed") /\ Comes(call[c].id)
             \/ Ends(c, "internal") /\ UNCHANGED served
          /\ UNCHANGED store
       \/ /\ call[c].op \in {"remove", "run"}
          /\ StopsSupervisor(call[c].id)
          /\ Goto(c, "unlink") /\ UNCHANGED locks
       \/ /\ call[c].op = "cleanup"
          /\ IF Alive(c) THEN Ends(c, "no_op")
                         ELSE Goto(c, "unlink") /\ UNCHANGED locks
          /\ UNCHANGED <<store, served>>
    /\ UNCHANGED leaving

(* os.RemoveAll: the files, then the directory if it is empty. *)
Unlinks(i) ==
    /\ meta' = [meta EXCEPT ![i] = None]
    /\ UNCHANGED <<dirs, used, revived>>

(* Mutant: the directory goes with what a request just wrote to it. *)
RemovesDir_NotEmpty(i) ==
    /\ dirs' = dirs \ {i}
    /\ UNCHANGED <<meta, used, revived>>

RemovesDir(i) ==
    /\ dirs' = IF Exists(i) THEN dirs ELSE dirs \ {i}
    /\ UNCHANGED <<meta, used, revived>>

Unlink(c) ==
    /\ At(c, "unlink")
    /\ Unlinks(call[c].id)
    /\ Goto(c, "rmdir")
    /\ UNCHANGED <<sups, locks>>

(* Mutant: a run gives both locks back with the old task gone. *)
Rmdir_GivesBackBoth(c) ==
    /\ At(c, "rmdir")
    /\ RemovesDir(call[c].id)
    /\ IF Exists(call[c].id) THEN Ends(c, "internal")
       ELSE IF call[c].op = "run" THEN Goto(c, "create") /\ Release(c)
       ELSE Ends(c, "changed")
    /\ UNCHANGED sups

(* A run gives the old task's lock back and goes on. *)
Rmdir(c) ==
    /\ At(c, "rmdir")
    /\ RemovesDir(call[c].id)
    /\ IF Exists(call[c].id) THEN Ends(c, "internal")
       ELSE IF call[c].op = "run"
       THEN Goto(c, "create") /\ taskLock' = Held(c) /\ UNCHANGED storeLock
       ELSE Ends(c, "changed")
    /\ UNCHANGED sups

(* A run that failed removes its task: without its lock if that was what   *)
(* it could not get.  Errors of this removal are ignored.                  *)
Discard(c) ==
    /\ At(c, "discard")
    /\ Unlinks(call[c].id)
    /\ Goto(c, "discardDir")
    /\ UNCHANGED <<sups, locks>>

DiscardDir(c) ==
    /\ At(c, "discardDir")
    /\ RemovesDir(call[c].id)
    /\ \E r \in {"busy", "deadline_exceeded", "internal"} : Ends(c, r)
    /\ UNCHANGED sups

-----------------------------------------------------------------------------
(* runBatch *)

(* snapshotIDs: for all, what ListIDs returns; for labels, the ids whose   *)
(* meta.json has one of them, read one by one.                             *)
Snapshot(c) ==
    /\ At(c, "snapshot")
    /\ IF call[c].sel = "all"
       THEN call' = [call EXCEPT ![c].todo = dirs,
                       ![c].at = IF dirs = {} THEN "replied" ELSE "next"]
       ELSE Reads(c, "filter")
    /\ UNCHANGED <<store, sups, locks>>

FilterOne(c) ==
    /\ At(c, "filter")
    /\ \E i \in IDs :
          /\ NextId(c, i)
          /\ call' = [call EXCEPT ![c].scan = @ \ {i},
                      ![c].todo = IF Exists(i) /\ meta[i].labels \cap call[c].labels # {}
                                  THEN @ \cup {i} ELSE @]
    /\ UNCHANGED <<store, sups, locks>>

Filtered(c) ==
    /\ At(c, "filter") /\ call[c].scan = {}
    /\ Goto(c, IF call[c].todo = {} THEN "replied" ELSE "next")
    /\ UNCHANGED <<store, sups, locks>>

(* The next reference of the list, or the next id of the snapshot.         *)
NextItem(c) ==
    /\ At(c, "next")
    /\ \/ /\ call[c].sel = "refs"
          /\ call' = [call EXCEPT ![c].ref = Head(call[c].refs),
                      ![c].refs = Tail(@), ![c].at = "resolve"]
       \/ /\ call[c].sel # "refs"
          /\ \E i \in call[c].todo :
                /\ \A j \in call[c].todo : i <= j
                /\ call' = [call EXCEPT ![c].todo = @ \ {i},
                      ![c].ref = i,
                      ![c].id = IF call[c].op = "cleanup" THEN i ELSE None,
                      ![c].at = IF call[c].op = "cleanup" THEN "lock" ELSE "resolve"]
    /\ UNCHANGED <<store, sups, locks>>

-----------------------------------------------------------------------------
(* Supervisors end by themselves; that of an --rm task removes the task,   *)
(* without its lock.                                                       *)

SupervisorEnds(i) ==
    /\ i \in served
    /\ served' = served \ {i}
    /\ UNCHANGED <<store, locks, call, leaving>>

AutoRemoves(i) ==
    /\ AutoRm /\ i \in served
    /\ served' = served \ {i} /\ leaving' = leaving \cup {i}
    /\ Unlinks(i)
    /\ UNCHANGED <<locks, call>>

AutoRemovesDir(i) ==
    /\ i \in leaving
    /\ leaving' = leaving \ {i}
    /\ RemovesDir(i)
    /\ UNCHANGED <<served, locks, call>>

-----------------------------------------------------------------------------
GivesUp(c) ==
    /\ GivesUpStore(c) \/ GivesUpTask(c) \/ OwnLockTimesOut(c)
    /\ UNCHANGED mix

Works(c) ==
  /\ UNCHANGED mix
  /\ \/ LockStore(c) \/ LockTask(c)
     \/ ResolveId(c) \/ SearchOne(c) \/ Resolved(c) \/ TakenOne(c) \/ NotTaken(c)
     \/ ReadGone(c) \/ ReadMeta(c) \/ Reread(c) \/ Write(c) \/ WriteFails(c)
     \/ Create(c) \/ LockOwn(c) \/ Launch(c)
     \/ Act(c) \/ Unlink(c) \/ Rmdir(c) \/ Discard(c) \/ DiscardDir(c)
     \/ Snapshot(c) \/ FilterOne(c) \/ Filtered(c) \/ NextItem(c)

Supervisors ==
    /\ \E i \in IDs : SupervisorEnds(i) \/ AutoRemoves(i) \/ AutoRemovesDir(i)
    /\ UNCHANGED mix

Next == (\E c \in Clients : Ask(c) \/ Works(c) \/ GivesUp(c)) \/ Supervisors

Spec == Init /\ [][Next]_vars

-----------------------------------------------------------------------------
Steps == {"idle", "store", "resolve", "search", "taken", "lock", "read", "reread",
          "write", "create", "own", "launch", "act", "unlink", "rmdir", "discard",
          "discardDir", "snapshot", "filter", "next", "replied"}

Calls ==
    [at : Steps, op : AllOps, sel : Selections, ref : Refs \cup {None},
     name : TaskNames \cup {None}, labels : SUBSET Labels, replace : BOOLEAN,
     id : IDs \cup {None}, scan : SUBSET IDs, hits : SUBSET IDs,
     buf : TypeMeta \cup {None}, refs : Seq(Refs), todo : SUBSET IDs,
     items : Seq([id : IDs \cup {None}, res : Results])]

TypeOK ==
    /\ meta \in [IDs -> TypeMeta \cup {None}]
    /\ dirs \subseteq used /\ used \subseteq IDs
    /\ served \subseteq IDs /\ leaving \subseteq IDs /\ revived \subseteq IDs
    /\ storeLock \in Clients \cup {None}
    /\ taskLock \in [IDs -> Clients \cup {None}]
    /\ mix \in DOMAIN Requests
    /\ call \in [Clients -> Calls]
    /\ \A i \in IDs : Exists(i) => i \in dirs

(* No two tasks have one name, whatever runs, renames, removals and        *)
(* auto-removals do to each other: "store-wide uniqueness"                 *)
(* (rename_labels.go:12).  The exception is a task revived by a request    *)
(* that wrote its meta.json while its supervisor was removing it.          *)
NamesUnique ==
    \A i, j \in IDs \ revived :
        Exists(i) /\ Exists(j) /\ meta[i].name = meta[j].name => i = j

(* Rename and SetLabels do not undo each other: no write to meta.json      *)
(* changes the name and the labels of a task at once.                      *)
WritesKeepTheRest ==
    [][\A i \in IDs : Exists(i) /\ meta'[i] # None
          => meta'[i].name = meta[i].name \/ meta'[i].labels = meta[i].labels]_vars

(* Who holds the lock c waits for. *)
WaitsFor(c) ==
    CASE At(c, "store") -> storeLock
      [] call[c].at \in {"lock", "own"} -> taskLock[call[c].id]
      [] OTHER -> None

(* Requests never wait for each other in a circle, though run and rename   *)
(* take a task's lock while they hold the store-wide one, and a batch      *)
(* takes one task's lock after the other: so the waits end even where      *)
(* nothing bounds them (the command line's).                               *)
NoCircularWait ==
    \A S \in (SUBSET Clients) \ {{}} : \E c \in S : WaitsFor(c) \notin S

(* Taken together, the requests keep the promises of NameTable: a name     *)
(* changes hands only while it is free, in one step, and a removed task    *)
(* does not come back (revived tasks excepted, as above).                  *)
NameOf(i) == IF Exists(i) /\ i \notin revived THEN meta[i].name ELSE None

Table == INSTANCE NameTable WITH
    Names <- TaskNames, nameOf <- [i \in IDs |-> NameOf(i)], spent <- used

ImplementsNameTable == Table!Spec
=============================================================================
