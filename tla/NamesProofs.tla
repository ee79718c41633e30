---------------------------- MODULE NamesProofs ----------------------------
(***************************************************************************)
(* Theorems about names, labels and locks, for any number of clients,      *)
(* tasks, names and labels, and whatever the clients ask for.              *)
(***************************************************************************)
EXTENDS Names, TLAPS

(* The steps at which a request has a task. *)
HasTask == {"lock", "read", "act", "reread", "write", "unlink", "rmdir",
            "own", "launch", "discard", "discardDir"}

(* What a request may be at each of its steps. *)
StepInv(c) ==
    LET q == call[c] IN
    /\ q.at \in HasTask => q.id \in IDs
    /\ q.at \in {"create", "own", "launch", "discard", "discardDir"} => q.op = "run"
    /\ q.at \in {"store", "taken"} => q.op \in {"run", "rename"}
    /\ q.at \in {"reread", "write"} => q.op \in {"rename", "set_labels"}
    /\ q.at = "taken" /\ q.op = "rename" => q.id \in IDs
    /\ q.at = "write" => q.buf \in TypeMeta
    /\ q.at # "replied" /\ q.op \in {"run", "rename"} => q.name \in TaskNames
    /\ q.at # "replied" /\ q.op = "run" => q.ref = q.name
    /\ q.at \in {"next", "snapshot", "filter"} => q.op \in BatchOps
    /\ q.at \in {"snapshot", "filter"} => q.sel # "refs"
    /\ q.at = "next" /\ q.sel = "refs" => q.refs # <<>>
    /\ q.sel = "refs" => q.todo = {}

TypeInv == TypeOK /\ \A c \in Clients : StepInv(c)

-----------------------------------------------------------------------------
(* Types *)

LEMMA IdleType == Idle \in Calls
  BY DEF Idle, Calls, Steps, AllOps, BatchOps, Selections, Refs

LEMMA Memberships ==
    /\ {"store", "resolve", "next", "snapshot"} \subseteq Steps
    /\ {"run", "rename", "set_labels"} \subseteq AllOps /\ BatchOps \subseteq AllOps
    /\ {"run", "rename", "set_labels"} \cap BatchOps = {}
    /\ Selections = {"refs", "labels", "all"}
    /\ Idle.at = "idle" /\ Idle.op = "stop" /\ Idle.sel = "refs" /\ Idle.todo = {}
  BY DEF Steps, AllOps, BatchOps, Selections, Idle

(* What is known of a request that begins. *)
Begins(q) ==
    /\ q \in Calls
    /\ q.at \in {"store", "resolve", "next", "snapshot"}
    /\ q.at = "store" => q.op \in {"run", "rename"}
    /\ q.op \in {"run", "rename"} => q.at = "store" /\ q.name \in TaskNames
    /\ q.op = "run" => q.ref = q.name
    /\ q.at \in {"next", "snapshot"} => q.op \in BatchOps
    /\ q.at = "snapshot" => q.sel # "refs"
    /\ q.at = "next" => q.refs # <<>>
    /\ q.todo = {}

LEMMA RequestType ==
    ASSUME NEW q, IsRequest(q)
    PROVE  Begins(q)
  <1> USE IdleType, Memberships DEF Calls, Begins, Refs
  <1>1. ASSUME NEW n \in TaskNames, NEW ls \in SUBSET Labels, NEW b \in BOOLEAN
        PROVE  Begins(Run(n, ls, b))
    BY ZenonT(60) DEF Run
  <1>2. ASSUME NEW ref \in Refs, NEW n \in TaskNames
        PROVE  Begins(Rename(ref, n))
    BY DEF Rename
  <1>3. ASSUME NEW ref \in Refs, NEW ls \in SUBSET Labels
        PROVE  Begins(SetLabels(ref, ls))
    BY DEF SetLabels
  <1>4. ASSUME NEW op \in BatchOps, NEW refs \in Seq(Refs) \ {<<>>}
        PROVE  Begins(OnRefs(op, refs))
    BY DEF OnRefs
  <1>5. ASSUME NEW op \in BatchOps, NEW ls \in SUBSET Labels
        PROVE  Begins(OnLabels(op, ls))
    BY DEF OnLabels
  <1>6. ASSUME NEW op \in BatchOps
        PROVE  Begins(OnAll(op))
    BY DEF OnAll
  <1> HIDE IdleType, Memberships DEF Calls, Begins, Refs
  <1>7. QED
    BY <1>1, <1>2, <1>3, <1>4, <1>5, <1>6 DEF IsRequest

LEMMA TypeInit == Init => TypeInv
  <1> SUFFICES ASSUME Init PROVE TypeInv
    OBVIOUS
  <1> USE NamesAssumption
  <1>1. call \in [Clients -> Calls]
    BY IdleType DEF Init
  <1>2. \A c \in Clients : StepInv(c)
    BY ZenonT(60) DEF Init, Idle, StepInv, HasTask, BatchOps
  <1>3. TypeOK
    BY <1>1 DEF Init, TypeOK, Exists
  <1>4. QED
    BY <1>2, <1>3 DEF TypeInv

(* What a step of c leaves alone, and the types of what it may change.     *)
CallFrame(c) ==
    /\ call' \in [Clients -> Calls]
    /\ \A d \in Clients \ {c} : call'[d] = call[d]

StoreTypes ==
    /\ meta \in [IDs -> TypeMeta \cup {None}]
    /\ dirs \subseteq used /\ used \subseteq IDs
    /\ served \subseteq IDs /\ leaving \subseteq IDs /\ revived \subseteq IDs
    /\ storeLock \in Clients \cup {None}
    /\ taskLock \in [IDs -> Clients \cup {None}]
    /\ mix \in DOMAIN Requests
    /\ \A i \in IDs : Exists(i) => i \in dirs

(* The fields that Goto and Reads leave alone. *)
Asked(c) ==
    /\ call'[c].op = call[c].op /\ call'[c].sel = call[c].sel
    /\ call'[c].ref = call[c].ref /\ call'[c].name = call[c].name
    /\ call'[c].refs = call[c].refs /\ call'[c].id = call[c].id
    /\ call'[c].labels = call[c].labels

LEMMA GotoCall ==
    ASSUME call \in [Clients -> Calls], NEW c \in Clients, NEW s \in Steps, Goto(c, s)
    PROVE  /\ CallFrame(c) /\ Asked(c)
           /\ call'[c].at = s
           /\ call'[c].scan = call[c].scan /\ call'[c].hits = call[c].hits
           /\ call'[c].buf = call[c].buf /\ call'[c].todo = call[c].todo
  <1>1. [call[c] EXCEPT !.at = s] \in Calls
    BY ZenonT(60) DEF Calls
  <1>2. QED
    BY <1>1 DEF Goto, CallFrame, Asked, Calls

LEMMA ReadsCall ==
    ASSUME call \in [Clients -> Calls], NEW c \in Clients, NEW s \in Steps, Reads(c, s),
           dirs \subseteq IDs
    PROVE  /\ CallFrame(c) /\ Asked(c)
           /\ call'[c].at = s /\ call'[c].scan = dirs /\ call'[c].hits = {}
           /\ call'[c].buf = call[c].buf /\ call'[c].todo = call[c].todo
  <1>1. [call[c] EXCEPT !.at = s, !.scan = dirs, !.hits = {}] \in Calls
    BY ZenonT(60) DEF Calls
  <1>2. QED
    BY ZenonT(60), <1>1 DEF Reads, CallFrame, Asked, Calls

(* What the other updates of a request leave alone. *)
TakesTask(c, i, s) ==
    call' = [call EXCEPT ![c].id = i, ![c].at = s]

LEMMA TakesTaskCall ==
    ASSUME call \in [Clients -> Calls], NEW c \in Clients,
           NEW i \in IDs \cup {None}, NEW s \in Steps,
           TakesTask(c, i, s)
    PROVE  /\ CallFrame(c)
           /\ call'[c].id = i /\ call'[c].at = s
           /\ call'[c].op = call[c].op /\ call'[c].sel = call[c].sel
           /\ call'[c].ref = call[c].ref /\ call'[c].name = call[c].name
           /\ call'[c].labels = call[c].labels /\ call'[c].scan = call[c].scan
           /\ call'[c].hits = call[c].hits /\ call'[c].buf = call[c].buf
           /\ call'[c].refs = call[c].refs /\ call'[c].todo = call[c].todo
  <1>1. [call[c] EXCEPT !.id = i, !.at = s] \in Calls
    BY ZenonT(60) DEF Calls
  <1>2. QED
    BY <1>1 DEF TakesTask, CallFrame, Calls

Searches(c, x, y) ==
    call' = [call EXCEPT ![c].scan = x, ![c].hits = y]

LEMMA SearchesCall ==
    ASSUME call \in [Clients -> Calls], NEW c \in Clients,
           NEW x \in SUBSET IDs, NEW y \in SUBSET IDs,
           Searches(c, x, y)
    PROVE  /\ CallFrame(c)
           /\ call'[c].scan = x /\ call'[c].hits = y
           /\ call'[c].op = call[c].op /\ call'[c].sel = call[c].sel
           /\ call'[c].ref = call[c].ref /\ call'[c].name = call[c].name
           /\ call'[c].labels = call[c].labels /\ call'[c].id = call[c].id
           /\ call'[c].at = call[c].at /\ call'[c].buf = call[c].buf
           /\ call'[c].refs = call[c].refs /\ call'[c].todo = call[c].todo
  <1>1. [call[c] EXCEPT !.scan = x, !.hits = y] \in Calls
    BY ZenonT(60) DEF Calls
  <1>2. QED
    BY <1>1 DEF Searches, CallFrame, Calls

FindsTask(c, i, y, s) ==
    call' = [call EXCEPT ![c].id = i, ![c].hits = y, ![c].at = s]

LEMMA FindsTaskCall ==
    ASSUME call \in [Clients -> Calls], NEW c \in Clients,
           NEW i \in IDs \cup {None}, NEW y \in SUBSET IDs, NEW s \in Steps,
           FindsTask(c, i, y, s)
    PROVE  /\ CallFrame(c)
           /\ call'[c].id = i /\ call'[c].hits = y
           /\ call'[c].at = s /\ call'[c].op = call[c].op
           /\ call'[c].sel = call[c].sel /\ call'[c].ref = call[c].ref
           /\ call'[c].name = call[c].name /\ call'[c].labels = call[c].labels
           /\ call'[c].scan = call[c].scan /\ call'[c].buf = call[c].buf
           /\ call'[c].refs = call[c].refs /\ call'[c].todo = call[c].todo
  <1>1. [call[c] EXCEPT !.id = i, !.hits = y, !.at = s] \in Calls
    <2> DEFINE q == [call[c] EXCEPT !.id = i, !.hits = y]
    <2>1. q \in Calls
      BY ZenonT(60) DEF Calls
    <2> HIDE DEF q
    <2>2. [q EXCEPT !.at = s] \in Calls
      BY <2>1 DEF Calls
    <2>3. QED
      BY <2>2 DEF q
  <1>2. QED
    BY ZenonT(60), <1>1 DEF FindsTask, CallFrame, Calls

Scans(c, x) ==
    call' = [call EXCEPT ![c].scan = x]

LEMMA ScansCall ==
    ASSUME call \in [Clients -> Calls], NEW c \in Clients,
           NEW x \in SUBSET IDs,
           Scans(c, x)
    PROVE  /\ CallFrame(c)
           /\ call'[c].scan = x /\ call'[c].op = call[c].op
           /\ call'[c].sel = call[c].sel /\ call'[c].ref = call[c].ref
           /\ call'[c].name = call[c].name /\ call'[c].labels = call[c].labels
           /\ call'[c].id = call[c].id /\ call'[c].at = call[c].at
           /\ call'[c].hits = call[c].hits /\ call'[c].buf = call[c].buf
           /\ call'[c].refs = call[c].refs /\ call'[c].todo = call[c].todo
  <1>1. [call[c] EXCEPT !.scan = x] \in Calls
    BY ZenonT(60) DEF Calls
  <1>2. QED
    BY <1>1 DEF Scans, CallFrame, Calls

Buffers(c, b, s) ==
    call' = [call EXCEPT ![c].buf = b, ![c].at = s]

LEMMA BuffersCall ==
    ASSUME call \in [Clients -> Calls], NEW c \in Clients,
           NEW b \in TypeMeta \cup {None}, NEW s \in Steps,
           Buffers(c, b, s)
    PROVE  /\ CallFrame(c)
           /\ call'[c].buf = b /\ call'[c].at = s
           /\ call'[c].op = call[c].op /\ call'[c].sel = call[c].sel
           /\ call'[c].ref = call[c].ref /\ call'[c].name = call[c].name
           /\ call'[c].labels = call[c].labels /\ call'[c].id = call[c].id
           /\ call'[c].scan = call[c].scan /\ call'[c].hits = call[c].hits
           /\ call'[c].refs = call[c].refs /\ call'[c].todo = call[c].todo
  <1>1. [call[c] EXCEPT !.buf = b, !.at = s] \in Calls
    BY ZenonT(60) DEF Calls
  <1>2. QED
    BY <1>1 DEF Buffers, CallFrame, Calls

SnapsTodo(c, z, s) ==
    call' = [call EXCEPT ![c].todo = z, ![c].at = s]

LEMMA SnapsTodoCall ==
    ASSUME call \in [Clients -> Calls], NEW c \in Clients,
           NEW z \in SUBSET IDs, NEW s \in Steps,
           SnapsTodo(c, z, s)
    PROVE  /\ CallFrame(c)
           /\ call'[c].todo = z /\ call'[c].at = s
           /\ call'[c].op = call[c].op /\ call'[c].sel = call[c].sel
           /\ call'[c].ref = call[c].ref /\ call'[c].name = call[c].name
           /\ call'[c].labels = call[c].labels /\ call'[c].id = call[c].id
           /\ call'[c].scan = call[c].scan /\ call'[c].hits = call[c].hits
           /\ call'[c].buf = call[c].buf /\ call'[c].refs = call[c].refs
  <1>1. [call[c] EXCEPT !.todo = z, !.at = s] \in Calls
    BY ZenonT(60) DEF Calls
  <1>2. QED
    BY <1>1 DEF SnapsTodo, CallFrame, Calls

Filters(c, x, z) ==
    call' = [call EXCEPT ![c].scan = x, ![c].todo = z]

LEMMA FiltersCall ==
    ASSUME call \in [Clients -> Calls], NEW c \in Clients,
           NEW x \in SUBSET IDs, NEW z \in SUBSET IDs,
           Filters(c, x, z)
    PROVE  /\ CallFrame(c)
           /\ call'[c].scan = x /\ call'[c].todo = z
           /\ call'[c].op = call[c].op /\ call'[c].sel = call[c].sel
           /\ call'[c].ref = call[c].ref /\ call'[c].name = call[c].name
           /\ call'[c].labels = call[c].labels /\ call'[c].id = call[c].id
           /\ call'[c].at = call[c].at /\ call'[c].hits = call[c].hits
           /\ call'[c].buf = call[c].buf /\ call'[c].refs = call[c].refs
  <1>1. [call[c] EXCEPT !.scan = x, !.todo = z] \in Calls
    BY ZenonT(60) DEF Calls
  <1>2. QED
    BY <1>1 DEF Filters, CallFrame, Calls

NextRef(c, ref, refs, s) ==
    call' = [call EXCEPT ![c].ref = ref, ![c].refs = refs, ![c].at = s]

LEMMA NextRefCall ==
    ASSUME call \in [Clients -> Calls], NEW c \in Clients,
           NEW ref \in Refs, NEW refs \in Seq(Refs), NEW s \in Steps,
           NextRef(c, ref, refs, s)
    PROVE  /\ CallFrame(c)
           /\ call'[c].ref = ref /\ call'[c].refs = refs
           /\ call'[c].at = s /\ call'[c].op = call[c].op
           /\ call'[c].sel = call[c].sel /\ call'[c].name = call[c].name
           /\ call'[c].labels = call[c].labels /\ call'[c].id = call[c].id
           /\ call'[c].scan = call[c].scan /\ call'[c].hits = call[c].hits
           /\ call'[c].buf = call[c].buf /\ call'[c].todo = call[c].todo
  <1>1. [call[c] EXCEPT !.ref = ref, !.refs = refs, !.at = s] \in Calls
    BY ZenonT(60) DEF Calls
  <1>2. QED
    BY ZenonT(60), <1>1 DEF NextRef, CallFrame, Calls

NextTask(c, z, ref, i, s) ==
    call' = [call EXCEPT ![c].todo = z, ![c].ref = ref, ![c].id = i, ![c].at = s]

LEMMA NextTaskCall ==
    ASSUME call \in [Clients -> Calls], NEW c \in Clients,
           NEW z \in SUBSET IDs, NEW ref \in Refs, NEW i \in IDs \cup {None}, NEW s \in Steps,
           NextTask(c, z, ref, i, s)
    PROVE  /\ CallFrame(c)
           /\ call'[c].todo = z /\ call'[c].ref = ref
           /\ call'[c].id = i /\ call'[c].at = s
           /\ call'[c].op = call[c].op /\ call'[c].sel = call[c].sel
           /\ call'[c].name = call[c].name /\ call'[c].labels = call[c].labels
           /\ call'[c].scan = call[c].scan /\ call'[c].hits = call[c].hits
           /\ call'[c].buf = call[c].buf /\ call'[c].refs = call[c].refs
  <1>1. [call[c] EXCEPT !.todo = z, !.ref = ref, !.id = i, !.at = s] \in Calls
    <2> DEFINE q == [call[c] EXCEPT !.todo = z, !.ref = ref]
    <2>1. q \in Calls
      BY ZenonT(60) DEF Calls
    <2> HIDE DEF q
    <2>2. [q EXCEPT !.id = i, !.at = s] \in Calls
      BY <2>1 DEF Calls
    <2>3. QED
      BY <2>2 DEF q
  <1>2. QED
    BY ZenonT(60), <1>1 DEF NextTask, CallFrame, Calls

(* A request, or its turn on one task, that ends has no task any more, and *)
(* only a batch goes on.                                                   *)
LEMMA EndsCall ==
    ASSUME call \in [Clients -> Calls], NEW c \in Clients, NEW r \in Results, Ends(c, r),
           call[c].sel = "refs" => call[c].todo = {}
    PROVE  /\ CallFrame(c)
           /\ call'[c].at \in {"next", "replied"}
           /\ call'[c].at = "next" => call[c].op \in BatchOps
           /\ call'[c].at = "next" /\ call[c].sel = "refs" => call'[c].refs # <<>>
           /\ call'[c].op = call[c].op /\ call'[c].sel = call[c].sel
           /\ call'[c].sel = "refs" => call'[c].todo = {}
           /\ taskLock' = Held(c)
           /\ storeLock' = IF storeLock = c THEN None ELSE storeLock
  <1> DEFINE next == AfterItem(c, r)
             items == Append(call[c].items, [id |-> call[c].id, res |-> r])
             rest == IF next = "replied" THEN Idle
                     ELSE [Idle EXCEPT !.labels = call[c].labels,
                                       !.refs = call[c].refs, !.todo = call[c].todo]
             q == [rest EXCEPT !.at = next, !.items = items,
                               !.op = call[c].op, !.sel = call[c].sel]
  <1>1. call' = [call EXCEPT ![c] = q] /\ Release(c)
    BY DEF Ends
  <1>2. next \in {"next", "replied"} /\ {"next", "replied"} \subseteq Steps
    BY DEF AfterItem, Steps
  <1>3. next = "next" =>
          /\ call[c].op \in BatchOps
          /\ ~(call[c].refs = <<>> /\ call[c].todo = {})
    BY DEF AfterItem
  <1>4. items \in Seq([id : IDs \cup {None}, res : Results])
    <2> DEFINE T == [id : IDs \cup {None}, res : Results]
               x == [id |-> call[c].id, res |-> r]
    <2>1. call[c].items \in Seq(T) /\ x \in T
      BY DEF Calls
    <2> HIDE DEF T, x
    <2>2. Append(call[c].items, x) \in Seq(T)
      BY <2>1
    <2>3. QED
      BY <2>2 DEF T, x
  <1> HIDE DEF next, items
  <1>5. rest \in Calls
    BY IdleType DEF Calls
  <1>6. /\ rest.refs = IF next = "replied" THEN Idle.refs ELSE call[c].refs
        /\ rest.todo = IF next = "replied" THEN {} ELSE call[c].todo
    BY IdleType, Memberships DEF Calls
  <1> HIDE DEF rest
  <1>7. q \in Calls
    BY <1>2, <1>4, <1>5 DEF Calls
  <1>8. /\ q.at = next /\ q.op = call[c].op /\ q.sel = call[c].sel
        /\ q.refs = rest.refs /\ q.todo = rest.todo
    BY <1>5 DEF Calls
  <1> HIDE DEF q
  <1>9. call'[c] = q /\ CallFrame(c)
    BY <1>1, <1>7 DEF CallFrame
  <1>10. QED
    BY <1>1, <1>2, <1>3, <1>6, <1>8, <1>9 DEF Release

(* What a request does to itself at the steps that change several fields.  *)
LEMMA ResolveIdCall ==
    ASSUME TypeInv, NEW c \in Clients, ResolveId(c)
    PROVE  /\ CallFrame(c)
           /\ call'[c].op = call[c].op /\ call'[c].sel = call[c].sel
           /\ call'[c].ref = call[c].ref /\ call'[c].name = call[c].name
           /\ call'[c].refs = call[c].refs /\ call'[c].todo = call[c].todo
           /\ \/ /\ call[c].ref \in IDs
                 /\ call'[c].at = "lock" /\ call'[c].id = call[c].ref
              \/ /\ call'[c].at = "search" /\ call'[c].id = call[c].id
                 /\ call'[c].scan = dirs /\ call'[c].hits = {}
  <1>1. call \in [Clients -> Calls] /\ dirs \in SUBSET IDs /\ {"lock", "search"} \subseteq Steps
    BY DEF TypeInv, TypeOK, Steps
  <1>2. CASE call[c].ref \in IDs /\ Exists(call[c].ref)
    <2>1. TakesTask(c, call[c].ref, "lock")
      BY <1>2 DEF ResolveId, TakesTask
    <2>2. QED
      BY <1>1, <1>2, <2>1, TakesTaskCall
  <1>3. CASE ~(call[c].ref \in IDs /\ Exists(call[c].ref))
    <2>1. Reads(c, "search")
      BY <1>3 DEF ResolveId
    <2>2. QED
      BY <1>1, <2>1, ReadsCall DEF Asked
  <1>4. QED
    BY <1>2, <1>3

LEMMA SearchOneCall ==
    ASSUME TypeInv, NEW c \in Clients, SearchOne(c)
    PROVE  /\ CallFrame(c) /\ Asked(c)
           /\ call'[c].at = call[c].at /\ call'[c].buf = call[c].buf
           /\ call'[c].todo = call[c].todo
           /\ \E i \in IDs :
                 /\ call'[c].scan = call[c].scan \ {i}
                 /\ call'[c].hits = IF Exists(i) /\ meta[i].name = call[c].ref
                                    THEN call[c].hits \cup {i} ELSE call[c].hits
  <1>1. call \in [Clients -> Calls] /\ call[c].scan \subseteq IDs /\ call[c].hits \subseteq IDs
    BY DEF TypeInv, TypeOK, Calls
  <1>2. PICK i \in IDs : call' = [call EXCEPT ![c].scan = @ \ {i},
                    ![c].hits = IF Exists(i) /\ meta[i].name = call[c].ref
                                THEN @ \cup {i} ELSE @]
    BY DEF SearchOne
  <1> DEFINE x == call[c].scan \ {i}
             y == IF Exists(i) /\ meta[i].name = call[c].ref
                  THEN call[c].hits \cup {i} ELSE call[c].hits
  <1>3. x \in SUBSET IDs /\ y \in SUBSET IDs
    BY <1>1
  <1>4. Searches(c, x, y)
    BY <1>2 DEF Searches
  <1> HIDE DEF x, y
  <1>5. /\ CallFrame(c) /\ Asked(c)
        /\ call'[c].at = call[c].at /\ call'[c].buf = call[c].buf
        /\ call'[c].todo = call[c].todo
        /\ call'[c].scan = x /\ call'[c].hits = y
    BY <1>1, <1>3, <1>4, SearchesCall DEF Asked
  <1>6. QED
    BY <1>5 DEF x, y

LEMMA FoundCall ==
    ASSUME TypeInv, NEW c \in Clients, NEW i \in call[c].hits,
           call' = [call EXCEPT ![c].id = i, ![c].hits = {}, ![c].at = "lock"]
    PROVE  /\ CallFrame(c) /\ i \in IDs
           /\ call'[c].op = call[c].op /\ call'[c].sel = call[c].sel
           /\ call'[c].ref = call[c].ref /\ call'[c].name = call[c].name
           /\ call'[c].refs = call[c].refs /\ call'[c].todo = call[c].todo
           /\ call'[c].at = "lock" /\ call'[c].id = i
  <1>1. call \in [Clients -> Calls] /\ i \in IDs
    BY DEF TypeInv, TypeOK, Calls
  <1>2. FindsTask(c, i, {}, "lock") /\ {} \in SUBSET IDs /\ "lock" \in Steps
    BY DEF FindsTask, Steps
  <1>3. QED
    BY <1>1, <1>2, FindsTaskCall

LEMMA PassesCall ==
    ASSUME TypeInv, NEW c \in Clients, NEW i \in IDs,
           call' = [call EXCEPT ![c].scan = @ \ {i}]
    PROVE  /\ CallFrame(c) /\ Asked(c)
           /\ call'[c].at = call[c].at /\ call'[c].buf = call[c].buf
           /\ call'[c].todo = call[c].todo
           /\ call'[c].scan = call[c].scan \ {i}
  <1>1. call \in [Clients -> Calls] /\ call[c].scan \ {i} \in SUBSET IDs
    BY DEF TypeInv, TypeOK, Calls
  <1>2. Scans(c, call[c].scan \ {i})
    BY DEF Scans
  <1>3. QED
    BY <1>1, <1>2, ScansCall DEF Asked

LEMMA RereadCall ==
    ASSUME TypeInv, NEW c \in Clients, Reread(c), Exists(call[c].id)
    PROVE  /\ CallFrame(c) /\ Asked(c) /\ UNCHANGED locks
           /\ call[c].id \in dirs /\ meta[call[c].id] \in TypeMeta
           /\ call'[c].at = "write" /\ call'[c].buf = meta[call[c].id]
           /\ call'[c].todo = call[c].todo
  <1>1. /\ call \in [Clients -> Calls] /\ meta[call[c].id] \in TypeMeta
        /\ call[c].id \in dirs /\ "write" \in Steps
    BY DEF TypeInv, TypeOK, StepInv, HasTask, Reread, At, Exists, Steps
  <1>2. Buffers(c, meta[call[c].id], "write") /\ UNCHANGED locks
    BY DEF Reread, Buffers
  <1>3. QED
    BY <1>1, <1>2, BuffersCall DEF Asked

LEMMA CreateCall ==
    ASSUME TypeInv, NEW c \in Clients, Create(c)
    PROVE  /\ CallFrame(c)
           /\ call'[c].op = call[c].op /\ call'[c].sel = call[c].sel
           /\ call'[c].ref = call[c].ref /\ call'[c].name = call[c].name
           /\ call'[c].refs = call[c].refs /\ call'[c].todo = call[c].todo
           /\ call'[c].at = "own"
           /\ \E i \in IDs \ used :
                 /\ call'[c].id = i
                 /\ used' = used \cup {i} /\ dirs' = dirs \cup {i}
                 /\ meta' = [meta EXCEPT ![i] = [name |-> call[c].name,
                                                  labels |-> call[c].labels]]
  <1>1. call \in [Clients -> Calls] /\ "own" \in Steps
    BY DEF TypeInv, TypeOK, Steps
  <1>2. PICK i \in IDs \ used :
           /\ used' = used \cup {i} /\ dirs' = dirs \cup {i}
           /\ meta' = [meta EXCEPT ![i] = [name |-> call[c].name,
                                            labels |-> call[c].labels]]
           /\ call' = [call EXCEPT ![c].id = i, ![c].at = "own"]
    BY DEF Create
  <1>3. TakesTask(c, i, "own")
    BY <1>2 DEF TakesTask
  <1>4. QED
    BY ZenonT(60), <1>1, <1>2, <1>3, TakesTaskCall

LEMMA SnapshotCall ==
    ASSUME TypeInv, NEW c \in Clients, Snapshot(c)
    PROVE  /\ CallFrame(c) /\ Asked(c)
           /\ call'[c].at \in {"replied", "next", "filter"}
           /\ call[c].sel = "refs" => call'[c].at = "filter" /\ call'[c].todo = call[c].todo
  <1>1. /\ call \in [Clients -> Calls] /\ dirs \in SUBSET IDs
        /\ {"replied", "next", "filter"} \subseteq Steps
    BY DEF TypeInv, TypeOK, Steps
  <1>2. CASE call[c].sel = "all"
    <2> DEFINE s == IF dirs = {} THEN "replied" ELSE "next"
    <2>1. SnapsTodo(c, dirs, s) /\ s \in {"replied", "next"}
      BY <1>2 DEF Snapshot, SnapsTodo
    <2> HIDE DEF s
    <2>2. QED
      BY <1>1, <1>2, <2>1, SnapsTodoCall DEF Asked
  <1>3. CASE call[c].sel # "all"
    BY <1>1, <1>3, ReadsCall DEF Snapshot
  <1>4. QED
    BY <1>2, <1>3

LEMMA FilterOneCall ==
    ASSUME TypeInv, NEW c \in Clients, FilterOne(c)
    PROVE  CallFrame(c) /\ Asked(c) /\ call'[c].at = call[c].at
  <1>1. call \in [Clients -> Calls] /\ call[c].scan \subseteq IDs /\ call[c].todo \subseteq IDs
    BY DEF TypeInv, TypeOK, Calls
  <1>2. PICK i \in IDs : call' = [call EXCEPT ![c].scan = @ \ {i},
              ![c].todo = IF Exists(i) /\ meta[i].labels \cap call[c].labels # {}
                          THEN @ \cup {i} ELSE @]
    BY DEF FilterOne
  <1> DEFINE x == call[c].scan \ {i}
             z == IF Exists(i) /\ meta[i].labels \cap call[c].labels # {}
                  THEN call[c].todo \cup {i} ELSE call[c].todo
  <1>3. x \in SUBSET IDs /\ z \in SUBSET IDs
    BY <1>1
  <1>4. Filters(c, x, z)
    BY <1>2 DEF Filters
  <1> HIDE DEF x, z
  <1>5. QED
    BY <1>1, <1>3, <1>4, FiltersCall DEF Asked

LEMMA NextItemCall ==
    ASSUME TypeInv, NEW c \in Clients, NextItem(c)
    PROVE  /\ CallFrame(c) /\ call[c].op \in BatchOps
           /\ call'[c].op = call[c].op /\ call'[c].sel = call[c].sel
           /\ call[c].sel = "refs" => call'[c].todo = call[c].todo
           /\ \/ call'[c].at = "resolve"
              \/ call'[c].at = "lock" /\ call'[c].id \in IDs
  <1>1. /\ call \in [Clients -> Calls] /\ call[c].todo \subseteq IDs
        /\ call[c].op \in BatchOps /\ {"resolve", "lock"} \subseteq Steps
    BY ZenonT(60) DEF TypeInv, TypeOK, Calls, StepInv, NextItem, At, Steps
  <1>2. CASE call[c].sel = "refs"
    <2> DEFINE x == Head(call[c].refs)
               y == Tail(call[c].refs)
    <2>1. x \in Refs /\ y \in Seq(Refs)
      BY <1>2 DEF TypeInv, TypeOK, Calls, StepInv, NextItem, At
    <2>2. NextRef(c, x, y, "resolve")
      BY <1>2 DEF NextItem, NextRef
    <2> HIDE DEF x, y
    <2>3. QED
      BY <1>1, <2>1, <2>2, NextRefCall
  <1>3. CASE call[c].sel # "refs"
    <2>1. PICK i \in call[c].todo :
             call' = [call EXCEPT ![c].todo = @ \ {i},
                    ![c].ref = i,
                    ![c].id = IF call[c].op = "cleanup" THEN i ELSE None,
                    ![c].at = IF call[c].op = "cleanup" THEN "lock" ELSE "resolve"]
      BY ZenonT(60), <1>3 DEF NextItem
    <2> DEFINE z == call[c].todo \ {i}
               k == IF call[c].op = "cleanup" THEN i ELSE None
               s == IF call[c].op = "cleanup" THEN "lock" ELSE "resolve"
    <2>2. /\ z \in SUBSET IDs /\ i \in Refs /\ k \in IDs \cup {None} /\ s \in Steps
          /\ s = "resolve" \/ (s = "lock" /\ k \in IDs)
      BY <1>1 DEF Refs
    <2>3. NextTask(c, z, i, k, s)
      BY <2>1 DEF NextTask
    <2> HIDE DEF z, k, s
    <2>4. QED
      BY <1>1, <1>3, <2>2, <2>3, NextTaskCall
  <1>4. QED
    BY <1>2, <1>3

LEMMA HeldType ==
    ASSUME taskLock \in [IDs -> Clients \cup {None}], NEW c \in Clients
    PROVE  Held(c) \in [IDs -> Clients \cup {None}]
  BY DEF Held

LEMMA TheSteps ==
    /\ HasTask \cup {"idle", "store", "resolve", "search", "taken", "create",
                     "snapshot", "filter", "next", "replied"} = Steps
    /\ Codes \cup {"changed", "no_op"} = Results
    /\ Codes = {"not_found", "conflict", "busy", "deadline_exceeded",
                "failed_precondition", "internal"}
    /\ IDs \subseteq Refs /\ TaskNames \subseteq Refs
  BY DEF Steps, HasTask, Codes, Results, Refs

(* Each action: its effect on the types. *)
TypeStep(c) == CallFrame(c) /\ StepInv(c)' /\ StoreTypes'

LEMMA AskTypes ==
    ASSUME TypeInv, NEW c \in Clients, Ask(c)
    PROVE  TypeStep(c)
  <1>1. PICK q \in Requests[mix][c] : call' = [call EXCEPT ![c] = q]
    BY DEF Ask
  <1>2. IsRequest(q)
    BY RequestsAssumption DEF TypeInv, TypeOK
  <1>3. Begins(q)
    BY <1>2, RequestType
  <1>4. CallFrame(c) /\ call'[c] = q
    BY <1>1, <1>3 DEF TypeInv, TypeOK, CallFrame, Begins
  <1>5. StepInv(c)'
    BY <1>3, <1>4, Memberships, TheSteps DEF StepInv, Begins, HasTask
  <1>6. StoreTypes'
    BY DEF Ask, TypeInv, TypeOK, StoreTypes, store, sups, locks, Exists
  <1>7. QED
    BY <1>4, <1>5, <1>6 DEF TypeStep

LEMMA LockTypes ==
    ASSUME TypeInv, NEW c \in Clients, UNCHANGED mix,
           LockStore(c) \/ GivesUpStore(c) \/ LockTask(c) \/ GivesUpTask(c)
    PROVE  TypeStep(c)
  <1> USE NamesAssumption
     DEF TypeInv, TypeOK, StoreTypes, StepInv, HasTask, At, TypeStep,
          Asked, Exists, store, sups
  <1>1. CASE LockStore(c)
    BY <1>1, GotoCall, ReadsCall, TheSteps, Memberships DEF LockStore
  <1>2. CASE GivesUpStore(c)
    BY <1>2, EndsCall, HeldType, TheSteps, Memberships DEF GivesUpStore
  <1>3. CASE LockTask(c)
    BY <1>3, GotoCall, TheSteps, Memberships DEF LockTask
  <1>4. CASE GivesUpTask(c)
    BY <1>4, EndsCall, HeldType, TheSteps, Memberships DEF GivesUpTask
  <1>5. QED
    BY <1>1, <1>2, <1>3, <1>4

LEMMA ReadTypes ==
    ASSUME TypeInv, NEW c \in Clients, UNCHANGED mix,
           ResolveId(c) \/ SearchOne(c) \/ Resolved(c) \/ TakenOne(c) \/ NotTaken(c)
    PROVE  TypeStep(c)
  <1> USE NamesAssumption, TheSteps, Memberships
          DEF TypeInv, TypeOK, StoreTypes, StepInv, HasTask, At, TypeStep, Asked,
              Exists, store, sups, locks
  <1>1. CASE ResolveId(c)
    <2>1. StepInv(c) /\ TypeInv /\ ResolveId(c)
      BY <1>1
    <2>2. CallFrame(c) /\ StepInv(c)'
      BY ONLY SMTT(30), <2>1, ResolveIdCall, Memberships, TheSteps
         DEF StepInv, HasTask, Asked, At, ResolveId
    <2>3. StoreTypes'
      BY <1>1 DEF ResolveId
    <2>4. QED
      BY <2>2, <2>3
  <1>2. CASE SearchOne(c)
    <2>1. StepInv(c) /\ TypeInv /\ SearchOne(c)
      BY <1>2
    <2>2. CallFrame(c) /\ StepInv(c)'
      BY ONLY ZenonT(60), <2>1, SearchOneCall, Memberships, TheSteps
         DEF StepInv, HasTask, Asked, At, SearchOne
    <2>3. StoreTypes'
      BY ZenonT(60), <1>2 DEF SearchOne
    <2>4. QED
      BY <2>2, <2>3
  <1>3. CASE Resolved(c)
    <2>1. CASE call[c].hits = {}
      BY <1>3, <2>1, GotoCall, EndsCall, HeldType DEF Resolved
    <2>2. ASSUME NEW i \in call[c].hits,
                 call' = [call EXCEPT ![c].id = i, ![c].hits = {}, ![c].at = "lock"],
                 UNCHANGED locks
          PROVE  TypeStep(c)
      <3>1. StepInv(c) /\ call[c].at = "search"
        BY ZenonT(60), <1>3 DEF Resolved
      <3>2. /\ CallFrame(c) /\ i \in IDs
            /\ call'[c].op = call[c].op /\ call'[c].sel = call[c].sel
            /\ call'[c].ref = call[c].ref /\ call'[c].name = call[c].name
            /\ call'[c].refs = call[c].refs /\ call'[c].todo = call[c].todo
            /\ call'[c].at = "lock" /\ call'[c].id = i
        BY ZenonT(60), <2>2, FoundCall
      <3>3. StepInv(c)'
        BY ONLY <3>1, <3>2 DEF StepInv, HasTask
      <3>4. StoreTypes'
        BY ZenonT(60), <1>3, <2>2 DEF Resolved
      <3>5. QED
        BY <3>2, <3>3, <3>4
    <2>3. CASE Ends(c, "conflict")
      <3>1. CallFrame(c) /\ StepInv(c)'
        BY <2>3, EndsCall
      <3>2. taskLock' \in [IDs -> Clients \cup {None}] /\ storeLock' \in Clients \cup {None}
        BY <2>3, EndsCall, HeldType
      <3>3. StoreTypes'
        BY ZenonT(60), <1>3, <3>2 DEF Resolved
      <3>4. QED
        BY <3>1, <3>3
    <2>4. QED
      BY ZenonT(60), <1>3, <2>1, <2>2, <2>3 DEF Resolved
  <1>4. CASE TakenOne(c)
    <2>1. CASE Goto(c, "resolve") /\ UNCHANGED locks
      BY <1>4, <2>1, GotoCall DEF TakenOne
    <2>2. CASE Ends(c, "conflict")
      BY <1>4, <2>2, EndsCall, HeldType DEF TakenOne
    <2>3. ASSUME NEW i \in IDs, call' = [call EXCEPT ![c].scan = @ \ {i}], UNCHANGED locks
          PROVE  TypeStep(c)
      <3>1. StepInv(c) /\ TypeInv /\ TakenOne(c)
        BY <1>4
      <3>2. CallFrame(c) /\ StepInv(c)'
        BY ONLY ZenonT(60), <2>3, <3>1, PassesCall, Memberships, TheSteps
           DEF StepInv, HasTask, Asked, At, TakenOne
      <3>3. StoreTypes'
        BY <1>4, <2>3 DEF TakenOne
      <3>4. QED
        BY <3>2, <3>3
    <2>4. QED
      BY <1>4, <2>1, <2>2, <2>3 DEF TakenOne
  <1>5. CASE NotTaken(c)
    BY <1>5, GotoCall DEF NotTaken
  <1>6. QED
    BY <1>1, <1>2, <1>3, <1>4, <1>5

LEMMA MetaTypes ==
    ASSUME TypeInv, NEW c \in Clients, UNCHANGED mix,
           ReadGone(c) \/ ReadMeta(c) \/ Reread(c)
    PROVE  TypeStep(c)
  <1> USE NamesAssumption, TheSteps, Memberships
          DEF TypeInv, TypeOK, StoreTypes, StepInv, HasTask, At, TypeStep, Asked,
              Exists, store, sups, locks
  <1>1. CASE ReadGone(c)
    BY <1>1, GotoCall, EndsCall, HeldType DEF ReadGone
  <1>2. CASE ReadMeta(c)
    BY SMTT(60), <1>2, GotoCall, ReadsCall, EndsCall, HeldType DEF ReadMeta
  <1>3. CASE Reread(c)
    <2>1. CASE Exists(call[c].id)
      <3>1. StepInv(c) /\ TypeInv /\ Reread(c)
        BY <1>3
      <3>2. CallFrame(c) /\ StepInv(c)'
        BY ONLY ZenonT(60), <2>1, <3>1, RereadCall, Memberships, TheSteps
           DEF StepInv, HasTask, Asked, At, Reread
      <3>3. StoreTypes'
        BY <1>3, <2>1 DEF Reread
      <3>4. QED
        BY <3>2, <3>3
    <2>2. CASE ~Exists(call[c].id)
      BY <1>3, <2>2, EndsCall, HeldType DEF Reread
    <2>3. QED
      BY <2>1, <2>2
  <1>4. QED
    BY <1>1, <1>2, <1>3

LEMMA WriteTypes ==
    ASSUME TypeInv, NEW c \in Clients, UNCHANGED mix,
           Write(c) \/ WriteFails(c) \/ Create(c) \/ LockOwn(c) \/ OwnLockTimesOut(c) \/ Launch(c)
    PROVE  TypeStep(c)
  <1> USE NamesAssumption, TheSteps, Memberships
          DEF TypeInv, TypeOK, StoreTypes, StepInv, HasTask, At, TypeStep, Asked,
              Exists, store, sups, locks
  <1>1. CASE Write(c)
    <2>1. Ends(c, "changed") /\ call[c].id \in IDs /\ call[c].buf \in TypeMeta
      BY <1>1 DEF Write
    <2>2. NewMeta(c) \in TypeMeta
      BY <1>1, <2>1 DEF Write, NewMeta, TypeMeta, Calls
    <2>3. CallFrame(c) /\ StepInv(c)'
      BY <2>1, EndsCall
    <2>4. taskLock' \in [IDs -> Clients \cup {None}] /\ storeLock' \in Clients \cup {None}
      BY <2>1, EndsCall, HeldType
    <2>5. StoreTypes'
      BY ZenonT(60), <1>1, <2>2, <2>4 DEF Write
    <2>6. QED
      BY <2>3, <2>5
  <1>2. CASE WriteFails(c)
    BY <1>2, EndsCall, HeldType DEF WriteFails
  <1>3. CASE Create(c)
    <2>1. PICK i \in IDs \ used :
             /\ call'[c].id = i
             /\ used' = used \cup {i} /\ dirs' = dirs \cup {i}
             /\ meta' = [meta EXCEPT ![i] = [name |-> call[c].name,
                                              labels |-> call[c].labels]]
      BY <1>3, CreateCall
    <2>2. /\ CallFrame(c)
          /\ call'[c].op = call[c].op /\ call'[c].sel = call[c].sel
          /\ call'[c].ref = call[c].ref /\ call'[c].name = call[c].name
          /\ call'[c].todo = call[c].todo /\ call'[c].at = "own"
      BY <1>3, CreateCall
    <2>3. /\ call[c].op = "run" /\ call[c].name \in TaskNames /\ call[c].ref = call[c].name
          /\ call[c].sel = "refs" => call[c].todo = {}
          /\ i \in IDs
      BY ZenonT(60), <1>3 DEF Create
    <2>4. StepInv(c)'
      BY ONLY <2>1, <2>2, <2>3, Memberships DEF StepInv, HasTask
    <2>5. [name |-> call[c].name, labels |-> call[c].labels] \in TypeMeta
      BY <2>3 DEF Calls, TypeMeta
    <2>6. meta' \in [IDs -> TypeMeta \cup {None}]
      BY <2>1, <2>5
    <2>7. StoreTypes'
      <3>1. dirs' \subseteq used' /\ used' \subseteq IDs
        BY <2>1
      <3>2. \A k \in IDs : Exists(k)' => k \in dirs'
        BY <2>1
      <3>3. QED
        BY ZenonT(60), <1>3, <2>6, <3>1, <3>2 DEF Create
    <2>8. QED
      BY <2>2, <2>4, <2>7
  <1>4. CASE LockOwn(c)
    BY <1>4, GotoCall DEF LockOwn
  <1>5. CASE OwnLockTimesOut(c)
    BY <1>5, GotoCall DEF OwnLockTimesOut
  <1>6. CASE Launch(c)
    BY <1>6, GotoCall, EndsCall, HeldType DEF Launch, Comes
  <1>7. QED
    BY <1>1, <1>2, <1>3, <1>4, <1>5, <1>6

LEMMA ActTypes ==
    ASSUME TypeInv, NEW c \in Clients, UNCHANGED mix,
           Act(c) \/ Unlink(c) \/ Rmdir(c) \/ Discard(c) \/ DiscardDir(c)
    PROVE  TypeStep(c)
  <1> USE NamesAssumption, TheSteps, Memberships
          DEF TypeInv, TypeOK, StoreTypes, StepInv, HasTask, At, TypeStep, Asked,
              Exists, store, sups, locks
  <1>1. CASE Act(c)
    BY SMTT(30), <1>1, GotoCall, EndsCall, HeldType DEF Act, StopsSupervisor, Comes
  <1>2. CASE Unlink(c)
    BY <1>2, GotoCall DEF Unlink, Unlinks
  <1>3. CASE Rmdir(c)
    BY <1>3, GotoCall, EndsCall, HeldType DEF Rmdir, RemovesDir
  <1>4. CASE Discard(c)
    BY <1>4, GotoCall DEF Discard, Unlinks
  <1>5. CASE DiscardDir(c)
    BY SMTT(30), <1>5, EndsCall, HeldType DEF DiscardDir, RemovesDir
  <1>6. QED
    BY <1>1, <1>2, <1>3, <1>4, <1>5

LEMMA BatchTypes ==
    ASSUME TypeInv, NEW c \in Clients, UNCHANGED mix,
           Snapshot(c) \/ FilterOne(c) \/ Filtered(c) \/ NextItem(c)
    PROVE  TypeStep(c)
  <1> USE NamesAssumption, TheSteps, Memberships
          DEF TypeInv, TypeOK, StoreTypes, StepInv, HasTask, At, TypeStep, Asked,
              Exists, store, sups, locks
  <1>1. CASE Snapshot(c)
    <2>1. StepInv(c) /\ TypeInv /\ Snapshot(c)
      BY <1>1
    <2>2. CallFrame(c) /\ StepInv(c)'
      BY ONLY SMTT(30), <2>1, SnapshotCall, Memberships, TheSteps
         DEF StepInv, HasTask, Asked, At, Snapshot
    <2>3. StoreTypes'
      BY <1>1 DEF Snapshot
    <2>4. QED
      BY <2>2, <2>3
  <1>2. CASE FilterOne(c)
    <2>1. StepInv(c) /\ TypeInv /\ FilterOne(c)
      BY <1>2
    <2>2. CallFrame(c) /\ StepInv(c)'
      BY ONLY ZenonT(60), <2>1, FilterOneCall, Memberships, TheSteps
         DEF StepInv, HasTask, Asked, At, FilterOne
    <2>3. StoreTypes'
      BY ZenonT(60), <1>2 DEF FilterOne
    <2>4. QED
      BY <2>2, <2>3
  <1>3. CASE Filtered(c)
    BY <1>3, GotoCall DEF Filtered
  <1>4. CASE NextItem(c)
    BY ZenonT(60), <1>4, NextItemCall DEF NextItem
  <1>5. QED
    BY <1>1, <1>2, <1>3, <1>4

LEMMA SupervisorsTypes ==
    ASSUME TypeInv, Supervisors
    PROVE  StoreTypes' /\ UNCHANGED <<call, locks>>
  <1> PICK i \in IDs : SupervisorEnds(i) \/ AutoRemoves(i) \/ AutoRemovesDir(i)
    BY DEF Supervisors
  <1> USE NamesAssumption
     DEF TypeInv, TypeOK, StoreTypes, Exists, store, sups, locks
  <1>1. UNCHANGED mix
    BY DEF Supervisors
  <1>2. CASE SupervisorEnds(i)
    BY <1>1, <1>2 DEF SupervisorEnds
  <1>3. CASE AutoRemoves(i)
    BY <1>1, <1>3 DEF AutoRemoves, Unlinks
  <1>4. CASE AutoRemovesDir(i)
    BY <1>1, <1>4 DEF AutoRemovesDir, RemovesDir
  <1>5. QED
    BY <1>2, <1>3, <1>4

(* A step is one request's, or the supervisors', or stutters.              *)
Step(c) == Ask(c) \/ Works(c) \/ GivesUp(c)

LEMMA StepTypes ==
    ASSUME TypeInv, NEW c \in Clients, Step(c)
    PROVE  TypeStep(c)
  <1>1. CASE Ask(c)
    BY <1>1, AskTypes
  <1>2. CASE GivesUp(c)
    BY <1>2, LockTypes, WriteTypes DEF GivesUp
  <1>3. CASE Works(c)
    BY <1>3, LockTypes, ReadTypes, MetaTypes, WriteTypes, ActTypes, BatchTypes
       DEF Works
  <1>4. QED
    BY <1>1, <1>2, <1>3 DEF Step

LEMMA TypeStepTypes ==
    ASSUME TypeInv, NEW c \in Clients, TypeStep(c)
    PROVE  TypeInv'
  <1>1. \A d \in Clients : StepInv(d)'
    BY DEF TypeStep, CallFrame, TypeInv, StepInv
  <1>2. QED
    BY <1>1 DEF TypeStep, CallFrame, StoreTypes, TypeInv, TypeOK

LEMMA TypeNext == TypeInv /\ [Next]_vars => TypeInv'
  <1> SUFFICES ASSUME TypeInv, [Next]_vars PROVE TypeInv'
    OBVIOUS
  <1>1. ASSUME NEW c \in Clients, Step(c) PROVE TypeInv'
    BY <1>1, StepTypes, TypeStepTypes
  <1>2. CASE Supervisors
    <2>1. StoreTypes' /\ UNCHANGED call
      BY <1>2, SupervisorsTypes
    <2>2. \A d \in Clients : StepInv(d)'
      BY <2>1 DEF TypeInv, StepInv
    <2>3. QED
      BY <2>1, <2>2 DEF StoreTypes, TypeInv, TypeOK
  <1>3. CASE UNCHANGED vars
    BY <1>3 DEF vars, store, sups, locks, TypeInv, TypeOK, StepInv, Exists
  <1>4. QED
    BY <1>1, <1>2, <1>3 DEF Next, Step

(* Every store, every lock and every request is what its type says, at     *)
(* every step of it.                                                       *)
THEOREM TypeCorrect == Spec => []TypeOK
  <1>1. TypeInv => TypeOK
    BY DEF TypeInv
  <1>2. QED
    BY TypeInit, TypeNext, <1>1, PTL DEF Spec

-----------------------------------------------------------------------------
(* Locks *)

(* The steps at which a request works on a task under its lock. *)
Holding(q) ==
    \/ q.at \in {"read", "act", "reread", "write", "unlink", "rmdir", "launch"}
    \/ q.at = "taken" /\ q.op = "rename"

(* What a request has locked at each of its steps: no task but its own,    *)
(* and the store from the moment it has it to the launch or the reply.     *)
LockInv(c) ==
    LET q == call[c] IN
    /\ \A i \in IDs : taskLock[i] = c =>
          i = q.id /\ (Holding(q) \/ q.at \in {"discard", "discardDir"})
    /\ Holding(q) => taskLock[q.id] = c
    /\ storeLock = c => q.op \in {"run", "rename"} /\ q.at \notin {"idle", "store", "replied"}
    /\ q.op \in {"run", "rename"}
          /\ q.at \notin {"store", "launch", "discard", "discardDir", "replied"}
       => storeLock = c

(* A request takes and gives back locks of its own only. *)
LockFrame(c) ==
    \A d \in Clients \ {c} :
        /\ \A i \in IDs : taskLock'[i] = d <=> taskLock[i] = d
        /\ storeLock' = d <=> storeLock = d

LockStep(c) == LockFrame(c) /\ LockInv(c)'

LEMMA EndsLocks ==
    ASSUME TypeInv, NEW c \in Clients, NEW r \in Results, Ends(c, r)
    PROVE  LockStep(c)
  <1>1. /\ call'[c].at \in {"next", "replied"}
        /\ call'[c].at = "next" => call[c].op \in BatchOps
        /\ call'[c].op = call[c].op
        /\ taskLock' = Held(c)
        /\ storeLock' = IF storeLock = c THEN None ELSE storeLock
    BY EndsCall DEF TypeInv, TypeOK, StepInv
  <1>2. None \notin Clients
    BY NamesAssumption
  <1>3. \A i \in IDs : taskLock'[i] = IF taskLock[i] = c THEN None ELSE taskLock[i]
    BY <1>1 DEF Held
  <1>4. LockFrame(c)
    BY <1>1, <1>2, <1>3 DEF LockFrame
  <1>5. LockInv(c)'
    BY <1>1, <1>2, <1>3, Memberships DEF LockInv, Holding
  <1>6. QED
    BY <1>4, <1>5 DEF LockStep

LEMMA AskLocks ==
    ASSUME TypeInv, NEW c \in Clients, LockInv(c), Ask(c)
    PROVE  LockStep(c)
  <1>1. PICK q \in Requests[mix][c] : call' = [call EXCEPT ![c] = q]
    BY DEF Ask
  <1>2. IsRequest(q)
    BY RequestsAssumption DEF TypeInv, TypeOK
  <1>3. Begins(q) /\ call'[c] = q
    BY <1>1, <1>2, RequestType DEF TypeInv, TypeOK
  <1>4. QED
    BY <1>3 DEF Ask, At, locks, LockStep, LockFrame, LockInv, Holding, Begins

LEMMA LockLocks ==
    ASSUME TypeInv, NEW c \in Clients, LockInv(c),
           LockStore(c) \/ GivesUpStore(c) \/ LockTask(c) \/ GivesUpTask(c)
    PROVE  LockStep(c)
  <1> USE NamesAssumption, TheSteps
     DEF TypeInv, TypeOK, StepInv, HasTask, At, Asked, LockStep,
          LockFrame, LockInv, Holding
  <1>1. CASE LockStore(c)
    BY <1>1, GotoCall, ReadsCall DEF LockStore
  <1>2. CASE GivesUpStore(c)
    BY <1>2, EndsLocks DEF GivesUpStore
  <1>3. CASE LockTask(c)
    BY <1>3, GotoCall DEF LockTask
  <1>4. CASE GivesUpTask(c)
    BY <1>4, EndsLocks DEF GivesUpTask
  <1>5. QED
    BY <1>1, <1>2, <1>3, <1>4

LEMMA ReadLocks ==
    ASSUME TypeInv, NEW c \in Clients, LockInv(c),
           ResolveId(c) \/ SearchOne(c) \/ Resolved(c) \/ TakenOne(c) \/ NotTaken(c)
    PROVE  LockStep(c)
  <1> USE NamesAssumption, TheSteps, Memberships
          DEF TypeInv, TypeOK, StepInv, HasTask, At, Asked,
              LockStep, LockFrame, LockInv, Holding, locks
  <1>1. CASE ResolveId(c)
    BY SMTT(60), <1>1, ResolveIdCall DEF ResolveId
  <1>2. CASE SearchOne(c)
    BY ZenonT(60), <1>2, SearchOneCall DEF SearchOne
  <1>3. CASE Resolved(c)
    <2>1. CASE call[c].hits = {}
      BY <1>3, <2>1, GotoCall, EndsLocks DEF Resolved
    <2>2. ASSUME NEW i \in call[c].hits,
                 call' = [call EXCEPT ![c].id = i, ![c].hits = {}, ![c].at = "lock"],
                 UNCHANGED locks
          PROVE  LockStep(c)
      <3>1. LockInv(c) /\ call[c].at = "search"
        BY ZenonT(60), <1>3 DEF Resolved
      <3>2. call'[c].op = call[c].op /\ call'[c].at = "lock"
        BY ZenonT(60), <2>2, FoundCall
      <3>3. QED
        BY ONLY <2>2, <3>1, <3>2 DEF LockStep, LockFrame, LockInv, Holding, locks
    <2>3. CASE Ends(c, "conflict")
      BY <2>3, EndsLocks
    <2>4. QED
      BY ZenonT(60), <1>3, <2>1, <2>2, <2>3 DEF Resolved
  <1>4. CASE TakenOne(c)
    BY <1>4, GotoCall, EndsLocks, PassesCall DEF TakenOne
  <1>5. CASE NotTaken(c)
    BY <1>5, GotoCall DEF NotTaken
  <1>6. QED
    BY <1>1, <1>2, <1>3, <1>4, <1>5

LEMMA MetaLocks ==
    ASSUME TypeInv, NEW c \in Clients, LockInv(c),
           ReadGone(c) \/ ReadMeta(c) \/ Reread(c)
    PROVE  LockStep(c)
  <1> USE NamesAssumption, TheSteps, Memberships
          DEF TypeInv, TypeOK, StepInv, HasTask, At, Asked,
              LockStep, LockFrame, LockInv, Holding, locks
  <1>1. CASE ReadGone(c)
    BY <1>1, GotoCall, EndsLocks DEF ReadGone, Held
  <1>2. CASE ReadMeta(c)
    BY SMTT(60), <1>2, GotoCall, ReadsCall, EndsLocks DEF ReadMeta, Held
  <1>3. CASE Reread(c)
    <2>1. CASE Exists(call[c].id)
      <3>1. LockInv(c) /\ call[c].at = "reread"
        BY <1>3 DEF Reread
      <3>2. Asked(c) /\ call'[c].at = "write" /\ UNCHANGED locks
        BY <1>3, <2>1, RereadCall
      <3>3. QED
        BY ONLY <3>1, <3>2 DEF LockStep, LockFrame, LockInv, Holding, locks, Asked
    <2>2. CASE ~Exists(call[c].id)
      BY <1>3, <2>2, EndsLocks DEF Reread
    <2>3. QED
      BY <2>1, <2>2
  <1>4. QED
    BY <1>1, <1>2, <1>3

LEMMA WriteLocks ==
    ASSUME TypeInv, NEW c \in Clients, LockInv(c),
           Write(c) \/ WriteFails(c) \/ Create(c) \/ LockOwn(c) \/ OwnLockTimesOut(c) \/ Launch(c)
    PROVE  LockStep(c)
  <1> USE NamesAssumption, TheSteps, Memberships
          DEF TypeInv, TypeOK, StepInv, HasTask, At, Asked,
              LockStep, LockFrame, LockInv, Holding, locks
  <1>1. CASE Write(c)
    BY <1>1, EndsLocks DEF Write
  <1>2. CASE WriteFails(c)
    BY <1>2, EndsLocks DEF WriteFails
  <1>3. CASE Create(c)
    BY ZenonT(60), <1>3, CreateCall DEF Create
  <1>4. CASE LockOwn(c)
    BY <1>4, GotoCall DEF LockOwn
  <1>5. CASE OwnLockTimesOut(c)
    BY <1>5, GotoCall DEF OwnLockTimesOut
  <1>6. CASE Launch(c)
    BY <1>6, GotoCall, EndsLocks DEF Launch
  <1>7. QED
    BY <1>1, <1>2, <1>3, <1>4, <1>5, <1>6

LEMMA ActLocks ==
    ASSUME TypeInv, NEW c \in Clients, LockInv(c),
           Act(c) \/ Unlink(c) \/ Rmdir(c) \/ Discard(c) \/ DiscardDir(c)
    PROVE  LockStep(c)
  <1> USE NamesAssumption, TheSteps, Memberships
          DEF TypeInv, TypeOK, StepInv, HasTask, At, Asked,
              LockStep, LockFrame, LockInv, Holding, locks
  <1>1. CASE Act(c)
    BY <1>1, GotoCall, EndsLocks DEF Act
  <1>2. CASE Unlink(c)
    BY <1>2, GotoCall DEF Unlink
  <1>3. CASE Rmdir(c)
    BY <1>3, GotoCall, EndsLocks DEF Rmdir, Held
  <1>4. CASE Discard(c)
    BY <1>4, GotoCall DEF Discard
  <1>5. CASE DiscardDir(c)
    BY <1>5, EndsLocks DEF DiscardDir
  <1>6. QED
    BY <1>1, <1>2, <1>3, <1>4, <1>5

LEMMA BatchLocks ==
    ASSUME TypeInv, NEW c \in Clients, LockInv(c),
           Snapshot(c) \/ FilterOne(c) \/ Filtered(c) \/ NextItem(c)
    PROVE  LockStep(c)
  <1> USE NamesAssumption, TheSteps, Memberships
          DEF TypeInv, TypeOK, StepInv, HasTask, At, Asked,
              LockStep, LockFrame, LockInv, Holding, locks
  <1>1. CASE Snapshot(c)
    BY SMTT(60), <1>1, SnapshotCall DEF Snapshot
  <1>2. CASE FilterOne(c)
    BY ZenonT(60), <1>2, FilterOneCall DEF FilterOne
  <1>3. CASE Filtered(c)
    BY <1>3, GotoCall DEF Filtered
  <1>4. CASE NextItem(c)
    BY ZenonT(60), <1>4, NextItemCall DEF NextItem
  <1>5. QED
    BY <1>1, <1>2, <1>3, <1>4

LEMMA StepLocks ==
    ASSUME TypeInv, NEW c \in Clients, LockInv(c), Step(c)
    PROVE  LockStep(c)
  <1>1. CASE Ask(c)
    BY <1>1, AskLocks
  <1>2. CASE GivesUp(c)
    BY <1>2, LockLocks, WriteLocks DEF GivesUp
  <1>3. CASE Works(c)
    BY <1>3, LockLocks, ReadLocks, MetaLocks, WriteLocks, ActLocks, BatchLocks
       DEF Works
  <1>4. QED
    BY <1>1, <1>2, <1>3 DEF Step

AllLocks == \A c \in Clients : LockInv(c)

LEMMA LockInit == Init => AllLocks
  BY ZenonT(60), NamesAssumption, Memberships DEF Init, AllLocks, LockInv, Holding

LEMMA LockNext == TypeInv /\ AllLocks /\ [Next]_vars => AllLocks'
  <1> SUFFICES ASSUME TypeInv, AllLocks, [Next]_vars PROVE AllLocks'
    OBVIOUS
  <1>1. ASSUME NEW c \in Clients, Step(c) PROVE AllLocks'
    <2>1. LockStep(c) /\ TypeStep(c)
      BY <1>1, StepLocks, StepTypes DEF AllLocks
    <2>2. ASSUME NEW d \in Clients \ {c} PROVE LockInv(d)'
      <3>1. /\ call'[d] = call[d] /\ LockInv(d)
            /\ \A i \in IDs : taskLock'[i] = d <=> taskLock[i] = d
            /\ storeLock' = d <=> storeLock = d
        BY <2>1 DEF TypeStep, CallFrame, LockStep, LockFrame, AllLocks
      <3>2. Holding(call[d]) => call[d].id \in IDs
        BY DEF TypeInv, StepInv, HasTask, Holding
      <3>3. QED
        BY ONLY <3>1, <3>2 DEF LockInv, Holding
    <2>3. QED
      BY <2>1, <2>2 DEF AllLocks, LockStep
  <1>2. CASE Supervisors
    BY <1>2, SupervisorsTypes DEF AllLocks, LockInv, Holding, locks
  <1>3. CASE UNCHANGED vars
    BY <1>3 DEF vars, locks, AllLocks, LockInv, Holding
  <1>4. QED
    BY <1>1, <1>2, <1>3 DEF Next, Step

(* A request that waits for a task's lock waits for one that works on the  *)
(* task and waits for nobody; one that waits for the store-wide lock waits *)
(* for such a request, or for one that waits for a task's lock.            *)
LEMMA LocksNoCircle == TypeInv /\ AllLocks => NoCircularWait
  <1> SUFFICES ASSUME TypeInv, AllLocks, NEW S \in (SUBSET Clients) \ {{}},
                      \A c \in S : WaitsFor(c) \in S
               PROVE  FALSE
    BY DEF NoCircularWait
  <1>1. None \notin S
    BY NamesAssumption
  <1>2. \A c \in S : call[c].at \in {"store", "lock", "own"}
    BY <1>1 DEF WaitsFor, At
  <1>3. ASSUME NEW c \in S, call[c].at \in {"lock", "own"}
        PROVE  FALSE
    <2>1. call[c].id \in IDs
      BY <1>3 DEF TypeInv, StepInv, HasTask
    <2>2. PICK d \in S : taskLock[call[c].id] = d
      BY <1>3 DEF WaitsFor, At
    <2>3. call[d].at \in {"read", "act", "reread", "write", "unlink", "rmdir", "launch",
                           "taken", "discard", "discardDir"}
      BY <2>1, <2>2 DEF AllLocks, LockInv, Holding
    <2>4. QED
      BY <1>2, <2>3
  <1>4. PICK c \in S : call[c].at = "store"
    BY <1>2, <1>3
  <1>5. PICK d \in S : storeLock = d
    BY <1>4 DEF WaitsFor, At
  <1>6. call[d].at # "store"
    BY <1>5 DEF AllLocks, LockInv
  <1>7. QED
    BY <1>2, <1>3, <1>6

(* Requests never wait for each other in a circle, in whatever order they  *)
(* take the store-wide lock and the locks of tasks, however many they are  *)
(* and however long their batches.                                         *)
THEOREM NoCircle == Spec => []NoCircularWait
  <1>1. Init => TypeInv /\ AllLocks
    BY TypeInit, LockInit
  <1>2. TypeInv /\ AllLocks /\ [Next]_vars => (TypeInv /\ AllLocks)'
    BY TypeNext, LockNext
  <1>3. QED
    BY <1>1, <1>2, LocksNoCircle, PTL DEF Spec

-----------------------------------------------------------------------------
(* Names *)

(* Only tasks of S have the name n, revived ones apart. *)
OwnedIn(n, S) ==
    \A i \in IDs \ revived : Exists(i) /\ meta[i].name = n => i \in S

(* What a request knows of the tasks of its name while it holds the        *)
(* store-wide lock: those it has yet to read, those it has found, and at   *)
(* last the one it replaces, or none.  And what it is about to write back  *)
(* is still what the file says.                                            *)
NameInv(c) ==
    LET q == call[c] IN
    /\ q.at = "taken" => OwnedIn(q.name, q.scan)
    /\ q.op = "run" /\ q.at = "search" => OwnedIn(q.name, q.scan \cup q.hits)
    /\ q.op = "run" /\ q.at \in {"lock", "read", "act", "unlink", "rmdir"}
          => OwnedIn(q.name, {q.id})
    /\ q.at = "create" => OwnedIn(q.name, {})
    /\ q.op = "rename" /\ q.at \in {"reread", "write"} => OwnedIn(q.name, {})
    /\ q.at = "write" => q.id \in used /\ (Exists(q.id) => meta[q.id] = q.buf)

(* Most steps write no meta.json: they leave the files alone or remove one. *)
Shrinks ==
    /\ UNCHANGED meta \/ \E k \in IDs : meta' = [meta EXCEPT ![k] = None]
    /\ \A i \in IDs : meta'[i] \in {meta[i], None}
    /\ used' = used /\ revived' = revived

LEMMA ShrinksOwned ==
    ASSUME Shrinks, NEW n, NEW S, OwnedIn(n, S)
    PROVE  OwnedIn(n, S)'
  BY DEF Shrinks, OwnedIn, Exists

LEMMA ShrinksNames ==
    ASSUME TypeInv, Shrinks, NEW d \in Clients, NameInv(d), call'[d] = call[d]
    PROVE  NameInv(d)'
  <1>1. call[d].at = "write" => call[d].id \in IDs
    BY DEF TypeInv, StepInv, HasTask
  <1>2. QED
    BY <1>1 DEF Shrinks, NameInv, OwnedIn, Exists

LEMMA ShrinksUnique ==
    ASSUME Shrinks, NamesUnique
    PROVE  NamesUnique'
  BY DEF Shrinks, NamesUnique, Exists

LEMMA EndsNames ==
    ASSUME TypeInv, NEW c \in Clients, NEW r \in Results, Ends(c, r)
    PROVE  NameInv(c)'
  <1>1. call'[c].at \in {"next", "replied"}
    BY EndsCall DEF TypeInv, TypeOK, StepInv
  <1>2. QED
    BY <1>1 DEF NameInv

LEMMA AskNames ==
    ASSUME TypeInv, NEW c \in Clients, Ask(c)
    PROVE  NameInv(c)' /\ Shrinks
  <1>1. PICK q \in Requests[mix][c] : call' = [call EXCEPT ![c] = q]
    BY DEF Ask
  <1>2. IsRequest(q)
    BY RequestsAssumption DEF TypeInv, TypeOK
  <1>3. Begins(q) /\ call'[c] = q
    BY <1>1, <1>2, RequestType DEF TypeInv, TypeOK
  <1>4. QED
    BY <1>3 DEF Ask, store, Shrinks, NameInv, Begins

LEMMA LockNames ==
    ASSUME TypeInv, NEW c \in Clients, NameInv(c),
           LockStore(c) \/ GivesUpStore(c) \/ LockTask(c) \/ GivesUpTask(c)
    PROVE  NameInv(c)' /\ Shrinks
  <1> USE NamesAssumption, TheSteps
         
             DEF TypeInv, TypeOK, StepInv, HasTask, At, Asked, NameInv, OwnedIn, Shrinks, Exists, store
  <1>1. CASE LockStore(c)
    BY <1>1, GotoCall, ReadsCall DEF LockStore
  <1>2. CASE GivesUpStore(c)
    BY <1>2, EndsNames DEF GivesUpStore
  <1>3. CASE LockTask(c)
    BY <1>3, GotoCall DEF LockTask
  <1>4. CASE GivesUpTask(c)
    BY <1>4, EndsNames DEF GivesUpTask
  <1>5. QED
    BY <1>1, <1>2, <1>3, <1>4

LEMMA ReadNames ==
    ASSUME TypeInv, NEW c \in Clients, NameInv(c),
           ResolveId(c) \/ SearchOne(c) \/ Resolved(c) \/ TakenOne(c) \/ NotTaken(c)
    PROVE  NameInv(c)' /\ Shrinks
  <1> USE NamesAssumption, TheSteps
         
             DEF TypeInv, TypeOK, StepInv, HasTask, At, Asked, NameInv, OwnedIn, Shrinks, Exists, store
  <1>1. CASE ResolveId(c)
    BY SMTT(30), <1>1, ResolveIdCall DEF ResolveId
  <1>2. CASE SearchOne(c)
    <2>1. /\ call[c].at = "search" /\ UNCHANGED store /\ NameInv(c)
          /\ call[c].op = "run" => call[c].ref = call[c].name
      BY ZenonT(60), <1>2 DEF SearchOne
    <2>2. TypeInv /\ SearchOne(c)
      BY <1>2
    <2>3. Asked(c) /\ call'[c].at = "search"
      BY ONLY <2>1, <2>2, SearchOneCall
    <2>4. PICK i \in IDs :
             /\ call'[c].scan = call[c].scan \ {i}
             /\ call'[c].hits = IF Exists(i) /\ meta[i].name = call[c].ref
                                THEN call[c].hits \cup {i} ELSE call[c].hits
      BY ONLY <2>2, SearchOneCall
    <2>5. QED
      BY ONLY <2>1, <2>3, <2>4 DEF NameInv, OwnedIn, Shrinks, Exists, Asked, store
  <1>3. CASE Resolved(c)
    <2>1. /\ call[c].at = "search" /\ call[c].scan = {} /\ UNCHANGED store
          /\ NameInv(c)
      BY ZenonT(60), <1>3 DEF Resolved
    <2>2. CASE call[c].hits = {}
      BY <1>3, <2>1, <2>2, GotoCall, EndsNames DEF Resolved
    <2>3. ASSUME NEW i \in call[c].hits, call[c].hits = {i},
                 call' = [call EXCEPT ![c].id = i, ![c].hits = {}, ![c].at = "lock"]
          PROVE  NameInv(c)'
      <3>1. /\ call'[c].op = call[c].op /\ call'[c].name = call[c].name
            /\ call'[c].at = "lock" /\ call'[c].id = i
        BY ZenonT(60), <2>3, FoundCall
      <3>2. call[c].op = "run" => OwnedIn(call[c].name, {i})
        <4>1. call[c].scan \cup call[c].hits = {i}
          BY ONLY <2>1, <2>3
        <4>2. QED
          BY ONLY <2>1, <4>1 DEF NameInv
      <3>3. QED
        BY ONLY <2>1, <3>1, <3>2 DEF NameInv, OwnedIn, Exists, store
    <2>4. Ends(c, "conflict") => NameInv(c)'
      BY EndsNames
    <2>5. NameInv(c)'
      BY ZenonT(60), <1>3, <2>2, <2>3, <2>4 DEF Resolved
    <2>6. QED
      BY <2>1, <2>5
  <1>4. CASE TakenOne(c)
    BY <1>4, GotoCall, EndsNames, PassesCall DEF TakenOne
  <1>5. CASE NotTaken(c)
    BY <1>5, GotoCall DEF NotTaken
  <1>6. QED
    BY <1>1, <1>2, <1>3, <1>4, <1>5

LEMMA MetaNames ==
    ASSUME TypeInv, NEW c \in Clients, NameInv(c),
           ReadGone(c) \/ ReadMeta(c) \/ Reread(c)
    PROVE  NameInv(c)' /\ Shrinks
  <1> USE NamesAssumption, TheSteps
         
             DEF TypeInv, TypeOK, StepInv, HasTask, At, Asked, NameInv, OwnedIn, Shrinks, Exists, store
  <1>1. CASE ReadGone(c)
    BY <1>1, GotoCall, EndsNames DEF ReadGone
  <1>2. CASE ReadMeta(c)
    <2>1. call[c].at = "read" /\ UNCHANGED store /\ NameInv(c) /\ TypeOK
      BY <1>2 DEF ReadMeta
    <2>2. CASE Goto(c, "create") /\ call[c].op = "run" /\ meta[call[c].id].name # call[c].name
      <3>1. Asked(c) /\ call'[c].at = "create"
        BY <2>2, GotoCall
      <3>2. QED
        BY ONLY <2>1, <2>2, <3>1 DEF NameInv, OwnedIn, Shrinks, Exists, Asked, store
    <2>3. CASE Goto(c, "act") \/ (Goto(c, "reread") /\ call[c].op = "set_labels")
      <3>1. Asked(c) /\ call'[c].at \in {"act", "reread"}
            /\ (call'[c].at = "reread" => call[c].op = "set_labels")
        BY <2>3, GotoCall
      <3>2. QED
        BY ONLY <2>1, <3>1 DEF NameInv, OwnedIn, Shrinks, Exists, Asked, store
    <2>4. CASE Reads(c, "taken")
      <3>1. Asked(c) /\ call'[c].at = "taken" /\ call'[c].scan = dirs
        BY <2>4, ReadsCall
      <3>2. \A i \in IDs : Exists(i) => i \in dirs
        BY ONLY <2>1 DEF TypeOK
      <3>3. QED
        BY ONLY <2>1, <3>1, <3>2 DEF NameInv, OwnedIn, Shrinks, Exists, Asked, store
    <2>5. CASE Ends(c, "no_op")
      BY <2>1, <2>5, EndsNames
    <2>6. \/ Goto(c, "create") /\ call[c].op = "run" /\ meta[call[c].id].name # call[c].name
          \/ Goto(c, "act") \/ (Goto(c, "reread") /\ call[c].op = "set_labels")
          \/ Reads(c, "taken") \/ Ends(c, "no_op")
      BY ONLY <1>2 DEF ReadMeta
    <2>7. QED
      BY <2>2, <2>3, <2>4, <2>5, <2>6
  <1>3. CASE Reread(c)
    <2>1. call[c].at = "reread" /\ UNCHANGED store /\ dirs \subseteq used /\ NameInv(c)
      BY <1>3 DEF Reread
    <2>2. CASE Exists(call[c].id)
      <3>1. /\ Asked(c) /\ call[c].id \in dirs
            /\ call'[c].at = "write" /\ call'[c].buf = meta[call[c].id]
        BY <1>3, <2>2, RereadCall
      <3>2. QED
        BY ONLY <2>1, <3>1 DEF NameInv, OwnedIn, Shrinks, Exists, Asked, store
    <2>3. CASE ~Exists(call[c].id)
      BY <1>3, <2>1, <2>3, EndsNames DEF Reread
    <2>4. QED
      BY <2>2, <2>3
  <1>4. QED
    BY <1>1, <1>2, <1>3

LEMMA LaunchNames ==
    ASSUME TypeInv, NEW c \in Clients, NameInv(c),
           WriteFails(c) \/ LockOwn(c) \/ OwnLockTimesOut(c) \/ Launch(c)
    PROVE  NameInv(c)' /\ Shrinks
  <1> USE NamesAssumption, TheSteps
         
             DEF TypeInv, TypeOK, StepInv, HasTask, At, Asked, NameInv, OwnedIn, Shrinks, Exists, store
  <1>1. CASE WriteFails(c)
    BY <1>1, EndsNames DEF WriteFails
  <1>2. CASE LockOwn(c)
    BY <1>2, GotoCall DEF LockOwn
  <1>3. CASE OwnLockTimesOut(c)
    BY <1>3, GotoCall DEF OwnLockTimesOut
  <1>4. CASE Launch(c)
    BY <1>4, GotoCall, EndsNames DEF Launch
  <1>5. QED
    BY <1>1, <1>2, <1>3, <1>4

LEMMA ActNames ==
    ASSUME TypeInv, NEW c \in Clients, NameInv(c),
           Act(c) \/ Unlink(c) \/ Rmdir(c) \/ Discard(c) \/ DiscardDir(c)
    PROVE  NameInv(c)' /\ Shrinks
  <1> USE NamesAssumption, TheSteps
         
             DEF TypeInv, TypeOK, StepInv, HasTask, At, Asked, NameInv, OwnedIn, Shrinks, Exists, store
  <1>1. CASE Act(c)
    <2>1. Shrinks
      BY <1>1 DEF Act, StopsSupervisor
    <2>2. CASE \E r \in Results : Ends(c, r)
      BY <2>1, <2>2, EndsNames
    <2>3. CASE Goto(c, "unlink")
      <3>1. Asked(c) /\ call'[c].at = "unlink" /\ call[c].at = "act"
        BY <1>1, <2>3, GotoCall DEF Act
      <3>2. NameInv(c)'
        BY ONLY <2>1, <3>1, NameInv(c) DEF NameInv, OwnedIn, Shrinks, Exists, Asked
      <3>3. QED
        BY <2>1, <3>2
    <2>4. \/ Goto(c, "unlink")
          \/ \E r \in {"changed", "no_op", "failed_precondition", "internal"} : Ends(c, r)
      BY ONLY <1>1 DEF Act
    <2>5. QED
      BY <2>2, <2>3, <2>4
  <1>2. CASE Unlink(c)
    <2>1. Shrinks
      BY ZenonT(60), <1>2 DEF Unlink, Unlinks
    <2>2. Asked(c) /\ call'[c].at = "rmdir" /\ call[c].at = "unlink"
      BY <1>2, GotoCall DEF Unlink
    <2>3. NameInv(c)'
      BY ONLY <2>1, <2>2, NameInv(c) DEF NameInv, OwnedIn, Shrinks, Exists, Asked
    <2>4. QED
      BY <2>1, <2>3
  <1>3. CASE Rmdir(c)
    <2>1. Shrinks /\ UNCHANGED meta
      BY <1>3 DEF Rmdir, RemovesDir
    <2>2. CASE \E r \in Results : Ends(c, r)
      BY <2>1, <2>2, EndsNames
    <2>3. CASE Goto(c, "create") /\ call[c].op = "run" /\ ~Exists(call[c].id)
      <3>1. Asked(c) /\ call'[c].at = "create" /\ call[c].at = "rmdir"
        BY <1>3, <2>3, GotoCall DEF Rmdir
      <3>2. NameInv(c)'
        BY ONLY <2>1, <2>3, <3>1, NameInv(c)
           DEF NameInv, OwnedIn, Shrinks, Exists, Asked
      <3>3. QED
        BY <2>1, <3>2
    <2>4. \/ Goto(c, "create") /\ call[c].op = "run" /\ ~Exists(call[c].id)
          \/ \E r \in {"changed", "internal"} : Ends(c, r)
      BY ONLY <1>3 DEF Rmdir
    <2>5. QED
      BY <2>2, <2>3, <2>4
  <1>4. CASE Discard(c)
    <2>1. Shrinks
      BY <1>4 DEF Discard, Unlinks
    <2>2. Asked(c) /\ call'[c].at = "discardDir" /\ call[c].at = "discard"
      BY <1>4, GotoCall DEF Discard
    <2>3. NameInv(c)'
      BY ONLY <2>1, <2>2, NameInv(c) DEF NameInv, OwnedIn, Shrinks, Exists, Asked
    <2>4. QED
      BY <2>1, <2>3
  <1>5. CASE DiscardDir(c)
    BY <1>5, EndsNames DEF DiscardDir, RemovesDir
  <1>6. QED
    BY <1>1, <1>2, <1>3, <1>4, <1>5

LEMMA BatchNames ==
    ASSUME TypeInv, NEW c \in Clients, NameInv(c),
           Snapshot(c) \/ FilterOne(c) \/ Filtered(c) \/ NextItem(c)
    PROVE  NameInv(c)' /\ Shrinks
  <1> USE NamesAssumption, TheSteps
         
             DEF TypeInv, TypeOK, StepInv, HasTask, At, Asked, NameInv, OwnedIn, Shrinks, Exists, store
  <1>1. CASE Snapshot(c)
    BY <1>1, SnapshotCall DEF Snapshot
  <1>2. CASE FilterOne(c)
    BY ZenonT(60), <1>2, FilterOneCall DEF FilterOne
  <1>3. CASE Filtered(c)
    BY <1>3, GotoCall DEF Filtered
  <1>4. CASE NextItem(c)
    BY ZenonT(60), <1>4, NextItemCall, Memberships DEF NextItem
  <1>5. QED
    BY <1>1, <1>2, <1>3, <1>4

LEMMA SupervisorsShrink == TypeInv /\ Supervisors => Shrinks
  <1> SUFFICES ASSUME TypeInv, Supervisors PROVE Shrinks
    OBVIOUS
  <1> PICK i \in IDs : SupervisorEnds(i) \/ AutoRemoves(i) \/ AutoRemovesDir(i)
    BY DEF Supervisors
  <1>1. QED
    BY DEF TypeInv, TypeOK, SupervisorEnds, AutoRemoves, AutoRemovesDir, Unlinks,
           RemovesDir, Shrinks, store

AllNames ==
    /\ \A c \in Clients : NameInv(c)
    /\ NamesUnique
    /\ revived \subseteq used

Inv == TypeInv /\ AllLocks /\ AllNames

(* Two requests are not both between the store-wide lock and the launch.   *)
InStore(q) ==
    /\ q.op \in {"run", "rename"}
    /\ q.at \notin {"store", "launch", "discard", "discardDir", "replied"}

LEMMA OneInStore ==
    ASSUME AllLocks, NEW c \in Clients, NEW d \in Clients,
           InStore(call[c]), InStore(call[d])
    PROVE  c = d
  BY DEF AllLocks, LockInv, InStore

(* Create gives the name to a task nobody has seen, while it is free.      *)
LEMMA CreateNames ==
    ASSUME Inv, NEW c \in Clients, Create(c)
    PROVE  AllNames'
  <1>1. PICK i \in IDs \ used :
           /\ used' = used \cup {i} /\ dirs' = dirs \cup {i}
           /\ meta' = [meta EXCEPT ![i] = [name |-> call[c].name,
                                            labels |-> call[c].labels]]
    BY CreateCall DEF Inv
  <1>2. /\ meta \in [IDs -> TypeMeta \cup {None}] /\ revived' = revived
        /\ revived \subseteq used /\ revived \subseteq IDs
        /\ CallFrame(c) /\ call'[c].at = "own"
        /\ call[c].op = "run" /\ call[c].at = "create"
    BY ZenonT(60), CreateCall
       DEF Inv, TypeInv, TypeOK, StepInv, AllNames, Create, At
  <1>3. OwnedIn(call[c].name, {}) /\ NamesUnique
    BY <1>2 DEF Inv, AllNames, NameInv
  <1>4. NamesUnique'
    BY ONLY <1>1, <1>2, <1>3 DEF NamesUnique, OwnedIn, Exists
  <1>5. NameInv(c)'
    BY <1>2 DEF NameInv
  <1>6. ASSUME NEW d \in Clients \ {c} PROVE NameInv(d)'
    <2>1. call'[d] = call[d] /\ NameInv(d)
      BY <1>2 DEF CallFrame, Inv, AllNames
    <2>2. ~InStore(call[d])
      BY <1>2, OneInStore DEF Inv, InStore
    <2>3. call[d].at = "write" => call[d].id \in IDs /\ call[d].id \in used
      BY <2>1 DEF NameInv, Inv, TypeInv, StepInv, HasTask
    <2>4. call[d].at = "taken" => call[d].op \in {"run", "rename"}
      BY DEF Inv, TypeInv, StepInv
    <2>5. call[d].at # "create"
      BY <2>2 DEF InStore, Inv, TypeInv, StepInv
    <2>6. QED
      BY ONLY <1>1, <1>2, <2>1, <2>2, <2>3, <2>4, <2>5 DEF NameInv, InStore, Exists
  <1>7. QED
    BY <1>1, <1>2, <1>4, <1>5, <1>6 DEF AllNames

(* Write puts back what it read, with one change, under the task's lock;   *)
(* a rename does so while the name is free.                                *)
LEMMA WriteNames ==
    ASSUME Inv, NEW c \in Clients, Write(c)
    PROVE  AllNames'
  <1> DEFINE i == call[c].id
  <1>1. /\ call[c].at = "write" /\ i \in IDs /\ i \in used /\ used' = used
        /\ call[c].op \in {"rename", "set_labels"}
        /\ meta' = [meta EXCEPT ![i] = NewMeta(c)]
        /\ revived' = IF Exists(i) THEN revived ELSE revived \cup {i}
        /\ Exists(i) => meta[i] = call[c].buf
        /\ call[c].op = "rename" => OwnedIn(call[c].name, {})
    BY DEF Write, At, Inv, TypeInv, StepInv, HasTask, AllNames, NameInv
  <1>2. /\ meta \in [IDs -> TypeMeta \cup {None}] /\ revived \subseteq used
        /\ call[c].buf \in TypeMeta
    BY <1>1 DEF Inv, TypeInv, TypeOK, StepInv, AllNames
  <1>3. CallFrame(c) /\ NameInv(c)'
    BY EndsCall, EndsNames, TheSteps DEF Write, Inv, TypeInv, TypeOK, StepInv
  <1>4. NewMeta(c).name = IF call[c].op = "rename" THEN call[c].name ELSE call[c].buf.name
    BY <1>1, <1>2 DEF NewMeta, TypeMeta
  <1> HIDE DEF i
  <1>5. NamesUnique'
    <2>1. NamesUnique
      BY DEF Inv, AllNames
    <2>2. QED
      BY ONLY <1>1, <1>2, <1>4, <2>1 DEF NamesUnique, OwnedIn, Exists
  <1>6. ASSUME NEW d \in Clients \ {c} PROVE NameInv(d)'
    <2>1. call'[d] = call[d] /\ NameInv(d)
      BY <1>3 DEF CallFrame, Inv, AllNames
    <2>2. call[c].op = "rename" => ~InStore(call[d])
      BY <1>1, OneInStore DEF Inv, InStore
    <2>3. call[d].at = "write" => call[d].id \in IDs /\ call[d].id # i
      BY <1>1 DEF i, Inv, AllLocks, LockInv, Holding, TypeInv, StepInv, HasTask
    <2>4. /\ call[d].at = "taken" => call[d].op \in {"run", "rename"}
          /\ call[d].at = "create" => call[d].op = "run"
      BY DEF Inv, TypeInv, StepInv
    <2>5. call[c].op = "rename" => NameInv(d)'
      BY ONLY <1>1, <1>2, <2>1, <2>2, <2>3, <2>4 DEF NameInv, InStore, Exists
    <2>6. ASSUME NEW n, NEW S, OwnedIn(n, S), call[c].op # "rename" PROVE OwnedIn(n, S)'
      BY ONLY <1>1, <1>2, <1>4, <2>6 DEF OwnedIn, Exists
    <2>7. call[c].op # "rename" => NameInv(d)'
      BY ONLY <1>1, <1>2, <1>4, <2>1, <2>3, <2>6 DEF NameInv, OwnedIn, Exists
    <2>8. QED
      BY <2>5, <2>7
  <1>7. revived' \subseteq used'
    BY <1>1, <1>2
  <1>8. QED
    BY <1>3, <1>5, <1>6, <1>7 DEF AllNames

(* Every other step leaves meta.json files alone or removes them.          *)
LEMMA StepNames ==
    ASSUME Inv, NEW c \in Clients, Step(c), ~Create(c), ~Write(c)
    PROVE  NameInv(c)' /\ Shrinks
  <1>1. TypeInv /\ NameInv(c)
    BY DEF Inv, AllNames
  <1>2. CASE Ask(c)
    BY <1>1, <1>2, AskNames
  <1>3. CASE GivesUp(c)
    BY <1>1, <1>3, LockNames, LaunchNames DEF GivesUp
  <1>4. CASE Works(c)
    BY <1>1, <1>4, LockNames, ReadNames, MetaNames, LaunchNames, ActNames, BatchNames
       DEF Works
  <1>5. QED
    BY <1>2, <1>3, <1>4 DEF Step

LEMMA NamesInit == Init => AllNames
  BY Memberships DEF Init, AllNames, NameInv, NamesUnique, Exists

LEMMA NamesNext == Inv /\ [Next]_vars => AllNames'
  <1> SUFFICES ASSUME Inv, [Next]_vars PROVE AllNames'
    OBVIOUS
  <1>1. ASSUME NEW c \in Clients, Step(c) PROVE AllNames'
    <2>1. CASE Create(c)
      BY <2>1, CreateNames
    <2>2. CASE Write(c)
      BY <2>2, WriteNames
    <2>3. CASE ~Create(c) /\ ~Write(c)
      <3>1. NameInv(c)' /\ Shrinks
        BY <1>1, <2>3, StepNames
      <3>2. \A d \in Clients \ {c} : call'[d] = call[d]
        BY <1>1, StepTypes DEF Inv, TypeStep, CallFrame
      <3>3. \A d \in Clients \ {c} : NameInv(d)'
        BY <3>1, <3>2, ShrinksNames DEF Inv, AllNames
      <3>4. NamesUnique' /\ revived' \subseteq used'
        BY <3>1, ShrinksUnique DEF Inv, AllNames, Shrinks
      <3>5. QED
        BY <3>1, <3>3, <3>4 DEF AllNames
    <2>4. QED
      BY <2>1, <2>2, <2>3
  <1>2. CASE Supervisors
    <2>1. Shrinks /\ UNCHANGED call
      BY <1>2, SupervisorsShrink, SupervisorsTypes DEF Inv
    <2>2. \A d \in Clients : NameInv(d)'
      BY <2>1, ShrinksNames DEF Inv, AllNames
    <2>3. QED
      BY <2>1, <2>2, ShrinksUnique DEF Inv, AllNames, Shrinks
  <1>3. CASE UNCHANGED vars
    BY <1>3 DEF vars, store, Inv, AllNames, NameInv, OwnedIn, NamesUnique, Exists
  <1>4. QED
    BY <1>1, <1>2, <1>3 DEF Next, Step

LEMMA Invariant == Spec => []Inv
  <1>1. Init => Inv
    BY TypeInit, LockInit, NamesInit DEF Inv
  <1>2. Inv /\ [Next]_vars => Inv'
    BY TypeNext, LockNext, NamesNext DEF Inv
  <1>3. QED
    BY <1>1, <1>2, PTL DEF Spec

(* No two tasks have one name, whatever runs, renames and removals do to   *)
(* each other: the store-wide lock and what is read under it are enough.   *)
THEOREM UniqueNames == Spec => []NamesUnique
  <1>1. Inv => NamesUnique
    BY DEF Inv, AllNames
  <1>2. QED
    BY Invariant, <1>1, PTL

(* No write undoes another: what Rename and SetLabels read under the       *)
(* task's lock is still there when they write it back with one change.     *)
THEOREM WritesKeep == Spec => WritesKeepTheRest
  <1> DEFINE Keeps == \A i \in IDs : Exists(i) /\ meta'[i] # None
                => meta'[i].name = meta[i].name \/ meta'[i].labels = meta[i].labels
  <1>1. ASSUME Inv, [Next]_vars PROVE Keeps
    <2>1. \A i \in IDs : Exists(i) => i \in used
      BY <1>1 DEF Inv, TypeInv, TypeOK
    <2>2. ASSUME NEW c \in Clients, Step(c) PROVE Keeps
      <3>1. CASE Create(c)
        BY <1>1, <2>1, <3>1, CreateCall DEF Inv, TypeInv, TypeOK
      <3>2. CASE Write(c)
        <4>1. /\ call[c].id \in IDs /\ call[c].buf \in TypeMeta
              /\ meta' = [meta EXCEPT ![call[c].id] = NewMeta(c)]
              /\ meta \in [IDs -> TypeMeta \cup {None}]
              /\ Exists(call[c].id) => meta[call[c].id] = call[c].buf
          BY <1>1, <3>2
             DEF Write, At, Inv, TypeInv, TypeOK, StepInv, HasTask, AllNames, NameInv
        <4>2. \/ NewMeta(c).name = call[c].buf.name
              \/ NewMeta(c).labels = call[c].buf.labels
          BY <4>1 DEF NewMeta, TypeMeta
        <4>3. QED
          BY <4>1, <4>2
      <3>3. CASE ~Create(c) /\ ~Write(c)
        BY <1>1, <2>2, <3>3, StepNames DEF Shrinks
      <3>4. QED
        BY <3>1, <3>2, <3>3
    <2>3. CASE Supervisors
      BY <1>1, <2>3, SupervisorsShrink DEF Inv, Shrinks
    <2>4. CASE UNCHANGED vars
      BY <2>4 DEF vars, store
    <2>5. QED
      BY <1>1, <2>2, <2>3, <2>4 DEF Next, Step
  <1>2. QED
    BY <1>1, Invariant, PTL DEF WritesKeepTheRest, Spec

-----------------------------------------------------------------------------
(* The table of names *)

Named == [i \in IDs |-> NameOf(i)]

LEMMA TableInit == Init => Table!Init
  BY NamesAssumption DEF Init, Table!Init, NameOf, Exists, TypeMeta

(* A removal gives the task's name back, unless it was a revived one.      *)
LEMMA ShrinksTable ==
    ASSUME Inv, Shrinks
    PROVE  [Table!Next]_(Table!vars)
  <1>1. CASE UNCHANGED meta
    BY <1>1 DEF Shrinks, Table!vars, NameOf, Exists
  <1>2. ASSUME NEW k \in IDs, meta' = [meta EXCEPT ![k] = None]
        PROVE  [Table!Next]_(Table!vars)
    <2>1. meta \in [IDs -> TypeMeta \cup {None}]
      BY DEF Inv, TypeInv, TypeOK
    <2>2. Named' = [Named EXCEPT ![k] = None] /\ used' = used
      BY <1>2, <2>1 DEF Shrinks, Named, NameOf, Exists
    <2>3. CASE Named[k] = None
      BY <2>2, <2>3 DEF Named, Table!vars
    <2>4. CASE Named[k] # None
      BY <2>2, <2>4 DEF Named, Table!Next, Table!Give
    <2>5. QED
      BY <2>3, <2>4
  <1>3. QED
    BY <1>1, <1>2 DEF Shrinks

LEMMA CreateTable ==
    ASSUME Inv, NEW c \in Clients, Create(c)
    PROVE  Table!Next
  <1>1. PICK i \in IDs \ used :
           /\ used' = used \cup {i}
           /\ meta' = [meta EXCEPT ![i] = [name |-> call[c].name,
                                            labels |-> call[c].labels]]
    BY CreateCall DEF Inv
  <1>2. /\ meta \in [IDs -> TypeMeta \cup {None}] /\ i \notin revived
        /\ revived' = revived /\ call[c].name \in TaskNames
        /\ call[c].labels \in SUBSET Labels
        /\ OwnedIn(call[c].name, {})
    BY <1>1 DEF Inv, TypeInv, TypeOK, StepInv, Calls, AllNames, NameInv, Create, At
  <1>3. [name |-> call[c].name, labels |-> call[c].labels] # None
    BY <1>2, NamesAssumption
  <1>4. Named' = [Named EXCEPT ![i] = call[c].name]
    BY <1>1, <1>2, <1>3 DEF Named, NameOf, Exists
  <1>5. Table!Free(call[c].name)
    BY <1>2, NamesAssumption DEF Table!Free, OwnedIn, NameOf, Exists
  <1>6. Table!Claim(i, call[c].name)
    BY <1>1, <1>4, <1>5 DEF Table!Claim, Named
  <1>7. QED
    BY <1>1, <1>2, <1>6 DEF Table!Next

(* A rename moves a task to a free name; labels leave the names alone, and *)
(* so does the write that revives a task.                                  *)
LEMMA WriteTable ==
    ASSUME Inv, NEW c \in Clients, Write(c)
    PROVE  [Table!Next]_(Table!vars)
  <1> DEFINE i == call[c].id
  <1>1. /\ i \in IDs /\ used' = used
        /\ call[c].op \in {"rename", "set_labels"}
        /\ meta' = [meta EXCEPT ![i] = NewMeta(c)]
        /\ revived' = IF Exists(i) THEN revived ELSE revived \cup {i}
        /\ Exists(i) => meta[i] = call[c].buf
        /\ call[c].op = "rename" => OwnedIn(call[c].name, {}) /\ call[c].name \in TaskNames
        /\ meta \in [IDs -> TypeMeta \cup {None}]
        /\ call[c].buf \in TypeMeta
    BY DEF Write, At, Inv, TypeInv, TypeOK, StepInv, HasTask, AllNames, NameInv
  <1>2. /\ NewMeta(c).name = IF call[c].op = "rename" THEN call[c].name ELSE call[c].buf.name
        /\ NewMeta(c) \in TypeMeta
    BY <1>1 DEF NewMeta, TypeMeta, Calls, Inv, TypeInv, TypeOK
  <1>3. NewMeta(c) # None
    BY <1>2, NamesAssumption DEF TypeMeta
  <1> HIDE DEF i
  <1>4. CASE Exists(i) /\ i \notin revived /\ call[c].op = "rename"
    <2>1. Named' = [Named EXCEPT ![i] = call[c].name]
      <3>1. i \in IDs /\ NewMeta(c).name = call[c].name /\ revived' = revived
        BY <1>1, <1>2, <1>4
      <3>2. meta'[i] = NewMeta(c) /\ \A j \in IDs \ {i} : meta'[j] = meta[j]
        BY <1>1
      <3>3. QED
        BY ONLY <1>3, <1>4, <3>1, <3>2 DEF Named, NameOf, Exists
    <2>2. Table!Free(call[c].name)
      BY <1>1, <1>4, NamesAssumption DEF Table!Free, OwnedIn, NameOf, Exists
    <2>3. Named[i] # None
      BY <1>1, <1>4, NamesAssumption DEF Named, NameOf, Exists, TypeMeta
    <2>4. Table!Move(i, call[c].name)
      BY <1>1, <2>1, <2>2, <2>3 DEF Table!Move, Named
    <2>5. QED
      BY <1>1, <1>4, <2>4 DEF Table!Next
  <1>5. CASE ~(Exists(i) /\ i \notin revived /\ call[c].op = "rename")
    <2>1. Named' = Named
      BY <1>1, <1>2, <1>3, <1>5 DEF Named, NameOf, Exists
    <2>2. QED
      BY <1>1, <2>1 DEF Named, Table!vars
  <1>6. QED
    BY <1>4, <1>5

(* Together the requests implement the table of names: a name passes from  *)
(* task to task only while it is free and in one step, and an id is never  *)
(* given twice.                                                            *)
THEOREM NameTableImplemented == Spec => ImplementsNameTable
  <1>1. ASSUME Inv, [Next]_vars PROVE [Table!Next]_(Table!vars)
    <2>1. ASSUME NEW c \in Clients, Step(c) PROVE [Table!Next]_(Table!vars)
      BY <1>1, <2>1, CreateTable, WriteTable, StepNames, ShrinksTable
    <2>2. CASE Supervisors
      BY <1>1, <2>2, SupervisorsShrink, ShrinksTable DEF Inv
    <2>3. CASE UNCHANGED vars
      BY <2>3 DEF vars, store, Table!vars, NameOf, Exists
    <2>4. QED
      BY <1>1, <2>1, <2>2, <2>3 DEF Next, Step
  <1>2. QED
    BY <1>1, TableInit, Invariant, PTL DEF Spec, ImplementsNameTable, Table!Spec
=============================================================================
