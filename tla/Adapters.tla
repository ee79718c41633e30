------------------------------ MODULE Adapters ------------------------------
(***************************************************************************)
(* The HTTP server, the MCP server and the command line: what they ask of  *)
(* the service for a request w that reaches them, a set that is empty if   *)
(* they refuse it, and what they make of the results of a batch: items, in *)
(* the order in which runBatch came to them, of a selection sel ("refs": a *)
(* list of references; else a snapshot).                                   *)
(*                                                                         *)
(* Requests arrive parsed; durations, bodies and flags that cannot be are  *)
(* refused before anything else happens.  The Get with which HTTP answers  *)
(* rename and set_labels is left out: it changes nothing.                  *)
(***************************************************************************)
EXTENDS Names, FiniteSets, Subsequences

CONSTANTS
    MaxBatchItems    \* the items an MCP reply carries; 50 in the code

ASSUME AdaptersAssumption == MaxBatchItems \in Nat \ {0}

(* ref: the task in the path of an HTTP request, and that of a rename or   *)
(* set_labels; name: None if there is none; cwd: is a directory given?     *)
Wire(op) == [op |-> op, ref |-> None, name |-> None, labels |-> {}, refs |-> <<>>,
             all |-> FALSE, replace |-> FALSE, cwd |-> TRUE]

(* AutoName ends in random digits and may meet any name of that form.      *)
NamesFor(w) == IF w.name = None THEN TaskNames ELSE {w.name}

(* Selection: explicit references first, then all, then labels. *)
Batch(w) ==
    IF w.op = "cleanup" THEN {OnAll("cleanup")}
    ELSE IF w.refs # <<>> THEN {OnRefs(w.op, w.refs)}
    ELSE IF w.all THEN {OnAll(w.op)}
    ELSE {OnLabels(w.op, w.labels)}

Modes(w) == Cardinality({m \in Selections :
               CASE m = "refs" -> w.refs # <<>>
                 [] m = "labels" -> w.labels # {}
                 [] m = "all" -> w.all})

-----------------------------------------------------------------------------
(* HTTP *)

HttpRun(w) == {Run(n, w.labels, w.replace) : n \in NamesFor(w)}

(* DELETE /tasks/{ref} and POST /tasks/{ref}/start, stop, restart. *)
HttpTask(w) == {OnRefs(w.op, <<w.ref>>)}

(* POST /actions/{action}; cleanup ignores its selection. *)
HttpAction(w) ==
    IF w.op \in BatchOps /\ (w.op = "cleanup" \/ Modes(w) = 1) THEN Batch(w) ELSE {}

StatusForCode(code) ==
    CASE code = "invalid_argument" -> 400
      [] code = "not_found" -> 404
      [] code \in {"conflict", "failed_precondition"} -> 409
      [] code = "busy" -> 429
      [] code = "deadline_exceeded" -> 504
      [] OTHER -> 500

IsFailed(item) == item.res \in Codes

(* runBatch returns an error besides the items. *)
FailedFast(sel, items) ==
    sel = "refs" /\ items # <<>> /\ IsFailed(items[Len(items)])

(* Mutant: a failure after some progress is reported as success. *)
RespondBatch_PartialIsOk(sel, items) ==
    IF FailedFast(sel, items) /\ Len(items) = 1
    THEN [status |-> StatusForCode(items[Len(items)].res), items |-> items]
    ELSE [status |-> 200, items |-> items]

RespondBatch(sel, items) ==
    IF FailedFast(sel, items)
    THEN [status |-> StatusForCode(items[Len(items)].res), items |-> items]
    ELSE [status |-> 200, items |-> items]

(* The routes of one task return its item, or the error alone. *)
RespondTask(items) ==
    IF IsFailed(items[1])
    THEN [status |-> StatusForCode(items[1].res), items |-> <<>>]
    ELSE [status |-> 200, items |-> <<items[1]>>]

-----------------------------------------------------------------------------
(* MCP *)

McpRun(w) == IF w.cwd THEN {Run(n, w.labels, w.replace) : n \in NamesFor(w)} ELSE {}

(* rename and set_labels, the same for all three. *)
Change(w) ==
    CASE w.op = "set_labels" -> {SetLabels(w.ref, w.labels)}
      [] w.op = "rename" /\ w.name # None -> {Rename(w.ref, w.name)}
      [] OTHER -> {}

McpSelects(w) == Modes(w) = 1 /\ Len(w.refs) <= MaxBatchItems

McpBatch(w) == IF w.op = "cleanup" \/ McpSelects(w) THEN Batch(w) ELSE {}

With(items, results) == Select(items, [id : IDs \cup {None}, res : results])

OfPriority(items, k) ==
    With(items, CASE k = 0 -> Codes
                  [] k = 1 -> {"changed"}
                  [] OTHER -> Results \ (Codes \cup {"changed"}))

Prioritized(items) ==
    IF Len(items) <= MaxBatchItems THEN items
    ELSE SubSeq(OfPriority(items, 0) \o OfPriority(items, 1) \o OfPriority(items, 2),
                1, MaxBatchItems)

BatchOutcome(sel, items) ==
    [isError |-> FailedFast(sel, items), items |-> Prioritized(items),
     omitted |-> Len(items) - Len(Prioritized(items)),
     changed |-> Len(With(items, {"changed"})),
     noOp |-> Len(With(items, {"no_op"})),
     failed |-> Len(With(items, Codes))]

-----------------------------------------------------------------------------
(* The command line *)

(* It always replaces. *)
CliRun(w) == {Run(n, w.labels, TRUE) : n \in NamesFor(w)}

(* start and restart have no --all; several selections may come together. *)
CliBatch(w) ==
    IF \/ w.op = "cleanup"
       \/ Modes(w) > 0 /\ ~(w.all /\ w.op \in {"start", "restart"})
    THEN Batch(w) ELSE {}

Tasks(items) == {items[k].id : k \in DOMAIN items}

(* stop, start, restart: a list that failed prints the error and nothing   *)
(* of what went before; what failed in a snapshot is left out.             *)
CliReports(sel, items) ==
    LET fails == FailedFast(sel, items)
        done == Tasks(With(items, {"changed"}))
    IN [error |-> fails, done |-> IF fails THEN {} ELSE done, warned |-> {}]

(* rm and cleanup warn of it. *)
CliRemoved(sel, items) ==
    [CliReports(sel, items) EXCEPT
        !.warned = IF FailedFast(sel, items) THEN {}
                   ELSE Tasks(With(items, Codes))]

Cli(op, sel, items) ==
    IF op \in {"remove", "cleanup"} THEN CliRemoved(sel, items) ELSE CliReports(sel, items)
=============================================================================
