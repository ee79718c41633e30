----------------------------- MODULE MCService -----------------------------
(* Three mixes of requests over stores of up to three tasks.               *)
EXTENDS Service, TLC

CONSTANTS c1, c2, r, a, b, c, x

Asks(op, ref, name, labels) ==
    [Wire(op) EXCEPT !.ref = ref, !.name = name, !.labels = labels]

Change2(op, ref, name) == Change(Asks(op, ref, name, {}))

Selects(op, refs, labels, all) ==
    [Wire(op) EXCEPT !.refs = refs, !.labels = labels, !.all = all]

(* Names: two clients that run, rename and remove tasks of two names.      *)
Naming ==
    LET run(n) == Asks("run", None, n, {})
        runs == HttpRun(run(a)) \cup CliRun(run(a)) \cup McpRun([run(b) EXCEPT !.cwd = FALSE])
        renames == UNION {Change2("rename", ref, a) : ref \in {2, a, b}}
        others == McpRun(run(b)) \cup Change2("rename", a, b) \cup Change2("rename", a, None)
                  \cup UNION {Change(Asks("set_labels", ref, None, {x})) : ref \in {2, b}}
                  \cup UNION {HttpTask(Asks("remove", ref, None, {})) : ref \in {2, a}}
    IN (c1 :> (runs \cup renames) @@ c2 :> (runs \cup renames \cup others))

(* Batches, against each other and against changes: all that the command   *)
(* line, HTTP and MCP make of the selections of a request.                 *)
Batching ==
    LET asked == {Selects(op, refs, labels, all) :
                    op \in BatchOps, refs \in {<<>>, <<1, 2>>},
                    labels \in {{}, {x}}, all \in BOOLEAN}
        batches == UNION {CliBatch(w) \cup HttpAction(w) \cup McpBatch(w) : w \in asked}
        others == UNION {HttpAction(Selects("stop", <<2, 1>>, {}, FALSE)),
                         CliBatch(Selects("remove", <<2, b>>, {}, FALSE)),
                         Change(Asks("set_labels", 2, None, {x})),
                         Change2("rename", 2, b)}
    IN (c1 :> batches @@ c2 :> others)

(* A reader, while tasks come, change and go. *)
Listing == c1 :> (CliRun(Asks("run", None, c, {x}))
                 \cup HttpTask(Asks("remove", 1, None, {})))
           @@ c2 :> Change(Asks("set_labels", 2, None, {}))

MCRequests == [naming |-> Naming, batching |-> Batching, listing |-> Listing]

(* HTTP's and MCP's lists, and one that only the service itself offers.    *)
MCPageRequests ==
    HttpList({x}) \cup McpList({x}, FALSE, 1) \cup McpList({}, TRUE, 1) \cup McpList({}, FALSE, 0)
    \cup {[newest |-> FALSE, labels |-> {x}, running |-> FALSE, limit |-> 1]}

Labelled(i) == meta[i].labels # {}

MCInit ==
    /\ ServiceInit
    /\ \/ /\ mix = "naming"
          /\ used \in {{}, {2}} /\ \A i \in used : ~Labelled(i)
       \/ /\ mix = "batching"
          /\ used = {1, 2} /\ meta[1].name = a /\ meta[2].name = c
          /\ 1 \in served /\ Labelled(2)
       \/ /\ mix = "listing"
          /\ used = {1, 2} /\ meta[1].name = a /\ meta[2].name = b
          /\ served = {2} /\ Labelled(1)

(* The reader works in the last mix only. *)
MCSpec == MCInit /\ [][ServiceNext /\ (mix = "listing" \/ UNCHANGED page)]_svars
=============================================================================
