------------------------------ MODULE Service ------------------------------
(***************************************************************************)
(* Clients that change the store (Names), readers that list it page by     *)
(* page meanwhile (List), and what the adapters tell them (Adapters).      *)
(*                                                                         *)
(* A page is read from the live store: ListIDs, then for a label filter    *)
(* one pass over the meta.json files, then a second one.  A cursor names   *)
(* the last task of the page before and the filters it was made for.       *)
(***************************************************************************)
EXTENDS Adapters

CONSTANTS
    Readers,
    MaxListLimit,    \* the largest page MCP asks for; 100 in the code
    PageRequests     \* the filters, orders and page sizes (0: no limit) asked for

ASSUME ServiceAssumption ==
    /\ MaxListLimit \in Nat \ {0}
    /\ PageRequests \subseteq [newest : BOOLEAN, labels : SUBSET Labels,
                               running : BOOLEAN, limit : Nat]
    /\ Readers \cap Clients = {}

VARIABLES
    page,        \* page[r]: the listing of reader r
    stayed       \* of each client and reader: the tasks that have matched
                 \* its selection ever since it first asked

svars == <<vars, page, stayed>>

(* What the adapters ask for. *)
HttpList(labels) ==
    {[newest |-> FALSE, labels |-> labels, running |-> FALSE, limit |-> 0]}

McpList(labels, running, limit) ==
    IF limit \notin 1..MaxListLimit THEN {}
    ELSE {[newest |-> TRUE, labels |-> labels, running |-> running, limit |-> limit]}

NoCursor == [last |-> None, newest |-> FALSE, labels |-> {}, running |-> FALSE]

(* ask: the filters of the request under way; cursor: from the page        *)
(* before; todo: what is left to read; tasks: the page so far; shown: all  *)
(* pages so far.                                                           *)
NoPage == [at |-> "idle", ask |-> NoCursor, limit |-> 0, cursor |-> NoCursor,
           scan |-> {}, todo |-> {}, tasks |-> <<>>, more |-> FALSE, shown |-> <<>>]

ServiceInit ==
    /\ Init
    /\ page = [r \in Readers |-> NoPage]
    /\ stayed = [c \in Clients \cup Readers |-> IDs]

PageStep(r, s, t, p) ==
    /\ page[r].at = s
    /\ page' = [page EXCEPT ![r] = [p EXCEPT !.at = t]]
    /\ UNCHANGED vars

(* A request for the first page, or for the next one with the cursor of    *)
(* the last; it may come with other filters than the cursor was made for.  *)
AskPage(r) ==
    \E s \in {"idle", "paged"}, f \in PageRequests :
       PageStep(r, s, "check",
          [page[r] EXCEPT !.limit = f.limit,
             !.ask = [last |-> page[r].cursor.last, newest |-> f.newest,
                      labels |-> f.labels, running |-> f.running]])

(* Mutant: a cursor is taken whatever it was made for. *)
CursorFits_Any(r) == TRUE

CursorFits(r) == page[r].cursor.last = None \/ page[r].ask = page[r].cursor

PageRefused(r) ==
    /\ ~CursorFits(r)
    /\ PageStep(r, "check", "refused", page[r])

ListIDs(r) ==
    /\ CursorFits(r)
    /\ IF page[r].ask.labels = {}
       THEN PageStep(r, "check", "read", [page[r] EXCEPT !.todo = dirs])
       ELSE PageStep(r, "check", "filter", [page[r] EXCEPT !.scan = dirs])

FilterTask(r) ==
    \E i \in page[r].scan :
       /\ \A j \in page[r].scan : i <= j
       /\ PageStep(r, "filter", "filter",
             [page[r] EXCEPT !.scan = @ \ {i},
                !.todo = IF Exists(i) /\ meta[i].labels \cap page[r].ask.labels # {}
                         THEN @ \cup {i} ELSE @])

FilterDone(r) ==
    /\ page[r].scan = {}
    /\ PageStep(r, "filter", "read", page[r])

(* Mutant: the last task of the page before comes again. *)
PastCursor_Again(r, i) ==
    LET cur == page[r].cursor IN
    cur.last # None => IF page[r].ask.newest THEN i <= cur.last ELSE i >= cur.last

(* Is i on a later page than the one the cursor is from? *)
PastCursor(r, i) ==
    LET cur == page[r].cursor IN
    cur.last # None => IF page[r].ask.newest THEN i < cur.last ELSE i > cur.last

Comes1st(r, i, j) == IF page[r].ask.newest THEN i >= j ELSE i <= j

IsFull(r) == page[r].limit > 0 /\ Len(page[r].tasks) >= page[r].limit

ReadTask(r) ==
    \E i \in page[r].todo :
       /\ \A j \in page[r].todo : Comes1st(r, i, j)
       /\ LET rest == [page[r] EXCEPT !.todo = @ \ {i}]
              matches == Exists(i) /\ (page[r].ask.running => i \in served)
          IN \/ /\ ~(matches /\ PastCursor(r, i))
                /\ PageStep(r, "read", "read", rest)
             \/ /\ matches /\ PastCursor(r, i) /\ IsFull(r)
                /\ PageStep(r, "read", "read", [rest EXCEPT !.more = TRUE])
             \/ /\ matches /\ PastCursor(r, i) /\ ~IsFull(r)
                /\ PageStep(r, "read", "read", [rest EXCEPT !.tasks = Append(@, i)])

PageDone(r) ==
    LET p == page[r]
        shown == p.shown \o p.tasks
    IN /\ p.todo = {}
       /\ IF p.more
          THEN PageStep(r, "read", "paged",
                 [NoPage EXCEPT !.shown = shown,
                    !.cursor = [p.ask EXCEPT !.last = p.tasks[Len(p.tasks)]]])
          ELSE PageStep(r, "read", "listed", [NoPage EXCEPT !.shown = shown, !.ask = p.ask])

Lists(r) ==
    \/ AskPage(r) \/ PageRefused(r) \/ ListIDs(r) \/ FilterTask(r) \/ FilterDone(r)
    \/ ReadTask(r) \/ PageDone(r)

-----------------------------------------------------------------------------
(* Which tasks matched all along, in the state that follows. *)
ClientMatches(c, i) ==
    LET q == IF At(c, "idle") THEN call'[c] ELSE call[c] IN
    /\ q.at # "replied" /\ q.op \in BatchOps /\ meta'[i] # None
    /\ \/ q.sel = "all"
       \/ q.sel = "labels" /\ meta'[i].labels \cap q.labels # {}

ReaderMatches(r, i) ==
    LET f == IF page'[r].at = "paged" THEN page'[r].cursor ELSE page'[r].ask IN
    /\ meta'[i] # None
    /\ f.labels = {} \/ meta'[i].labels \cap f.labels # {}
    /\ f.running => i \in served'

Stay ==
    stayed' = [c \in Clients \cup Readers |->
        IF c \in Clients
        THEN IF call'[c].at = "idle" THEN IDs
             ELSE {i \in stayed[c] : ClientMatches(c, i)}
        ELSE IF page'[c].at = "idle" THEN IDs
             ELSE {i \in stayed[c] : ReaderMatches(c, i)}]

ServiceNext ==
    /\ \/ Next /\ UNCHANGED page
       \/ \E r \in Readers : Lists(r)
    /\ Stay

ServiceSpec == ServiceInit /\ [][ServiceNext]_svars

-----------------------------------------------------------------------------
Shown(r) == {page[r].shown[k] : k \in DOMAIN page[r].shown}

(* However the store changes between and during the pages, no task is      *)
(* shown twice and the tasks come in the order of the request.             *)
PagesOrdered ==
    \A r \in Readers :
        LET p == page[r]
            newest == IF p.at = "paged" THEN p.cursor.newest ELSE p.ask.newest
        IN p.at \in {"paged", "listed"} =>
             \A j, k \in DOMAIN p.shown :
                 j < k => IF newest THEN p.shown[j] > p.shown[k]
                                    ELSE p.shown[j] < p.shown[k]

(* A task that matched the filters from the first page to the last is on   *)
(* one of them, whatever came, went or changed around it.                  *)
PagesComplete ==
    \A r \in Readers : page[r].at = "listed" => stayed[r] \subseteq Shown(r)

(* A batch over labels or over all tasks passes over no task that was      *)
(* there and matched all along, whatever fails or vanishes on the way.     *)
BatchReachesAll ==
    \A c \in Clients :
        call[c].at \in {"next", "replied"} =>
            \A i \in stayed[c] \ call[c].todo :
                call[c].op \in BatchOps /\ call[c].sel # "refs" =>
                    \E k \in DOMAIN call[c].items : call[c].items[k].id = i

(* What each adapter reports of a batch: the call fails for all three if a *)
(* list ended at a failure and for none otherwise ("never fails as a       *)
(* whole", routes_actions.go:72); HTTP leaves nothing out; the counts of   *)
(* MCP add up, and it leaves out a failure only for other failures.        *)
OutcomeReported ==
    \A c \in Clients : At(c, "replied") /\ call[c].op \in BatchOps =>
        LET items == call[c].items
            sel == call[c].sel
            rest == RespondBatch(sel, items)
            mcp == BatchOutcome(sel, items)
            failure == \E k \in DOMAIN items : IsFailed(items[k])
        IN /\ (rest.status # 200) <=> (sel = "refs" /\ failure)
           /\ mcp.isError <=> rest.status # 200
           /\ Cli(call[c].op, sel, items).error <=> rest.status # 200
           /\ Len(items) = 1 /\ sel = "refs" => RespondTask(items).status = rest.status
           /\ Len(rest.items) = Len(items)
           /\ mcp.changed + mcp.noOp + mcp.failed = Len(items)
           /\ mcp.omitted = Len(items) - Len(mcp.items)
           /\ Len(With(mcp.items, Codes)) < mcp.failed =>
                \A k \in DOMAIN mcp.items : IsFailed(mcp.items[k])
=============================================================================
