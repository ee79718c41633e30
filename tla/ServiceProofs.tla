--------------------------- MODULE ServiceProofs ---------------------------
(***************************************************************************)
(* Theorems about pages and batches: whatever clients and supervisors do   *)
(* to the store meanwhile, a reader that goes from page to page sees every *)
(* task that stays once and in order, a batch over labels or over all      *)
(* tasks comes to every task that stays, and every adapter tells its       *)
(* client what failed.                                                     *)
(***************************************************************************)
EXTENDS Service, NamesProofs, SubsequenceProofs

(* What the readers and the clients do to the store is Names', so what is  *)
(* proved of Names holds here.                                             *)
LEMMA ServiceSteps == ServiceNext => [Next]_vars
  BY DEF ServiceNext, Lists, AskPage, PageRefused, ListIDs, FilterTask, FilterDone,
         ReadTask, PageDone, PageStep

LEMMA ServiceTypes == ServiceSpec => []TypeInv
  <1>1. ServiceInit => TypeInv
    BY TypeInit DEF ServiceInit
  <1>2. TypeInv /\ [ServiceNext]_svars => TypeInv'
    <2> SUFFICES ASSUME TypeInv, [ServiceNext]_svars PROVE TypeInv'
      OBVIOUS
    <2>1. [Next]_vars
      BY ServiceSteps DEF svars
    <2>2. QED
      BY <2>1, TypeNext
  <1>3. QED
    BY <1>1, <1>2, PTL DEF ServiceSpec

-----------------------------------------------------------------------------
(* Pages *)

PageSteps == {"idle", "check", "refused", "filter", "read", "paged", "listed"}

Filter == [last : IDs \cup {None}, newest : BOOLEAN, labels : SUBSET Labels,
           running : BOOLEAN]

Page == [at : PageSteps, ask : Filter, limit : Nat, cursor : Filter,
         scan : SUBSET IDs, todo : SUBSET IDs, tasks : Seq(IDs), more : BOOLEAN,
         shown : Seq(IDs)]

(* Does j come after i in the order of a request? *)
Follows(newest, i, j) == IF newest THEN i > j ELSE i < j

Sorted(newest, s) == \A j, k \in DOMAIN s : j < k => Follows(newest, s[j], s[k])

Among(i, s) == \E k \in DOMAIN s : s[k] = i

(* What the reader has been shown, up to its cursor. *)
CursorInv(p) ==
    /\ p.cursor.last = None => p.shown = <<>>
    /\ p.cursor.last # None => /\ p.shown # <<>>
                               /\ p.shown[Len(p.shown)] = p.cursor.last
                               /\ Sorted(p.cursor.newest, p.shown)

(* The page under way: it is sorted, comes after the cursor and before all *)
(* that is left to read, and has left nothing out unless it is full.       *)
ReadInv(p) ==
    /\ Sorted(p.ask.newest, p.tasks)
    /\ \A k \in DOMAIN p.tasks :
          /\ p.cursor.last # None => Follows(p.ask.newest, p.cursor.last, p.tasks[k])
          /\ \A j \in p.todo : Follows(p.ask.newest, p.tasks[k], j)
    /\ p.more => p.limit > 0 /\ Len(p.tasks) >= p.limit

Fits(p) == p.cursor.last = None \/ p.ask = p.cursor

PageInv(p) ==
    /\ p.at = "idle" => p.cursor.last = None
    /\ p.at # "listed" => CursorInv(p)
    /\ p.at \notin {"read", "listed"} => p.tasks = <<>> /\ p.more = FALSE
    /\ p.at \in {"filter", "read"} => Fits(p)
    /\ p.at = "filter" => p.ask.labels # {}
    /\ p.at = "read" => ReadInv(p)
    /\ p.at = "listed" => Sorted(p.ask.newest, p.shown)

PagesInv ==
    /\ page \in [Readers -> Page]
    /\ \A r \in Readers : PageInv(page[r])

LEMMA NoPageType == NoPage \in Page /\ NoCursor \in Filter
  <1>1. NoCursor \in Filter /\ NoCursor.last = None
    BY DEF NoCursor, Filter
  <1>2. <<>> \in Seq(IDs)
    OBVIOUS
  <1> HIDE DEF NoCursor
  <1>3. QED
    BY <1>1, <1>2 DEF NoPage, Page, PageSteps

(* What a step of a reader leaves alone. *)
PageFrame(r) ==
    /\ page' \in [Readers -> Page]
    /\ \A x \in Readers \ {r} : page'[x] = page[x]
    /\ UNCHANGED vars

(* The fields that a step at most reads. *)
Same(p, q) ==
    /\ q.ask = p.ask /\ q.limit = p.limit /\ q.cursor = p.cursor
    /\ q.shown = p.shown

LEMMA PageTurns ==
    ASSUME page \in [Readers -> Page], NEW r \in Readers, NEW p \in Page,
           NEW s, NEW t \in PageSteps, PageStep(r, s, t, p)
    PROVE  /\ PageFrame(r) /\ page[r].at = s
           /\ page'[r].at = t /\ Same(p, page'[r])
           /\ page'[r].scan = p.scan /\ page'[r].todo = p.todo
           /\ page'[r].tasks = p.tasks /\ page'[r].more = p.more
  <1> DEFINE q == [p EXCEPT !.at = t]
  <1>1. q \in Page
    BY ZenonT(60) DEF Page
  <1>2. /\ q.at = t /\ Same(p, q) /\ q.scan = p.scan /\ q.todo = p.todo
        /\ q.tasks = p.tasks /\ q.more = p.more
    BY DEF Page, Same
  <1>3. page' = [page EXCEPT ![r] = q] /\ page[r].at = s /\ UNCHANGED vars
    BY DEF PageStep
  <1> HIDE DEF q
  <1>4. page'[r] = q
    BY <1>3
  <1>5. QED
    BY <1>1, <1>2, <1>3, <1>4 DEF PageFrame

LEMMA AskPageStep ==
    ASSUME PagesInv, NEW r \in Readers, AskPage(r)
    PROVE  /\ PageFrame(r) /\ page[r].at \in {"idle", "paged"}
           /\ page'[r].at = "check" /\ page'[r].cursor = page[r].cursor
           /\ page'[r].shown = page[r].shown
           /\ page'[r].tasks = page[r].tasks /\ page'[r].more = page[r].more
  <1>1. PICK s \in {"idle", "paged"}, f \in PageRequests :
           PageStep(r, s, "check",
              [page[r] EXCEPT !.limit = f.limit,
                 !.ask = [last |-> page[r].cursor.last, newest |-> f.newest,
                          labels |-> f.labels, running |-> f.running]])
    BY DEF AskPage
  <1> DEFINE ask == [last |-> page[r].cursor.last, newest |-> f.newest,
                     labels |-> f.labels, running |-> f.running]
             p == [page[r] EXCEPT !.limit = f.limit, !.ask = ask]
  <1>2. f.limit \in Nat /\ ask \in Filter
    BY ServiceAssumption DEF PagesInv, Page, Filter
  <1> HIDE DEF ask
  <1>3. p \in Page
    BY ZenonT(60), <1>2 DEF PagesInv, Page
  <1>4. /\ p.cursor = page[r].cursor /\ p.shown = page[r].shown
        /\ p.tasks = page[r].tasks /\ p.more = page[r].more
    BY DEF PagesInv, Page
  <1>5. PageStep(r, s, "check", p) /\ "check" \in PageSteps /\ page \in [Readers -> Page]
    BY <1>1 DEF ask, PageSteps, PagesInv
  <1> HIDE DEF p
  <1>6. QED
    BY <1>3, <1>4, <1>5, PageTurns DEF Same

LEMMA SomeStep ==
    ASSUME PagesInv, NEW r \in Readers, PageRefused(r) \/ FilterDone(r)
    PROVE  /\ PageFrame(r) /\ Same(page[r], page'[r])
           /\ page'[r].scan = page[r].scan /\ page'[r].todo = page[r].todo
           /\ page'[r].tasks = page[r].tasks /\ page'[r].more = page[r].more
           /\ \/ page[r].at = "check" /\ page'[r].at = "refused" 
              \/ page[r].at = "filter" /\ page'[r].at = "read" /\ page[r].scan = {}
  <1>1. page \in [Readers -> Page] /\ {"refused", "read"} \subseteq PageSteps
    BY DEF PagesInv, PageSteps
  <1>2. QED
    BY <1>1, PageTurns DEF PageRefused, FilterDone

LEMMA ListIDsStep ==
    ASSUME PagesInv, TypeOK, NEW r \in Readers, ListIDs(r)
    PROVE  /\ PageFrame(r) /\ Same(page[r], page'[r]) /\ Fits(page[r])
           /\ page[r].at = "check"
           /\ page'[r].tasks = page[r].tasks /\ page'[r].more = page[r].more
           /\ \/ page[r].ask.labels = {} /\ page'[r].at = "read" /\ page'[r].todo = dirs
              \/ page[r].ask.labels # {} /\ page'[r].at = "filter" /\ page'[r].scan = dirs
  <1>1. /\ page \in [Readers -> Page] /\ page[r] \in Page
        /\ {"filter", "read"} \subseteq PageSteps
        /\ dirs \in SUBSET IDs
    BY DEF PagesInv, PageSteps, TypeOK
  <1>2. Fits(page[r])
    BY DEF ListIDs, CursorFits, Fits
  <1>3. CASE page[r].ask.labels = {}
    <2> DEFINE p == [page[r] EXCEPT !.todo = dirs]
    <2>1. /\ p \in Page /\ p.todo = dirs /\ p.tasks = page[r].tasks
          /\ p.more = page[r].more /\ Same(page[r], p)
      BY <1>1 DEF Page, Same
    <2>2. PageStep(r, "check", "read", p)
      BY <1>3 DEF ListIDs
    <2> HIDE DEF p
    <2>3. QED
      BY <1>1, <1>2, <1>3, <2>1, <2>2, PageTurns DEF Same
  <1>4. CASE page[r].ask.labels # {}
    <2> DEFINE p == [page[r] EXCEPT !.scan = dirs]
    <2>1. /\ p \in Page /\ p.scan = dirs /\ p.tasks = page[r].tasks
          /\ p.more = page[r].more /\ Same(page[r], p)
      BY <1>1 DEF Page, Same
    <2>2. PageStep(r, "check", "filter", p)
      BY <1>4 DEF ListIDs
    <2> HIDE DEF p
    <2>3. QED
      BY <1>1, <1>2, <1>4, <2>1, <2>2, PageTurns DEF Same
  <1>5. QED
    BY <1>3, <1>4

LEMMA FilterTaskStep ==
    ASSUME PagesInv, NEW r \in Readers, FilterTask(r)
    PROVE  /\ PageFrame(r) /\ Same(page[r], page'[r])
           /\ page[r].at = "filter" /\ page'[r].at = "filter"
           /\ page'[r].tasks = page[r].tasks /\ page'[r].more = page[r].more
           /\ page[r].todo \subseteq page'[r].todo
           /\ \E i \in page[r].scan :
                /\ page'[r].scan = page[r].scan \ {i}
                /\ Exists(i) /\ meta[i].labels \cap page[r].ask.labels # {}
                     => i \in page'[r].todo
  <1>1. PICK i \in page[r].scan :
           PageStep(r, "filter", "filter",
             [page[r] EXCEPT !.scan = @ \ {i},
                !.todo = IF Exists(i) /\ meta[i].labels \cap page[r].ask.labels # {}
                         THEN @ \cup {i} ELSE @])
    BY DEF FilterTask
  <1> DEFINE x == page[r].scan \ {i}
             z == IF Exists(i) /\ meta[i].labels \cap page[r].ask.labels # {}
                  THEN page[r].todo \cup {i} ELSE page[r].todo
             p == [page[r] EXCEPT !.scan = x, !.todo = z]
  <1>2. x \in SUBSET IDs /\ z \in SUBSET IDs
    BY DEF PagesInv, Page
  <1>3. PageStep(r, "filter", "filter", p)
    BY <1>1
  <1>4. /\ page[r].todo \subseteq z
        /\ Exists(i) /\ meta[i].labels \cap page[r].ask.labels # {} => i \in z
    OBVIOUS
  <1>5. page \in [Readers -> Page] /\ "filter" \in PageSteps
    BY DEF PagesInv, PageSteps
  <1> HIDE DEF z
  <1>6. /\ p \in Page /\ Same(page[r], p) /\ p.scan = x /\ p.todo = z
        /\ p.tasks = page[r].tasks /\ p.more = page[r].more
    BY <1>2, <1>5 DEF Page, Same
  <1> HIDE DEF p
  <1>7. QED
    BY <1>3, <1>4, <1>5, <1>6, PageTurns DEF Same

(* One task is read: it is left out, it makes the page overflow, or it is  *)
(* put on the page.                                                        *)
LEMMA ReadTaskStep ==
    ASSUME PagesInv, NEW r \in Readers, ReadTask(r)
    PROVE  /\ PageFrame(r) /\ Same(page[r], page'[r])
           /\ page[r].at = "read" /\ page'[r].at = "read"
           /\ \E i \in page[r].todo :
                /\ \A j \in page[r].todo : Comes1st(r, i, j)
                /\ page'[r].todo = page[r].todo \ {i}
                /\ LET matches == Exists(i) /\ (page[r].ask.running => i \in served) IN
                   \/ /\ ~(matches /\ PastCursor(r, i))
                      /\ page'[r].tasks = page[r].tasks /\ page'[r].more = page[r].more
                   \/ /\ PastCursor(r, i) /\ IsFull(r)
                      /\ page'[r].tasks = page[r].tasks /\ page'[r].more = TRUE
                   \/ /\ PastCursor(r, i) /\ ~IsFull(r)
                      /\ page'[r].tasks = Append(page[r].tasks, i)
                      /\ page'[r].more = page[r].more
  <1> DEFINE m(i) == Exists(i) /\ (page[r].ask.running => i \in served)
             rest(i) == [page[r] EXCEPT !.todo = @ \ {i}]
  <1>1. PICK i \in page[r].todo :
          /\ \A j \in page[r].todo : Comes1st(r, i, j)
          /\ \/ /\ ~(m(i) /\ PastCursor(r, i))
                /\ PageStep(r, "read", "read", rest(i))
             \/ /\ m(i) /\ PastCursor(r, i) /\ IsFull(r)
                /\ PageStep(r, "read", "read", [rest(i) EXCEPT !.more = TRUE])
             \/ /\ m(i) /\ PastCursor(r, i) /\ ~IsFull(r)
                /\ PageStep(r, "read", "read", [rest(i) EXCEPT !.tasks = Append(@, i)])
    BY ZenonT(60) DEF ReadTask
  <1>2. /\ page \in [Readers -> Page] /\ page[r] \in Page /\ "read" \in PageSteps
        /\ page[r].todo \ {i} \in SUBSET IDs /\ i \in IDs
        /\ page[r].tasks \in Seq(IDs)
    BY DEF PagesInv, PageSteps, Page
  <1>3. /\ rest(i) \in Page /\ Same(page[r], rest(i)) /\ rest(i).todo = page[r].todo \ {i}
        /\ rest(i).tasks = page[r].tasks /\ rest(i).more = page[r].more
    BY <1>2 DEF Page, Same
  <1> HIDE DEF rest
  <1>4. CASE ~(m(i) /\ PastCursor(r, i)) /\ PageStep(r, "read", "read", rest(i))
    BY <1>1, <1>2, <1>3, <1>4, PageTurns DEF Same
  <1>5. CASE /\ PastCursor(r, i) /\ IsFull(r)
             /\ PageStep(r, "read", "read", [rest(i) EXCEPT !.more = TRUE])
    <2> DEFINE p == [rest(i) EXCEPT !.more = TRUE]
    <2>1. /\ p \in Page /\ Same(rest(i), p) /\ p.todo = rest(i).todo
          /\ p.tasks = rest(i).tasks /\ p.more = TRUE
      BY <1>3 DEF Page, Same
    <2>2. PageStep(r, "read", "read", p)
      BY <1>5
    <2> HIDE DEF p, m
    <2>3. QED
      BY <1>1, <1>2, <1>3, <1>5, <2>1, <2>2, PageTurns DEF Same
  <1>6. CASE /\ PastCursor(r, i) /\ ~IsFull(r)
             /\ PageStep(r, "read", "read", [rest(i) EXCEPT !.tasks = Append(@, i)])
    <2> DEFINE s == Append(page[r].tasks, i)
               p == [rest(i) EXCEPT !.tasks = s]
    <2>1. s \in Seq(IDs)
      BY <1>2
    <2>2. PageStep(r, "read", "read", p)
      BY <1>3, <1>6
    <2> HIDE DEF s
    <2>3. /\ p \in Page /\ Same(rest(i), p) /\ p.todo = rest(i).todo
          /\ p.tasks = s /\ p.more = rest(i).more
      BY <1>3, <2>1 DEF Page, Same
    <2> HIDE DEF p, m
    <2>4. QED
      BY <1>1, <1>2, <1>3, <1>6, <2>2, <2>3, PageTurns DEF Same, s
  <1>7. QED
    BY <1>1, <1>4, <1>5, <1>6

LEMMA FollowsTransitive ==
    \A n \in BOOLEAN : \A i, j, k \in IDs :
        /\ Follows(n, i, j) /\ Follows(n, j, k) => Follows(n, i, k)
        /\ ~Follows(n, i, i)
        /\ i = j \/ Follows(n, i, j) \/ Follows(n, j, i)
  BY NamesAssumption DEF Follows, IDs

(* A sorted page after a sorted list that ends before it. *)
LEMMA SortedConcat ==
    ASSUME NEW n \in BOOLEAN, NEW s \in Seq(IDs), NEW t \in Seq(IDs),
           Sorted(n, s), Sorted(n, t),
           s # <<>> => \A k \in DOMAIN t : Follows(n, s[Len(s)], t[k])
    PROVE  Sorted(n, s \o t)
  <1> DEFINE m == Len(s)
             u == s \o t
  <1>1. /\ m \in Nat /\ Len(t) \in Nat /\ Len(u) = m + Len(t) /\ u \in Seq(IDs)
        /\ DOMAIN s = 1..m /\ DOMAIN t = 1..Len(t) /\ DOMAIN u = 1..(m + Len(t))
        /\ \A k \in 1..m : u[k] = s[k]
        /\ \A k \in 1..(m + Len(t)) : k > m => u[k] = t[k - m]
    OBVIOUS
  <1>2. ASSUME NEW j \in DOMAIN u, NEW k \in DOMAIN u, j < k
        PROVE  Follows(n, u[j], u[k])
    <2>1. j \in Nat /\ k \in Nat
      BY <1>1
    <2>2. CASE k <= m
      BY <1>1, <1>2, <2>1, <2>2 DEF Sorted
    <2>3. CASE j > m
      <3>1. j - m \in DOMAIN t /\ k - m \in DOMAIN t /\ j - m < k - m
        BY <1>1, <1>2, <2>1, <2>3
      <3>2. Follows(n, t[j - m], t[k - m])
        BY <3>1 DEF Sorted
      <3>3. QED
        BY <1>1, <1>2, <2>3, <3>2
    <2>4. CASE j <= m /\ k > m
      <3>1. /\ k - m \in DOMAIN t /\ j \in DOMAIN s /\ m \in DOMAIN s /\ s # <<>>
            /\ u[j] = s[j] /\ u[k] = t[k - m]
        BY <1>1, <2>1, <2>4
      <3>2. Follows(n, s[m], t[k - m])
        BY <3>1
      <3>3. j # m => Follows(n, s[j], s[m])
        <4>1. j # m => j < m
          <5>1. m \in Nat
            BY <1>1
          <5>2. QED
            BY ONLY <2>1, <2>4, <5>1
        <4>2. QED
          BY <3>1, <4>1 DEF Sorted
      <3>4. s[j] \in IDs /\ s[m] \in IDs /\ t[k - m] \in IDs
        BY <3>1
      <3>5. QED
        BY <3>1, <3>2, <3>3, <3>4, FollowsTransitive
    <2>5. QED
      BY <1>1, <2>1, <2>2, <2>3, <2>4
  <1>3. QED
    BY <1>2 DEF Sorted

LEMMA LastConcat ==
    ASSUME NEW s \in Seq(IDs), NEW t \in Seq(IDs), t # <<>>
    PROVE  /\ t[Len(t)] \in IDs /\ s \o t # <<>>
           /\ (s \o t)[Len(s \o t)] = t[Len(t)]
  <1>1. /\ Len(s) \in Nat /\ Len(t) \in Nat \ {0}
        /\ Len(s \o t) = Len(s) + Len(t) /\ s \o t \in Seq(IDs)
    OBVIOUS
  <1>2. t[Len(t)] \in IDs
    BY <1>1
  <1>3. (s \o t)[Len(s) + Len(t)] = t[Len(t)]
    BY <1>1
  <1>4. QED
    BY <1>1, <1>2, <1>3

LEMMA AmongConcat ==
    ASSUME NEW s \in Seq(IDs), NEW t \in Seq(IDs), NEW i
    PROVE  Among(i, s \o t) <=> Among(i, s) \/ Among(i, t)
  <1> DEFINE m == Len(s)
             u == s \o t
  <1>1. /\ m \in Nat /\ Len(t) \in Nat
        /\ DOMAIN s = 1..m /\ DOMAIN t = 1..Len(t) /\ DOMAIN u = 1..(m + Len(t))
        /\ \A k \in 1..m : u[k] = s[k]
        /\ \A k \in 1..(m + Len(t)) : k > m => u[k] = t[k - m]
    OBVIOUS
  <1>2. ASSUME Among(i, s) PROVE Among(i, u)
    BY <1>1, <1>2 DEF Among
  <1>3. ASSUME Among(i, t) PROVE Among(i, u)
    <2>1. PICK k \in 1..Len(t) : t[k] = i
      BY <1>1, <1>3 DEF Among
    <2>2. k + m \in DOMAIN u /\ u[k + m] = i
      BY <1>1, <2>1
    <2>3. QED
      BY <2>2 DEF Among
  <1>4. ASSUME Among(i, u) PROVE Among(i, s) \/ Among(i, t)
    <2>1. PICK k \in DOMAIN u : u[k] = i
      BY <1>4 DEF Among
    <2>2. CASE k <= m
      BY <1>1, <2>1, <2>2 DEF Among
    <2>3. CASE k > m
      <3>1. k - m \in DOMAIN t /\ t[k - m] = i
        BY <1>1, <2>1, <2>3
      <3>2. QED
        BY <3>1 DEF Among
    <2>4. QED
      BY <1>1, <2>2, <2>3
  <1>5. QED
    BY <1>2, <1>3, <1>4

(* The page ends where nothing is left to read: the cursor is its last     *)
(* task, or there is nothing more.                                         *)
LEMMA PageDoneStep ==
    ASSUME PagesInv, NEW r \in Readers, PageDone(r)
    PROVE  /\ PageFrame(r) /\ page[r].at = "read" /\ page[r].todo = {}
           /\ page'[r].shown = page[r].shown \o page[r].tasks
           /\ page'[r].tasks = <<>> /\ page'[r].more = FALSE
           /\ \/ /\ page[r].more /\ page'[r].at = "paged"
                 /\ page[r].tasks # <<>>
                 /\ page'[r].cursor = [page[r].ask EXCEPT
                                         !.last = page[r].tasks[Len(page[r].tasks)]]
              \/ /\ ~page[r].more /\ page'[r].at = "listed"
                 /\ page'[r].ask = page[r].ask
  <1> DEFINE shown == page[r].shown \o page[r].tasks
             last == page[r].tasks[Len(page[r].tasks)]
  <1>1. /\ page \in [Readers -> Page] /\ {"paged", "listed"} \subseteq PageSteps
        /\ page[r].ask \in Filter
        /\ page[r].tasks \in Seq(IDs) /\ shown \in Seq(IDs)
        /\ page[r].limit \in Nat /\ page[r].more \in BOOLEAN
    BY DEF PagesInv, PageSteps, Page
  <1>2. page[r].at = "read" /\ page[r].todo = {}
    BY DEF PageDone, PageStep
  <1>3. CASE page[r].more
    <2>1. page[r].tasks # <<>> /\ last \in IDs
      BY <1>1, <1>2, <1>3 DEF PagesInv, PageInv, ReadInv
    <2> DEFINE cursor == [page[r].ask EXCEPT !.last = last]
               p == [NoPage EXCEPT !.shown = shown, !.cursor = cursor]
    <2>2. cursor \in Filter
      BY <1>1, <2>1 DEF Filter
    <2>3. PageStep(r, "read", "paged", p)
      BY <1>3 DEF PageDone
    <2> HIDE DEF shown, cursor
    <2>4. /\ p \in Page /\ p.shown = shown /\ p.cursor = cursor
          /\ p.tasks = NoPage.tasks /\ p.more = NoPage.more
      BY <1>1, <2>2, NoPageType DEF Page
    <2>5. NoPage.tasks = <<>> /\ NoPage.more = FALSE
      BY DEF NoPage
    <2> HIDE DEF p
    <2>6. /\ PageFrame(r) /\ page'[r].at = "paged" /\ Same(p, page'[r])
          /\ page'[r].tasks = <<>> /\ page'[r].more = FALSE
      BY <1>1, <2>3, <2>4, <2>5, PageTurns
    <2>7. QED
      BY <1>2, <1>3, <2>1, <2>4, <2>6 DEF Same, shown, cursor
  <1>4. CASE ~page[r].more
    <2> DEFINE p == [NoPage EXCEPT !.shown = shown, !.ask = page[r].ask]
    <2>1. PageStep(r, "read", "listed", p)
      BY <1>4 DEF PageDone
    <2> HIDE DEF shown
    <2>2. /\ p \in Page /\ p.shown = shown /\ p.ask = page[r].ask
          /\ p.tasks = NoPage.tasks /\ p.more = NoPage.more
      BY <1>1, NoPageType DEF Page
    <2>3. NoPage.tasks = <<>> /\ NoPage.more = FALSE
      BY DEF NoPage
    <2> HIDE DEF p
    <2>4. QED
      BY <1>1, <1>2, <1>4, <2>1, <2>2, <2>3, PageTurns DEF Same, shown
  <1>5. QED
    BY <1>1, <1>3, <1>4

LEMMA ReadTaskInv ==
    ASSUME PagesInv, NEW r \in Readers, ReadTask(r)
    PROVE  PageInv(page'[r])
  <1> DEFINE p == page[r]
             q == page'[r]
  <1>1. /\ p \in Page /\ p.todo \subseteq IDs /\ p.tasks \in Seq(IDs)
        /\ p.ask.newest \in BOOLEAN /\ p.cursor.last \in IDs \cup {None}
        /\ p.limit \in Nat
    BY DEF PagesInv, Page, Filter
  <1>2. p.at = "read" /\ q.at = "read" /\ Same(p, q)
    BY ReadTaskStep
  <1>3. CursorInv(p) /\ Fits(p) /\ ReadInv(p)
    BY <1>2 DEF PagesInv, PageInv
  <1>4. PICK i \in p.todo :
          /\ \A j \in p.todo : Comes1st(r, i, j)
          /\ q.todo = p.todo \ {i}
          /\ \/ q.tasks = p.tasks /\ q.more = p.more
             \/ PastCursor(r, i) /\ IsFull(r) /\ q.tasks = p.tasks /\ q.more = TRUE
             \/ /\ PastCursor(r, i) /\ ~IsFull(r)
                /\ q.tasks = Append(p.tasks, i) /\ q.more = p.more
    BY ReadTaskStep
  <1>5. i \in IDs /\ \A j \in q.todo : Follows(p.ask.newest, i, j)
    BY <1>1, <1>4, NamesAssumption DEF Comes1st, Follows, IDs
  <1>6. PastCursor(r, i) /\ p.cursor.last # None => Follows(p.ask.newest, p.cursor.last, i)
    BY <1>1, <1>5, NamesAssumption DEF PastCursor, Follows, IDs
  <1>7. IsFull(r) <=> p.limit > 0 /\ Len(p.tasks) >= p.limit
    BY DEF IsFull
  <1> HIDE DEF p, q
  <1>8. ReadInv(q)
    <2>1. CASE q.tasks = p.tasks
      BY <1>2, <1>3, <1>4, <1>7, <2>1 DEF ReadInv, Same
    <2>2. CASE PastCursor(r, i) /\ ~IsFull(r) /\ q.tasks = Append(p.tasks, i) /\ q.more = p.more
      <3> DEFINE m == Len(p.tasks)
                 n == p.ask.newest
      <3>1. /\ m \in Nat /\ DOMAIN p.tasks = 1..m /\ DOMAIN q.tasks = 1..(m+1)
            /\ q.tasks[m+1] = i /\ \A k \in 1..m : q.tasks[k] = p.tasks[k]
        BY <1>1, <1>5, <2>2
      <3>2. ASSUME NEW k \in DOMAIN p.tasks
            PROVE  /\ Follows(n, p.tasks[k], i)
                   /\ \A j \in q.todo : Follows(n, p.tasks[k], j)
                   /\ p.cursor.last # None => Follows(n, p.cursor.last, p.tasks[k])
        BY <1>3, <1>4 DEF ReadInv
      <3>3. Sorted(n, p.tasks) /\ (p.more => FALSE)
        BY <1>3, <1>7, <2>2 DEF ReadInv
      <3> HIDE DEF n
      <3>4. Sorted(n, q.tasks)
        <4>1. SUFFICES ASSUME NEW j \in 1..(m+1), NEW k \in 1..(m+1), j < k
                       PROVE  Follows(n, q.tasks[j], q.tasks[k])
          BY <3>1 DEF Sorted
        <4>2. CASE k = m+1
          BY <3>1, <3>2, <4>1, <4>2
        <4>3. CASE k \in 1..m
          BY SMTT(30), <3>1, <3>3, <4>1, <4>3 DEF Sorted
        <4>4. QED
          BY <3>1, <4>2, <4>3
      <3>5. ASSUME NEW k \in DOMAIN q.tasks
            PROVE  /\ p.cursor.last # None => Follows(n, p.cursor.last, q.tasks[k])
                   /\ \A j \in q.todo : Follows(n, q.tasks[k], j)
        <4>1. CASE k = m+1
          BY <1>5, <1>6, <2>2, <3>1, <4>1 DEF n
        <4>2. CASE k \in 1..m
          BY <3>1, <3>2, <4>2
        <4>3. QED
          BY <3>1, <4>1, <4>2
      <3>6. QED
        BY <1>2, <2>2, <3>3, <3>4, <3>5 DEF ReadInv, Same, n
    <2>3. QED
      BY <1>4, <2>1, <2>2
  <1>9. QED
    BY <1>2, <1>3, <1>8 DEF PageInv, CursorInv, Fits, Same, q

LEMMA PageDoneInv ==
    ASSUME PagesInv, NEW r \in Readers, PageDone(r)
    PROVE  PageInv(page'[r])
  <1> DEFINE p == page[r]
             q == page'[r]
             n == p.ask.newest
             last == p.tasks[Len(p.tasks)]
  <1>1. /\ p.ask \in Filter /\ n \in BOOLEAN /\ p.tasks \in Seq(IDs) /\ p.shown \in Seq(IDs)
    BY DEF PagesInv, Page, Filter
  <1>2. /\ p.at = "read" /\ q.shown = p.shown \o p.tasks
        /\ q.tasks = <<>> /\ q.more = FALSE
        /\ \/ q.at = "paged" /\ p.tasks # <<>> /\ q.cursor = [p.ask EXCEPT !.last = last]
           \/ q.at = "listed" /\ q.ask = p.ask
    BY PageDoneStep
  <1>3. CursorInv(p) /\ Fits(p) /\ ReadInv(p)
    BY <1>2 DEF PagesInv, PageInv
  <1> HIDE DEF p, q
  <1>4. Sorted(n, q.shown)
    <2>1. Sorted(n, p.shown)
      BY <1>3 DEF CursorInv, Fits, Sorted
    <2>2. p.shown # <<>> => \A k \in DOMAIN p.tasks : Follows(n, p.shown[Len(p.shown)], p.tasks[k])
      BY <1>3 DEF CursorInv, ReadInv
    <2>3. Sorted(n, p.tasks)
      BY <1>3 DEF ReadInv
    <2> HIDE DEF n
    <2>4. QED
      BY <1>1, <1>2, <2>1, <2>2, <2>3, SortedConcat
  <1>5. CASE q.at = "listed" /\ q.ask = p.ask
    <2> HIDE DEF n
    <2>1. q.ask.newest = n
      BY <1>5 DEF n
    <2>2. QED
      BY <1>2, <1>4, <1>5, <2>1 DEF PageInv, q
  <1>6. CASE q.at = "paged" /\ p.tasks # <<>> /\ q.cursor = [p.ask EXCEPT !.last = last]
    <2>1. q.cursor.last = last /\ q.cursor.newest = n
      BY <1>1, <1>6 DEF Filter
    <2> HIDE DEF n, last
    <2>2. last \in IDs /\ q.shown # <<>> /\ q.shown[Len(q.shown)] = last
      BY <1>1, <1>2, <1>6, LastConcat DEF last
    <2>3. last # None
      BY <2>2, NamesAssumption
    <2>4. CursorInv(q)
      BY <1>4, <2>1, <2>2, <2>3 DEF CursorInv
    <2>5. QED
      BY <1>2, <1>6, <2>4 DEF PageInv, q
  <1>7. QED
    BY <1>2, <1>5, <1>6

LEMMA PagesInit == ServiceInit => PagesInv
  <1> SUFFICES ASSUME ServiceInit PROVE PagesInv
    OBVIOUS
  <1>1. page \in [Readers -> Page] /\ \A r \in Readers : page[r] = NoPage
    BY NoPageType DEF ServiceInit
  <1>2. PageInv(NoPage)
    BY DEF NoPage, NoCursor, PageInv, CursorInv
  <1>3. QED
    BY <1>1, <1>2 DEF PagesInv

LEMMA PageInvStep ==
    ASSUME PagesInv, TypeOK, NEW r \in Readers, Lists(r)
    PROVE  PageFrame(r) /\ PageInv(page'[r])
  <1>1. PageInv(page[r])
    BY DEF PagesInv
  <1>2. CASE AskPage(r)
    BY <1>1, <1>2, AskPageStep DEF PageInv, CursorInv
  <1>3. CASE PageRefused(r) \/ FilterDone(r)
    <2>1. /\ PageFrame(r) /\ Same(page[r], page'[r])
           /\ page'[r].scan = page[r].scan /\ page'[r].todo = page[r].todo
           /\ page'[r].tasks = page[r].tasks /\ page'[r].more = page[r].more
           /\ \/ page[r].at = "check" /\ page'[r].at = "refused" 
              \/ page[r].at = "filter" /\ page'[r].at = "read" /\ page[r].scan = {}
      BY <1>3, SomeStep
    <2>2. QED
      BY <1>1, <2>1 DEF PageInv, CursorInv, Fits, ReadInv, Sorted, Same
  <1>4. CASE ListIDs(r)
    BY <1>1, <1>4, ListIDsStep DEF PageInv, CursorInv, Fits, ReadInv, Sorted, Same
  <1>5. CASE FilterTask(r)
    BY <1>1, <1>5, FilterTaskStep DEF PageInv, CursorInv, Fits, Same
  <1>6. CASE ReadTask(r)
    BY <1>6, ReadTaskStep, ReadTaskInv
  <1>7. CASE PageDone(r)
    BY <1>7, PageDoneStep, PageDoneInv
  <1>8. QED
    BY <1>2, <1>3, <1>4, <1>5, <1>6, <1>7 DEF Lists

LEMMA PagesNext ==
    ASSUME PagesInv, TypeOK, [ServiceNext]_svars
    PROVE  PagesInv'
  <1>1. CASE UNCHANGED page
    BY <1>1 DEF PagesInv
  <1>2. ASSUME NEW r \in Readers, Lists(r) PROVE PagesInv'
    BY <1>2, PageInvStep DEF PagesInv, PageFrame
  <1>3. QED
    BY <1>1, <1>2 DEF ServiceNext, svars

(* However the store changes between and during the pages, no task comes   *)
(* twice, and the tasks come in the order of the request: a page starts    *)
(* after the cursor, which is the last task of the page before.            *)
THEOREM PagesInOrder == ServiceSpec => []PagesOrdered
  <1>1. PagesInv => PagesOrdered
    BY DEF PagesInv, PageInv, CursorInv, Sorted, Follows, PagesOrdered
  <1>2. TypeInv /\ PagesInv /\ [ServiceNext]_svars => PagesInv'
    BY PagesNext DEF TypeInv
  <1>3. QED
    BY <1>1, <1>2, PagesInit, ServiceTypes, PTL DEF ServiceSpec

-----------------------------------------------------------------------------
(* The tasks that stay *)

(* The filters a reader's tasks are held to. *)
Selection(p) == IF p.at = "paged" THEN p.cursor ELSE p.ask

Matches(f, i) ==
    /\ Exists(i)
    /\ f.labels = {} \/ meta[i].labels \cap f.labels # {}
    /\ f.running => i \in served

(* Is i on a page after the cursor?                                        *)
Past(p, i) == p.cursor.last # None => Follows(p.ask.newest, p.cursor.last, i)

(* Where a task is that stayed: on the pages up to the cursor; after it,   *)
(* left to filter or to read, or on the page, or on the next one.          *)
SeenInv(p, S) ==
    /\ p.at # "listed" /\ p.cursor.last # None =>
         \A i \in S : ~Follows(p.cursor.newest, p.cursor.last, i) => Among(i, p.shown)
    /\ p.at = "filter" => S \subseteq p.scan \cup p.todo
    /\ p.at = "read" =>
         \A i \in S : Past(p, i) =>
            \/ i \in p.todo \/ Among(i, p.tasks)
            \/ p.more /\ \A k \in DOMAIN p.tasks : Follows(p.ask.newest, p.tasks[k], i)
    /\ p.at = "listed" => \A i \in S : Among(i, p.shown)

StayedInv ==
    /\ stayed \in [Clients \cup Readers -> SUBSET IDs]
    /\ \A r \in Readers :
          /\ page[r].at # "idle" => \A i \in stayed[r] : Matches(Selection(page[r]), i)
          /\ SeenInv(page[r], stayed[r])

LEMMA SeenFewer ==
    ASSUME NEW p, NEW S, NEW T \in SUBSET S, SeenInv(p, S)
    PROVE  SeenInv(p, T)
  BY DEF SeenInv

(* What Stay leaves of the tasks of a reader. *)
LEMMA ReaderStays ==
    ASSUME StayedInv, Stay, NEW r \in Readers
    PROVE  /\ stayed' \in [Clients \cup Readers -> SUBSET IDs]
           /\ page'[r].at = "idle" => stayed'[r] = IDs
           /\ page'[r].at # "idle" =>
                /\ stayed'[r] \subseteq stayed[r]
                /\ \A i \in stayed'[r] : Matches(Selection(page[r]), i)'
  <1>1. r \notin Clients
    BY ServiceAssumption
  <1>2. stayed'[r] = IF page'[r].at = "idle" THEN IDs
                     ELSE {i \in stayed[r] : ReaderMatches(r, i)}
    BY <1>1 DEF Stay
  <1>3. \A i : ReaderMatches(r, i) => Matches(Selection(page[r]), i)'
    BY DEF ReaderMatches, Matches, Selection, Exists
  <1>4. stayed' \in [Clients \cup Readers -> SUBSET IDs]
    BY DEF Stay, StayedInv
  <1>5. QED
    BY <1>2, <1>3, <1>4

(* A reader that waits while others work. *)
LEMMA WaitingSees ==
    ASSUME PagesInv, StayedInv, Stay, NEW r \in Readers, page'[r] = page[r]
    PROVE  SeenInv(page'[r], stayed'[r])
  <1>1. CASE page[r].at = "idle"
    BY <1>1 DEF PagesInv, PageInv, SeenInv
  <1>2. CASE page[r].at # "idle"
    BY <1>2, ReaderStays, SeenFewer DEF StayedInv
  <1>3. QED
    BY <1>1, <1>2

(* One task read: if it stayed, it goes onto the page, or the page is full *)
(* of tasks that come before it.                                           *)
LEMMA ReadTaskSees ==
    ASSUME PagesInv, StayedInv, Stay, NEW r \in Readers, ReadTask(r)
    PROVE  SeenInv(page'[r], stayed'[r])
  <1> DEFINE p == page[r]
             q == page'[r]
             T == stayed'[r]
             n == p.ask.newest
  <1>1. /\ p.at = "read" /\ q.at = "read" /\ Same(p, q) /\ UNCHANGED vars
    BY ReadTaskStep DEF PageFrame
  <1>2. PICK i \in p.todo :
          /\ \A j \in p.todo : Comes1st(r, i, j)
          /\ q.todo = p.todo \ {i}
          /\ LET matches == Exists(i) /\ (p.ask.running => i \in served) IN
             \/ /\ ~(matches /\ PastCursor(r, i))
                /\ q.tasks = p.tasks /\ q.more = p.more
             \/ /\ PastCursor(r, i) /\ IsFull(r)
                /\ q.tasks = p.tasks /\ q.more = TRUE
             \/ /\ PastCursor(r, i) /\ ~IsFull(r)
                /\ q.tasks = Append(p.tasks, i)
                /\ q.more = p.more
    BY ReadTaskStep
  <1>3. /\ T \subseteq stayed[r] /\ SeenInv(p, stayed[r])
        /\ \A j \in T : Matches(p.ask, j)
    <2>1. T \subseteq stayed[r] /\ \A j \in T : Matches(Selection(p), j)'
      BY <1>1, ReaderStays
    <2>2. Selection(p)' = p.ask
      BY <1>1 DEF Selection, Same
    <2>3. meta' = meta /\ served' = served
      BY <1>1 DEF vars, store, sups
    <2>4. QED
      BY <2>1, <2>2, <2>3 DEF StayedInv, Matches, Exists, Selection
  <1>4. SeenInv(p, T)
    BY <1>3, SeenFewer
  <1>5. /\ p \in Page /\ p.todo \subseteq IDs /\ p.tasks \in Seq(IDs) /\ n \in BOOLEAN
        /\ p.cursor.last \in IDs \cup {None} /\ p.limit \in Nat
    BY DEF PagesInv, Page, Filter
  <1>6. ReadInv(p)
    BY <1>1 DEF PagesInv, PageInv
  <1>7. PastCursor(r, i) <=> Past(p, i)
    BY <1>5, NamesAssumption DEF PastCursor, Past, Follows, IDs
  <1>8. IsFull(r) <=> p.limit > 0 /\ Len(p.tasks) >= p.limit
    BY DEF IsFull
  <1>9. i \in T => Exists(i) /\ (p.ask.running => i \in served)
    BY <1>3 DEF Matches
  <1> HIDE DEF p, q, T, n
  <1>10. ASSUME NEW j \in T, Past(q, j)
         PROVE  \/ j \in q.todo \/ Among(j, q.tasks)
                \/ q.more /\ \A k \in DOMAIN q.tasks : Follows(q.ask.newest, q.tasks[k], j)
    <2>1. Past(p, j)
      BY <1>1, <1>10 DEF Past, Same
    <2>2. q.ask = p.ask
      BY <1>1 DEF Same
    <2>3. \/ j \in p.todo \/ Among(j, p.tasks)
          \/ p.more /\ \A k \in DOMAIN p.tasks : Follows(p.ask.newest, p.tasks[k], j)
      BY <1>1, <1>4, <1>10, <2>1 DEF SeenInv
    <2>4. CASE q.tasks = p.tasks
      <3>1. CASE j # i
        BY <1>2, <2>2, <2>3, <2>4, <3>1
      <3>2. CASE j = i
        <4>1. q.more = TRUE
          BY <1>2, <1>7, <1>9, <1>10, <2>1, <2>4, <3>2, <1>5
        <4>2. \A k \in DOMAIN p.tasks : Follows(p.ask.newest, p.tasks[k], j)
          BY <1>6, <3>2, <1>2 DEF ReadInv
        <4>3. QED
          BY <2>2, <2>4, <4>1, <4>2
      <3>3. QED
        BY <3>1, <3>2
    <2>5. CASE q.tasks = Append(p.tasks, i) /\ ~IsFull(r)
      <3>1. ~p.more
        BY <1>6, <1>8, <2>5 DEF ReadInv
      <3>2. /\ DOMAIN p.tasks = 1..Len(p.tasks) /\ Len(p.tasks) \in Nat
            /\ DOMAIN q.tasks = 1..(Len(p.tasks) + 1)
            /\ q.tasks[Len(p.tasks) + 1] = i
            /\ \A k \in 1..Len(p.tasks) : q.tasks[k] = p.tasks[k]
        BY <1>5, <2>5
      <3>3. Among(i, q.tasks)
        BY <3>2 DEF Among
      <3>4. Among(j, p.tasks) => Among(j, q.tasks)
        BY <3>2 DEF Among
      <3>5. QED
        BY <1>2, <2>3, <3>1, <3>3, <3>4
    <2>6. QED
      BY <1>2, <2>4, <2>5
  <1>11. SeenInv(q, T)
    BY <1>1, <1>4, <1>10 DEF SeenInv, Same
  <1>12. QED
    BY <1>11 DEF q, T

(* A page that ends leaves no task that stayed behind it: what it has left *)
(* out comes after its last task.                                          *)
LEMMA PageDoneSees ==
    ASSUME PagesInv, StayedInv, Stay, NEW r \in Readers, PageDone(r)
    PROVE  SeenInv(page'[r], stayed'[r])
  <1> DEFINE p == page[r]
             q == page'[r]
             T == stayed'[r]
             last == p.tasks[Len(p.tasks)]
  <1>1. /\ p.at = "read" /\ p.todo = {} /\ q.shown = p.shown \o p.tasks
        /\ \/ /\ p.more /\ p.tasks # <<>> /\ q.at = "paged"
              /\ q.cursor = [p.ask EXCEPT !.last = last]
           \/ ~p.more /\ q.at = "listed" /\ q.ask = p.ask
    BY PageDoneStep
  <1>2. SeenInv(p, T) /\ T \subseteq IDs
    BY <1>1, ReaderStays, SeenFewer DEF StayedInv
  <1>3. /\ p.ask \in Filter /\ p.ask.newest \in BOOLEAN /\ p.tasks \in Seq(IDs)
        /\ p.shown \in Seq(IDs) /\ p.cursor.last \in IDs \cup {None}
    BY DEF PagesInv, Page, Filter
  <1>4. Fits(p)
    BY <1>1 DEF PagesInv, PageInv
  <1> HIDE DEF p, q, T
  <1>5. ASSUME NEW i \in T, ~Past(p, i) PROVE Among(i, q.shown)
    <2>1. p.cursor.last # None /\ ~Follows(p.cursor.newest, p.cursor.last, i)
      BY <1>4, <1>5 DEF Past, Fits
    <2>2. Among(i, p.shown)
      BY <1>1, <1>2, <2>1 DEF SeenInv
    <2>3. QED
      BY <1>1, <1>3, <2>2, AmongConcat
  <1>6. ASSUME NEW i \in T, Past(p, i)
        PROVE  \/ Among(i, q.shown)
               \/ p.more /\ \A k \in DOMAIN p.tasks : Follows(p.ask.newest, p.tasks[k], i)
    <2>1. \/ Among(i, p.tasks)
          \/ p.more /\ \A k \in DOMAIN p.tasks : Follows(p.ask.newest, p.tasks[k], i)
      BY <1>1, <1>2, <1>6 DEF SeenInv
    <2>2. QED
      BY <1>1, <1>3, <2>1, AmongConcat
  <1>7. CASE ~p.more /\ q.at = "listed"
    BY <1>5, <1>6, <1>7 DEF SeenInv, q, T
  <1>8. CASE /\ p.tasks # <<>> /\ q.at = "paged"
             /\ q.cursor = [p.ask EXCEPT !.last = last]
    <2>1. q.cursor.last = last /\ q.cursor.newest = p.ask.newest
      BY <1>3, <1>8 DEF Filter
    <2>2. Len(p.tasks) \in DOMAIN p.tasks
      BY <1>3, <1>8
    <2> HIDE DEF last
    <2>3. ASSUME NEW i \in T, ~Follows(q.cursor.newest, q.cursor.last, i)
          PROVE  Among(i, q.shown)
      BY <1>5, <1>6, <2>1, <2>2, <2>3 DEF last
    <2>4. QED
      BY <1>8, <2>3 DEF SeenInv, q, T
  <1>9. QED
    BY <1>1, <1>7, <1>8

LEMMA ListsSees ==
    ASSUME TypeOK, PagesInv, StayedInv, Stay, NEW r \in Readers, Lists(r)
    PROVE  SeenInv(page'[r], stayed'[r])
  <1> DEFINE p == page[r]
             q == page'[r]
             T == stayed'[r]
  <1>1. PageInv(p) /\ SeenInv(p, stayed[r])
    BY DEF PagesInv, StayedInv
  <1>2. CASE AskPage(r)
    <2>1. /\ p.at \in {"idle", "paged"} /\ q.at = "check"
          /\ q.cursor = p.cursor /\ q.shown = p.shown
      BY <1>2, AskPageStep
    <2>2. T \subseteq stayed[r]
      BY <2>1, ReaderStays
    <2>3. QED
      BY <1>1, <2>1, <2>2 DEF SeenInv
  <1>3. CASE PageRefused(r) \/ FilterDone(r)
    <2>1. /\ Same(p, q) /\ q.scan = p.scan /\ q.todo = p.todo
          /\ q.tasks = p.tasks /\ q.more = p.more
          /\ \/ p.at = "check" /\ q.at = "refused"
             \/ p.at = "filter" /\ q.at = "read" /\ p.scan = {}
      BY <1>3, SomeStep
    <2>2. T \subseteq stayed[r]
      BY <2>1, ReaderStays
    <2>3. QED
      BY <1>1, <2>1, <2>2 DEF SeenInv, Same
  <1>4. CASE ListIDs(r)
    <2>1. /\ Same(p, q) /\ UNCHANGED vars
          /\ p.at = "check"
          /\ \/ p.ask.labels = {} /\ q.at = "read" /\ q.todo = dirs
             \/ p.ask.labels # {} /\ q.at = "filter" /\ q.scan = dirs
      BY <1>4, ListIDsStep DEF PageFrame
    <2>2. T \subseteq stayed[r] /\ \A i \in T : Exists(i)'
      BY <2>1, ReaderStays DEF Matches
    <2>3. T \subseteq dirs
      BY <2>1, <2>2 DEF TypeOK, Exists, vars, store, StayedInv
    <2>4. QED
      BY <1>1, <2>1, <2>2, <2>3 DEF SeenInv, Same
  <1>5. CASE FilterTask(r)
    <2>1. /\ Same(p, q) /\ UNCHANGED vars
          /\ p.at = "filter" /\ q.at = "filter"
          /\ p.todo \subseteq q.todo
      BY <1>5, FilterTaskStep DEF PageFrame
    <2>2. PICK i \in p.scan :
            /\ q.scan = p.scan \ {i}
            /\ Exists(i) /\ meta[i].labels \cap p.ask.labels # {} => i \in q.todo
      BY <1>5, FilterTaskStep
    <2>3. T \subseteq stayed[r] /\ \A j \in T : Matches(Selection(p), j)'
      BY <2>1, ReaderStays
    <2>4. Selection(p)' = p.ask
      BY <2>1 DEF Selection, Same
    <2>5. i \in T => i \in q.todo
      BY <1>1, <2>1, <2>2, <2>3, <2>4 DEF Matches, Exists, PageInv, vars, store
    <2>6. QED
      BY <1>1, <2>1, <2>2, <2>3, <2>5 DEF SeenInv, Same
  <1>6. CASE ReadTask(r)
    BY <1>6, ReadTaskSees
  <1>7. CASE PageDone(r)
    BY <1>7, PageDoneSees
  <1>8. QED
    BY <1>2, <1>3, <1>4, <1>5, <1>6, <1>7 DEF Lists

LEMMA StayedInit == ServiceInit => StayedInv
  <1> SUFFICES ASSUME ServiceInit PROVE StayedInv
    OBVIOUS
  <1>1. \A r \in Readers : page[r] = NoPage
    BY DEF ServiceInit
  <1>2. NoPage.at = "idle" /\ NoPage.cursor.last = None
    BY DEF NoPage, NoCursor
  <1>3. stayed \in [Clients \cup Readers -> SUBSET IDs]
    BY DEF ServiceInit
  <1>4. QED
    BY <1>1, <1>2, <1>3 DEF StayedInv, SeenInv

LEMMA StayedNext ==
    ASSUME TypeOK, PagesInv, StayedInv, [ServiceNext]_svars
    PROVE  StayedInv'
  <1>1. CASE UNCHANGED svars
    BY <1>1 DEF svars, vars, store, sups, StayedInv, Matches, Selection, Exists, SeenInv, Past
  <1>2. ASSUME ServiceNext PROVE StayedInv'
    <2>1. Stay
      BY <1>2 DEF ServiceNext
    <2>2. stayed' \in [Clients \cup Readers -> SUBSET IDs]
      BY <2>1 DEF Stay, StayedInv
    <2>3. ASSUME NEW r \in Readers PROVE SeenInv(page'[r], stayed'[r])
      <3>1. CASE page'[r] = page[r]
        BY <2>1, <3>1, WaitingSees
      <3>2. CASE Lists(r)
        BY <2>1, <3>2, ListsSees
      <3>3. ASSUME NEW x \in Readers \ {r}, Lists(x) PROVE page'[r] = page[r]
        BY <3>3, PageInvStep DEF PageFrame
      <3>4. QED
        BY <1>2, <3>1, <3>2, <3>3 DEF ServiceNext
    <2>4. ASSUME NEW r \in Readers, page'[r].at # "idle"
          PROVE  \A i \in stayed'[r] : Matches(Selection(page[r]), i)'
      BY <2>1, <2>4, ReaderStays
    <2>5. QED
      BY <2>2, <2>3, <2>4 DEF StayedInv, SeenInv, Past, Selection, Matches
  <1>3. QED
    BY <1>1, <1>2

(* A task that matched the filters from the first page to the last is on   *)
(* one of them, whatever came, went or changed around it: a page leaves    *)
(* out only what comes after its last task, and the next one starts there. *)
THEOREM PagesMissNothing == ServiceSpec => []PagesComplete
  <1>1. StayedInv => PagesComplete
    BY DEF StayedInv, SeenInv, Among, PagesComplete, Shown
  <1>2. TypeInv /\ PagesInv /\ [ServiceNext]_svars => PagesInv'
    BY PagesNext DEF TypeInv
  <1>3. TypeInv /\ PagesInv /\ StayedInv /\ [ServiceNext]_svars => StayedInv'
    BY StayedNext DEF TypeInv
  <1>4. QED
    BY <1>1, <1>2, <1>3, PagesInit, StayedInit, ServiceTypes, PTL DEF ServiceSpec

-----------------------------------------------------------------------------
(* Batches *)

Done(q) == {q.items[k].id : k \in DOMAIN q.items}

(* What a batch has still to do, has done, or is at.                       *)
Reached(q) ==
    CASE q.at = "filter" -> q.scan \cup q.todo
      [] q.at = "resolve" -> q.todo \cup Done(q) \cup {q.ref}
      [] q.at \in {"search", "next", "replied"} -> q.todo \cup Done(q)
      [] OTHER -> q.todo \cup Done(q) \cup {q.id}

IsSnapshot(q) == q.op \in BatchOps /\ q.sel # "refs"

(* Does task i match the selection of a batch? *)
Selected(q, i) ==
    Exists(i) /\ (q.sel = "labels" => meta[i].labels \cap q.labels # {})

BatchInv(c) ==
    LET q == call[c] IN
    IsSnapshot(q) /\ q.at # "idle" =>
       /\ q.at # "replied" => \A i \in stayed[c] : Selected(q, i)
       /\ q.at # "snapshot" => stayed[c] \subseteq Reached(q)
       /\ q.at = "filter" => q.sel = "labels"

(* The fields a step that ends no item leaves alone. *)
Kept(c) == call'[c].items = call[c].items /\ call'[c].labels = call[c].labels

LEMMA GotoKept ==
    ASSUME call \in [Clients -> Calls], NEW c \in Clients, NEW s,
           Goto(c, s) \/ Reads(c, s)
    PROVE  Kept(c)
  BY DEF Goto, Reads, Kept, Calls

LEMMA EndsKept ==
    ASSUME call \in [Clients -> Calls], NEW c \in Clients, NEW r \in Results, Ends(c, r)
    PROVE  /\ Done(call'[c]) = Done(call[c]) \cup {call[c].id}
           /\ call'[c].at = "next" => /\ call'[c].todo = call[c].todo
                                     /\ call'[c].labels = call[c].labels
           /\ call'[c].at = "replied" /\ IsSnapshot(call[c]) => call[c].todo = {}
  <1> DEFINE next == AfterItem(c, r)
             item == [id |-> call[c].id, res |-> r]
             items == Append(call[c].items, item)
             rest == IF next = "replied" THEN Idle
                     ELSE [Idle EXCEPT !.labels = call[c].labels,
                                       !.refs = call[c].refs, !.todo = call[c].todo]
             q == [rest EXCEPT !.at = next, !.items = items,
                               !.op = call[c].op, !.sel = call[c].sel]
  <1>1. call' = [call EXCEPT ![c] = q]
    BY DEF Ends
  <1>2. next = "replied" /\ IsSnapshot(call[c]) => call[c].todo = {}
    BY DEF AfterItem, IsSnapshot
  <1>3. \E T : items \in Seq(T) /\ call[c].items \in Seq(T) /\ item \in T
    <2> DEFINE T == [id : IDs \cup {None}, res : Results]
    <2>1. call[c].items \in Seq(T) /\ item \in T
      BY DEF Calls
    <2> HIDE DEF T, item
    <2>3. items \in Seq(T)
      BY <2>1
    <2>4. QED
      BY <2>1, <2>3
  <1>4. item.id = call[c].id
    OBVIOUS
  <1> HIDE DEF item
  <1>5. {items[k].id : k \in DOMAIN items} = Done(call[c]) \cup {call[c].id}
    <2>1. PICK T : items \in Seq(T) /\ call[c].items \in Seq(T) /\ item \in T
      BY <1>3
    <2> DEFINE m == Len(call[c].items)
    <2>2. /\ m \in Nat /\ DOMAIN call[c].items = 1..m /\ DOMAIN items = 1..(m + 1)
          /\ items[m + 1] = item /\ \A k \in 1..m : items[k] = call[c].items[k]
      BY <2>1
    <2> HIDE DEF items, m
    <2>3. QED
      BY <1>4, <2>2 DEF Done
  <1> HIDE DEF next, items
  <1>6. /\ rest \in Calls
        /\ next # "replied" => rest.labels = call[c].labels /\ rest.todo = call[c].todo
    BY IdleType DEF Calls
  <1> HIDE DEF rest
  <1>7. q.at = next /\ q.items = items /\ q.labels = rest.labels /\ q.todo = rest.todo
    BY <1>6 DEF Calls
  <1> HIDE DEF q
  <1>8. call'[c] = q
    BY <1>1
  <1>9. QED
    BY <1>2, <1>5, <1>6, <1>7, <1>8 DEF Done

(* What a snapshot begins with. *)
LEMMA SnapshotBegins ==
    ASSUME TypeInv, NEW c \in Clients, Ask(c), IsSnapshot(call'[c])
    PROVE  call'[c].at = "snapshot"
  <1>1. PICK q \in Requests[mix][c] : call' = [call EXCEPT ![c] = q]
    BY DEF Ask
  <1>2. call'[c] = q /\ IsRequest(q)
    BY <1>1, RequestsAssumption DEF TypeInv, TypeOK
  <1>3. \A n, ls, b : Run(n, ls, b).op = "run"
    BY DEF Run, Idle
  <1>4. \A ref, n : Rename(ref, n).op = "rename"
    BY DEF Rename, Idle
  <1>5. \A ref, ls : SetLabels(ref, ls).op = "set_labels"
    BY DEF SetLabels, Idle
  <1>6. \A op, refs : OnRefs(op, refs).sel = "refs"
    BY DEF OnRefs, Idle
  <1>7. \A op, ls : OnLabels(op, ls).at = "snapshot"
    BY DEF OnLabels, Idle
  <1>8. \A op : OnAll(op).at = "snapshot"
    BY DEF OnAll, Idle
  <1>9. QED
    BY ONLY IsSnapshot(call'[c]), <1>2, <1>3, <1>4, <1>5, <1>6, <1>7, <1>8, Memberships
       DEF IsRequest, IsSnapshot

(* What one of its steps does to a snapshot: it keeps what it was asked    *)
(* for, and a task it had before it that matches is still before it, done, *)
(* or the one it is at.                                                    *)
Reaches(c) ==
    LET q == call'[c] IN
    /\ q.op = call[c].op /\ q.sel = call[c].sel
    /\ q.at \notin {"idle", "snapshot"}
    /\ q.at # "replied" => q.labels = call[c].labels
    /\ q.at = "filter" => q.sel = "labels"
    /\ \A i \in IDs : /\ Selected(call[c], i)
                      /\ call[c].at # "snapshot" => i \in Reached(call[c])
                      => i \in Reached(q)

LEMMA EndsReaches ==
    ASSUME TypeInv, NEW c \in Clients, NEW r \in Results, Ends(c, r), IsSnapshot(call[c]),
           call[c].at \notin {"filter", "resolve", "snapshot"}
    PROVE  Reaches(c)
  <1>1. /\ call \in [Clients -> Calls] /\ call[c].sel # "refs"
    BY DEF TypeInv, TypeOK, IsSnapshot
  <1>2. /\ call'[c].at \in {"next", "replied"}
        /\ call'[c].op = call[c].op /\ call'[c].sel = call[c].sel
    BY <1>1, EndsCall
  <1>3. /\ Done(call'[c]) = Done(call[c]) \cup {call[c].id}
        /\ call'[c].at = "next" => /\ call'[c].todo = call[c].todo
                                  /\ call'[c].labels = call[c].labels
        /\ call'[c].at = "replied" => call[c].todo = {}
    BY <1>1, EndsKept
  <1>4. Reached(call[c]) \subseteq call[c].todo \cup Done(call[c]) \cup {call[c].id}
    BY DEF Reached
  <1>5. Reached(call'[c]) = call'[c].todo \cup Done(call'[c])
    BY <1>2 DEF Reached
  <1>6. QED
    BY <1>2, <1>3, <1>4, <1>5 DEF Reaches

LEMMA SameReaches ==
    ASSUME NEW c \in Clients, Kept(c), Asked(c), call'[c].todo = call[c].todo,
           call[c].at \notin {"filter", "resolve", "snapshot", "search", "next", "replied"},
           call'[c].at \notin {"filter", "resolve", "snapshot", "search", "next", "replied", "idle"}
    PROVE  Reaches(c)
  <1>1. Reached(call[c]) = call[c].todo \cup Done(call[c]) \cup {call[c].id}
    BY DEF Reached
  <1>2. Reached(call'[c]) = call'[c].todo \cup Done(call'[c]) \cup {call'[c].id}
    BY DEF Reached
  <1>3. QED
    BY <1>1, <1>2 DEF Reaches, Kept, Asked, Done

LEMMA ResolveReaches ==
    ASSUME TypeInv, NEW c \in Clients, IsSnapshot(call[c]),
           ResolveId(c) \/ SearchOne(c) \/ Resolved(c)
    PROVE  Reaches(c)
  <1>1. call \in [Clients -> Calls]
    BY DEF TypeInv, TypeOK
  <1>2. CASE ResolveId(c)
    <2>1. Kept(c)
      BY <1>1, <1>2, GotoKept DEF ResolveId, Kept, Calls
    <2>2. /\ call'[c].op = call[c].op /\ call'[c].sel = call[c].sel
          /\ call'[c].todo = call[c].todo /\ call[c].at = "resolve"
          /\ \/ call'[c].at = "lock" /\ call'[c].id = call[c].ref
             \/ call'[c].at = "search"
      BY <1>2, ResolveIdCall DEF ResolveId, At
    <2>3. call'[c].at = "search" => ~(call[c].ref \in IDs /\ Exists(call[c].ref))
      BY <1>1, <1>2 DEF ResolveId, Calls
    <2>4. Done(call'[c]) = Done(call[c])
      BY <2>1 DEF Kept, Done
    <2>5. Reached(call[c]) = call[c].todo \cup Done(call[c]) \cup {call[c].ref}
      BY <2>2 DEF Reached
    <2>6. CASE call'[c].at = "lock" /\ call'[c].id = call[c].ref
      <3>1. Reached(call'[c]) = call'[c].todo \cup Done(call'[c]) \cup {call'[c].id}
        BY <2>6 DEF Reached
      <3>2. QED
        BY <2>1, <2>2, <2>4, <2>5, <2>6, <3>1 DEF Reaches, Kept
    <2>7. CASE call'[c].at = "search"
      <3>1. Reached(call'[c]) = call'[c].todo \cup Done(call'[c])
        BY <2>7 DEF Reached
      <3>2. QED
        BY <2>1, <2>2, <2>3, <2>4, <2>5, <2>7, <3>1 DEF Reaches, Kept, Selected
    <2>8. QED
      BY <2>2, <2>6, <2>7
  <1>3. CASE SearchOne(c)
    <2>1. call[c].at = "search" /\ call'[c].at = "search"
          /\ Asked(c) /\ call'[c].todo = call[c].todo
      BY <1>3, SearchOneCall DEF SearchOne, At
    <2>2. Kept(c)
      BY <1>1, <1>3 DEF SearchOne, Kept, Calls
    <2>3. /\ Reached(call'[c]) = call'[c].todo \cup Done(call'[c])
          /\ Reached(call[c]) = call[c].todo \cup Done(call[c])
      BY <2>1 DEF Reached
    <2>4. QED
      BY <2>1, <2>2, <2>3 DEF Reaches, Kept, Asked, Done
  <1>4. CASE Resolved(c)
    <2>1. call[c].at = "search" /\ call[c].op \in BatchOps /\ call[c].op # "run"
      BY ZenonT(60), <1>4, Memberships DEF Resolved, At, IsSnapshot
    <2>2. CASE \E r \in Results : Ends(c, r)
      BY <2>1, <2>2, EndsReaches
    <2>3. ASSUME NEW i \in call[c].hits,
                 call' = [call EXCEPT ![c].id = i, ![c].hits = {}, ![c].at = "lock"]
          PROVE  Reaches(c)
      <3>1. /\ call'[c].op = call[c].op /\ call'[c].sel = call[c].sel
            /\ call'[c].todo = call[c].todo /\ call'[c].at = "lock"
        BY <2>3, FoundCall
      <3>2. Kept(c)
        BY <1>1, <2>3 DEF Kept, Calls
      <3>3. /\ Reached(call'[c]) = call'[c].todo \cup Done(call'[c]) \cup {call'[c].id}
            /\ Reached(call[c]) = call[c].todo \cup Done(call[c])
        BY <2>1, <3>1 DEF Reached
      <3>4. QED
        BY <2>1, <3>1, <3>2, <3>3 DEF Reaches, Kept, Done
    <2>4. {"not_found", "conflict"} \subseteq Results
      BY DEF Results, Codes
    <2>5. QED
      BY <1>4, <2>1, <2>2, <2>3, <2>4 DEF Resolved
  <1>5. QED
    BY <1>2, <1>3, <1>4

LEMMA ListReaches ==
    ASSUME TypeInv, NEW c \in Clients, IsSnapshot(call[c]),
           call[c].at = "filter" => call[c].sel = "labels",
           Snapshot(c) \/ FilterOne(c) \/ Filtered(c) \/ NextItem(c)
    PROVE  Reaches(c)
  <1>1. /\ call \in [Clients -> Calls] /\ dirs \subseteq IDs
        /\ call[c].sel \in {"labels", "all"}
        /\ \A i \in IDs : Exists(i) => i \in dirs
    BY DEF TypeInv, TypeOK, Calls, Selections, IsSnapshot
  <1>2. CASE Snapshot(c)
    <2>1. call[c].at = "snapshot"
      BY <1>2 DEF Snapshot, At
    <2>2. CASE call[c].sel = "all"
      <3> DEFINE s == IF dirs = {} THEN "replied" ELSE "next"
      <3>1. SnapsTodo(c, dirs, s) /\ s \in {"replied", "next"} /\ s \in Steps
        BY <1>2, <2>2 DEF Snapshot, SnapsTodo, Steps
      <3> HIDE DEF s
      <3>2. /\ call'[c].todo = dirs /\ call'[c].at \in {"replied", "next"}
            /\ call'[c].op = call[c].op /\ call'[c].sel = call[c].sel
        BY <1>1, <3>1, SnapsTodoCall
      <3>3. call'[c].labels = call[c].labels
        BY <1>1, <3>1, SnapsTodoCall
      <3>4. Reached(call'[c]) = call'[c].todo \cup Done(call'[c])
        BY <3>2 DEF Reached
      <3>5. QED
        BY <1>1, <3>2, <3>3, <3>4 DEF Reaches, Selected
    <2>3. CASE call[c].sel = "labels"
      <3>1. Reads(c, "filter") /\ "filter" \in Steps
        BY <1>2, <2>3 DEF Snapshot, Steps
      <3>2. Asked(c) /\ call'[c].at = "filter" /\ call'[c].scan = dirs
        BY <1>1, <3>1, ReadsCall
      <3>3. Reached(call'[c]) = call'[c].scan \cup call'[c].todo
        BY <3>2 DEF Reached
      <3>4. QED
        BY <1>1, <2>3, <3>2, <3>3 DEF Reaches, Selected, Asked
    <2>4. QED
      BY <1>1, <2>2, <2>3
  <1>3. CASE FilterOne(c)
    <2>1. /\ call[c].at = "filter" /\ call'[c].at = "filter" /\ Asked(c)
      BY <1>3, FilterOneCall DEF FilterOne, At
    <2>2. PICK i \in IDs : call' = [call EXCEPT ![c].scan = @ \ {i},
              ![c].todo = IF Exists(i) /\ meta[i].labels \cap call[c].labels # {}
                          THEN @ \cup {i} ELSE @]
      BY <1>3 DEF FilterOne
    <2> DEFINE z == IF Exists(i) /\ meta[i].labels \cap call[c].labels # {}
                    THEN call[c].todo \cup {i} ELSE call[c].todo
    <2>3. call[c].scan \ {i} \in SUBSET IDs /\ z \in SUBSET IDs
      BY <1>1 DEF Calls
    <2>4. Filters(c, call[c].scan \ {i}, z)
      BY <2>2 DEF Filters
    <2>5. /\ call[c].todo \subseteq z
          /\ Exists(i) /\ meta[i].labels \cap call[c].labels # {} => i \in z
      OBVIOUS
    <2> HIDE DEF z
    <2>6. call'[c].scan = call[c].scan \ {i} /\ call'[c].todo = z
      BY <1>1, <2>3, <2>4, FiltersCall
    <2>7. /\ Reached(call'[c]) = call'[c].scan \cup call'[c].todo
          /\ Reached(call[c]) = call[c].scan \cup call[c].todo
      BY <2>1 DEF Reached
    <2>8. call[c].sel = "labels"
      BY <2>1
    <2>9. QED
      BY <2>1, <2>5, <2>6, <2>7, <2>8 DEF Reaches, Selected, Asked
  <1>4. CASE Filtered(c)
    <2>1. /\ call[c].at = "filter" /\ call[c].scan = {}
          /\ call'[c].at \in {"replied", "next"}
          /\ call'[c].todo = call[c].todo /\ Asked(c)
      BY <1>1, <1>4, GotoCall, TheSteps DEF Filtered, At
    <2>2. /\ Reached(call'[c]) = call'[c].todo \cup Done(call'[c])
          /\ Reached(call[c]) = call[c].scan \cup call[c].todo
      BY <2>1 DEF Reached
    <2>3. QED
      BY <2>1, <2>2 DEF Reaches, Asked
  <1>5. CASE NextItem(c)
    <2>1. call[c].at = "next" /\ call[c].sel # "refs"
      BY <1>1, <1>5 DEF NextItem, At
    <2>2. PICK i \in call[c].todo :
             call' = [call EXCEPT ![c].todo = @ \ {i},
                    ![c].ref = i,
                    ![c].id = IF call[c].op = "cleanup" THEN i ELSE None,
                    ![c].at = IF call[c].op = "cleanup" THEN "lock" ELSE "resolve"]
      BY ZenonT(60), <1>5, <2>1 DEF NextItem
    <2> DEFINE k == IF call[c].op = "cleanup" THEN i ELSE None
               s == IF call[c].op = "cleanup" THEN "lock" ELSE "resolve"
               z == call[c].todo \ {i}
    <2>3. /\ z \in SUBSET IDs /\ i \in Refs /\ k \in IDs \cup {None} /\ s \in Steps
          /\ s = "resolve" \/ (s = "lock" /\ k = i)
      BY <1>1 DEF Calls, Refs, Steps
    <2>4. NextTask(c, z, i, k, s)
      BY <2>2 DEF NextTask
    <2>5. Kept(c)
      BY <1>1, <2>4 DEF NextTask, Kept, Calls
    <2> HIDE DEF k, s
    <2>6. /\ call'[c].todo = z /\ call'[c].ref = i /\ call'[c].id = k /\ call'[c].at = s
          /\ call'[c].op = call[c].op /\ call'[c].sel = call[c].sel
      BY <1>1, <2>3, <2>4, NextTaskCall
    <2>7. Reached(call[c]) = call[c].todo \cup Done(call[c])
      BY <2>1 DEF Reached
    <2>8. Reached(call'[c]) = call'[c].todo \cup Done(call'[c]) \cup {i}
      BY <2>3, <2>6 DEF Reached
    <2>9. Done(call'[c]) = Done(call[c])
      BY <2>5 DEF Kept, Done
    <2>10. QED
      BY <2>1, <2>3, <2>5, <2>6, <2>7, <2>8, <2>9 DEF Reaches, Kept
  <1>6. QED
    BY <1>2, <1>3, <1>4, <1>5

LEMMA TurnReaches ==
    ASSUME TypeInv, NEW c \in Clients, IsSnapshot(call[c]),
           LockTask(c) \/ GivesUpTask(c) \/ ReadGone(c) \/ ReadMeta(c) \/ Act(c)
             \/ Unlink(c) \/ Rmdir(c)
    PROVE  Reaches(c)
  <1>1. /\ call \in [Clients -> Calls] /\ call[c].op \in BatchOps
        /\ call[c].op \notin {"run", "rename", "set_labels"}
    BY Memberships DEF TypeInv, TypeOK, IsSnapshot
  <1>2. call[c].at \in {"lock", "read", "act", "unlink", "rmdir"}
    BY DEF LockTask, GivesUpTask, ReadGone, ReadMeta, Act, Unlink, Rmdir, At
  <1>3. {"deadline_exceeded", "busy", "no_op", "not_found", "changed", "internal",
         "failed_precondition"} \subseteq Results
    BY DEF Results, Codes
  <1>4. \/ \E r \in Results : Ends(c, r)
        \/ \E s \in {"read", "act", "unlink", "rmdir"} : Goto(c, s)
    <2>1. CASE LockTask(c) \/ GivesUpTask(c)
      BY <1>3, <2>1 DEF LockTask, GivesUpTask
    <2>2. CASE ReadGone(c) \/ ReadMeta(c)
      BY <1>1, <1>3, <2>2 DEF ReadGone, ReadMeta
    <2>3. CASE Act(c)
      BY <1>1, <1>3, <2>3 DEF Act
    <2>4. CASE Unlink(c) \/ Rmdir(c)
      BY <1>1, <1>3, <2>4 DEF Unlink, Rmdir
    <2>5. QED
      BY <2>1, <2>2, <2>3, <2>4
  <1>5. ASSUME NEW r \in Results, Ends(c, r) PROVE Reaches(c)
    BY <1>2, <1>5, EndsReaches
  <1>6. ASSUME NEW s \in {"read", "act", "unlink", "rmdir"}, Goto(c, s) PROVE Reaches(c)
    <2>1. s \in Steps
      BY TheSteps DEF HasTask
    <2>2. Asked(c) /\ call'[c].at = s /\ call'[c].todo = call[c].todo
      BY <1>1, <1>6, <2>1, GotoCall
    <2>3. Kept(c)
      BY <1>1, <1>6, GotoKept
    <2>4. QED
      BY <1>2, <2>2, <2>3, SameReaches
  <1>7. QED
    BY <1>4, <1>5, <1>6

LEMMA SnapshotReaches ==
    ASSUME TypeInv, NEW c \in Clients, IsSnapshot(call[c]),
           call[c].at = "filter" => call[c].sel = "labels",
           Works(c) \/ GivesUp(c)
    PROVE  Reaches(c)
  <1>1. call[c].op \in BatchOps /\ call[c].op \notin {"run", "rename", "set_labels"}
    BY Memberships DEF IsSnapshot
  <1>2. call[c].at \notin {"create", "own", "launch", "discard", "discardDir",
                           "store", "taken", "reread", "write"}
    BY <1>1 DEF TypeInv, StepInv
  <1>3. \/ ResolveId(c) \/ SearchOne(c) \/ Resolved(c)
        \/ Snapshot(c) \/ FilterOne(c) \/ Filtered(c) \/ NextItem(c)
        \/ LockTask(c) \/ GivesUpTask(c) \/ ReadGone(c) \/ ReadMeta(c) \/ Act(c)
        \/ Unlink(c) \/ Rmdir(c)
    <2>1. ~(LockStore(c) \/ GivesUpStore(c) \/ TakenOne(c) \/ NotTaken(c))
      BY <1>2 DEF LockStore, GivesUpStore, TakenOne, NotTaken, At
    <2>2. ~(Reread(c) \/ Write(c) \/ WriteFails(c) \/ Create(c) \/ LockOwn(c))
      BY <1>2 DEF Reread, Write, WriteFails, Create, LockOwn, At
    <2>3. ~(OwnLockTimesOut(c) \/ Launch(c) \/ Discard(c) \/ DiscardDir(c))
      BY <1>2 DEF OwnLockTimesOut, Launch, Discard, DiscardDir, At
    <2>4. QED
      BY <2>1, <2>2, <2>3 DEF Works, GivesUp
  <1>4. QED
    BY <1>3, ResolveReaches, ListReaches, TurnReaches

(* What Stay leaves of the tasks of a client. *)
LEMMA ClientStays ==
    ASSUME Stay, NEW c \in Clients, call'[c].at # "idle"
    PROVE  /\ stayed'[c] \subseteq stayed[c]
           /\ \A i \in stayed'[c] : ClientMatches(c, i)
  BY DEF Stay

LEMMA BatchAsks ==
    ASSUME TypeInv, NEW c \in Clients, Ask(c), Stay
    PROVE  BatchInv(c)'
  <1>1. SUFFICES ASSUME IsSnapshot(call'[c]), call'[c].at # "idle" PROVE BatchInv(c)'
    BY DEF BatchInv, IsSnapshot
  <1>2. call'[c].at = "snapshot" /\ At(c, "idle")
    BY <1>1, SnapshotBegins DEF Ask
  <1>3. \A i \in stayed'[c] : Selected(call[c], i)'
    BY <1>1, <1>2, ClientStays DEF ClientMatches, Selected, Exists
  <1>4. QED
    BY <1>2, <1>3 DEF BatchInv

(* No step changes what a request is, nor what a batch was asked to do.    *)
LEMMA WorksAsked ==
    ASSUME TypeInv, NEW c \in Clients, Works(c) \/ GivesUp(c)
    PROVE  call'[c].op = call[c].op /\ call'[c].sel = call[c].sel
  <1> DEFINE AsksSame == call'[c].op = call[c].op /\ call'[c].sel = call[c].sel
  <1>1. call \in [Clients -> Calls]
    BY DEF TypeInv, TypeOK
  <1>2. ASSUME NEW s, Goto(c, s) \/ Reads(c, s) PROVE AsksSame
    BY <1>1, <1>2 DEF Goto, Reads, Calls
  <1>3. ASSUME NEW r, Ends(c, r) PROVE AsksSame
    <2> DEFINE next == AfterItem(c, r)
               items == Append(call[c].items, [id |-> call[c].id, res |-> r])
               rest == IF next = "replied" THEN Idle
                       ELSE [Idle EXCEPT !.labels = call[c].labels,
                                         !.refs = call[c].refs, !.todo = call[c].todo]
               q == [rest EXCEPT !.at = next, !.items = items,
                                 !.op = call[c].op, !.sel = call[c].sel]
    <2>1. call' = [call EXCEPT ![c] = q]
      BY <1>3 DEF Ends
    <2> HIDE DEF next, items
    <2>2. rest \in Calls
      BY <1>1, IdleType DEF Calls
    <2> HIDE DEF rest
    <2>3. q.op = call[c].op /\ q.sel = call[c].sel
      BY <2>2 DEF Calls
    <2> HIDE DEF q
    <2>4. QED
      BY <1>1, <2>1, <2>3
  <1>4. CASE LockStore(c) \/ LockTask(c) \/ GivesUp(c)
    BY <1>2, <1>3, <1>4
       DEF LockStore, LockTask, GivesUp, GivesUpStore, GivesUpTask, OwnLockTimesOut
  <1>5. CASE ResolveId(c) \/ SearchOne(c) \/ Create(c) \/ NextItem(c)
    BY <1>5, ResolveIdCall, SearchOneCall, CreateCall, NextItemCall DEF Asked
  <1>6. CASE Snapshot(c) \/ FilterOne(c)
    BY <1>6, SnapshotCall, FilterOneCall DEF Asked
  <1>7. CASE Resolved(c)
    <2>1. ASSUME NEW i \in call[c].hits,
                 call' = [call EXCEPT ![c].id = i, ![c].hits = {}, ![c].at = "lock"]
          PROVE  AsksSame
      BY <2>1, FoundCall
    <2>2. QED
      BY <1>2, <1>3, <1>7, <2>1 DEF Resolved
  <1>8. CASE TakenOne(c)
    <2>1. ASSUME NEW i \in IDs, call' = [call EXCEPT ![c].scan = @ \ {i}]
          PROVE  AsksSame
      BY <2>1, PassesCall DEF Asked
    <2>2. QED
      BY <1>2, <1>3, <1>8, <2>1 DEF TakenOne
  <1>9. CASE NotTaken(c) \/ ReadGone(c) \/ ReadMeta(c) \/ Write(c) \/ WriteFails(c)
    BY <1>2, <1>3, <1>9 DEF NotTaken, ReadGone, ReadMeta, Write, WriteFails
  <1>10. CASE Reread(c)
    <2>1. CASE Exists(call[c].id)
      BY <1>10, <2>1, RereadCall DEF Asked
    <2>2. CASE ~Exists(call[c].id)
      BY <1>3, <1>10, <2>2 DEF Reread
    <2>3. QED
      BY <2>1, <2>2
  <1>11. CASE LockOwn(c) \/ Launch(c) \/ Unlink(c) \/ Rmdir(c) \/ Discard(c) \/ DiscardDir(c)
    BY <1>2, <1>3, <1>11 DEF LockOwn, Launch, Unlink, Rmdir, Discard, DiscardDir
  <1>12. CASE Act(c) \/ Filtered(c)
    BY <1>2, <1>3, <1>12 DEF Act, Filtered
  <1>13. QED
    BY <1>4, <1>5, <1>6, <1>7, <1>8, <1>9, <1>10, <1>11, <1>12 DEF Works

LEMMA BatchWorks ==
    ASSUME TypeInv, StayedInv, NEW c \in Clients, Works(c) \/ GivesUp(c), Stay, BatchInv(c)
    PROVE  BatchInv(c)'
  <1>1. /\ call \in [Clients -> Calls] /\ call[c].at # "idle"
        /\ stayed[c] \subseteq IDs
    <2>1. call[c].at # "idle"
      <3>1. CASE GivesUp(c)
        BY <3>1 DEF GivesUp, GivesUpStore, GivesUpTask, OwnLockTimesOut, At
      <3>2. CASE Works(c)
        BY <3>2 DEF Works, At, LockStore, LockTask, ResolveId, SearchOne, Resolved,
              TakenOne, NotTaken, ReadGone, ReadMeta, Reread, Write, WriteFails,
              Create, LockOwn, Launch, Act, Unlink, Rmdir, Discard, DiscardDir,
              Snapshot, FilterOne, Filtered, NextItem
      <3>3. QED
        BY <3>1, <3>2
    <2>2. QED
      BY <2>1 DEF TypeInv, TypeOK, StayedInv
  <1>2. CASE IsSnapshot(call[c])
    <2>1. Reaches(c)
      BY <1>1, <1>2, SnapshotReaches DEF BatchInv
    <2>2. /\ stayed'[c] \subseteq stayed[c]
          /\ \A i \in stayed'[c] : ClientMatches(c, i)
      BY <2>1, ClientStays DEF Reaches
    <2>3. \A i \in stayed'[c] : Selected(call[c], i)
      BY <1>1, <1>2, <2>2 DEF BatchInv, ClientMatches, At
    <2>4. call'[c].at # "replied" => \A i \in stayed'[c] : Selected(call[c], i)'
      BY <1>1, <2>1, <2>2 DEF Reaches, ClientMatches, Selected, Exists, At
    <2>5. stayed'[c] \subseteq Reached(call'[c])
      BY <1>1, <1>2, <2>1, <2>2, <2>3 DEF BatchInv, Reaches
    <2>6. QED
      BY <2>1, <2>4, <2>5 DEF BatchInv, Reaches
  <1>3. CASE ~IsSnapshot(call[c])
    <2>1. call'[c].op = call[c].op /\ call'[c].sel = call[c].sel
      BY <1>1, <1>3, WorksAsked
    <2>2. QED
      BY <1>3, <2>1 DEF BatchInv, IsSnapshot
  <1>4. QED
    BY <1>2, <1>3

LEMMA BatchWaits ==
    ASSUME StayedInv, NEW c \in Clients, call'[c] = call[c], Stay, BatchInv(c)
    PROVE  BatchInv(c)'
  <1>1. SUFFICES ASSUME IsSnapshot(call[c]), call[c].at # "idle" PROVE BatchInv(c)'
    BY DEF BatchInv, IsSnapshot
  <1>2. /\ stayed'[c] \subseteq stayed[c]
        /\ \A i \in stayed'[c] : ClientMatches(c, i)
    BY <1>1, ClientStays
  <1>3. \A i \in stayed'[c] : Selected(call[c], i)'
    BY <1>1, <1>2 DEF ClientMatches, Selected, Exists, At
  <1>4. QED
    BY <1>1, <1>2, <1>3 DEF BatchInv

AllBatches == \A c \in Clients : BatchInv(c)

LEMMA BatchesNext ==
    ASSUME TypeInv, StayedInv, AllBatches, [ServiceNext]_svars
    PROVE  AllBatches'
  <1>1. CASE UNCHANGED svars
    BY <1>1 DEF svars, vars, store, sups, AllBatches, BatchInv, Selected, Exists
  <1>2. ASSUME ServiceNext, NEW c \in Clients PROVE BatchInv(c)'
    <2>1. Stay /\ BatchInv(c)
      BY <1>2 DEF ServiceNext, AllBatches
    <2>2. CASE call'[c] = call[c]
      BY <2>1, <2>2, BatchWaits
    <2>3. CASE Ask(c)
      BY <2>1, <2>3, BatchAsks
    <2>4. CASE Works(c) \/ GivesUp(c)
      BY <2>1, <2>4, BatchWorks
    <2>5. ASSUME NEW d \in Clients \ {c}, Step(d) PROVE call'[c] = call[c]
      BY <2>5, StepTypes DEF TypeStep, CallFrame
    <2>6. ASSUME NEW r \in Readers, Lists(r) PROVE call'[c] = call[c]
      BY <2>6 DEF Lists, AskPage, PageRefused, ListIDs, FilterTask, FilterDone,
            ReadTask, PageDone, PageStep, vars
    <2>7. ASSUME Supervisors PROVE call'[c] = call[c]
      BY <2>7 DEF Supervisors, SupervisorEnds, AutoRemoves, AutoRemovesDir
    <2>8. QED
      BY <1>2, <2>2, <2>3, <2>4, <2>5, <2>6, <2>7 DEF ServiceNext, Next, Step
  <1>3. QED
    BY <1>1, <1>2 DEF AllBatches

(* A batch over labels or over all tasks passes over no task that was      *)
(* there and matched all along, whatever fails or vanishes on the way.     *)
THEOREM BatchMissesNothing == ServiceSpec => []BatchReachesAll
  <1>1. AllBatches => BatchReachesAll
    <2> SUFFICES ASSUME AllBatches, NEW c \in Clients,
                        call[c].at \in {"next", "replied"},
                        NEW i \in stayed[c] \ call[c].todo,
                        call[c].op \in BatchOps, call[c].sel # "refs"
                 PROVE  \E k \in DOMAIN call[c].items : call[c].items[k].id = i
      BY DEF BatchReachesAll
    <2>1. i \in Reached(call[c])
      BY DEF AllBatches, BatchInv, IsSnapshot
    <2>2. QED
      BY <2>1 DEF Reached, Done
  <1>2. ServiceInit => AllBatches
    BY Memberships DEF ServiceInit, Init, AllBatches, BatchInv
  <1>3. TypeInv /\ PagesInv /\ [ServiceNext]_svars => PagesInv'
    BY PagesNext DEF TypeInv
  <1>4. TypeInv /\ PagesInv /\ StayedInv /\ [ServiceNext]_svars => StayedInv'
    BY StayedNext DEF TypeInv
  <1>5. TypeInv /\ StayedInv /\ AllBatches /\ [ServiceNext]_svars => AllBatches'
    BY BatchesNext
  <1>6. QED
    BY <1>1, <1>2, <1>3, <1>4, <1>5, PagesInit, StayedInit, ServiceTypes, PTL DEF ServiceSpec

-----------------------------------------------------------------------------
(* What the adapters make of a batch *)

Items == [id : IDs \cup {None}, res : Results]

ItemsOf(results) == [id : IDs \cup {None}, res : results]

LEMMA ItemKinds ==
    /\ Items = ItemsOf(Codes) \cup (ItemsOf({"changed"}) \cup ItemsOf({"no_op"}))
    /\ ItemsOf(Codes) \cap (ItemsOf({"changed"}) \cup ItemsOf({"no_op"})) = {}
    /\ ItemsOf({"changed"}) \cap ItemsOf({"no_op"}) = {}
    /\ \A i \in Items : i \in ItemsOf(Codes) <=> IsFailed(i)
    /\ Results \ (Codes \cup {"changed"}) = {"no_op"}
  BY DEF Items, ItemsOf, Results, Codes, IsFailed

LEMMA WithIs ==
    \A items, results : With(items, results) = Select(items, ItemsOf(results))
  BY DEF With, ItemsOf

LEMMA WithTypes ==
    ASSUME NEW items \in Seq(Items), NEW results
    PROVE  /\ With(items, results) \in Seq(Items)
           /\ ToSet(With(items, results)) \subseteq ItemsOf(results)
           /\ Len(With(items, results)) \in Nat
  <1>1. With(items, results) \in Seq(Items)
    BY WithIs, SelectTypes
  <1>2. ToSet(With(items, results)) \subseteq ItemsOf(results)
    BY WithIs, SelectSet
  <1>3. QED
    BY <1>1, <1>2

(* Every item is counted once. *)
LEMMA CountsAddUp ==
    ASSUME NEW items \in Seq(Items)
    PROVE  Len(With(items, Codes)) + (Len(With(items, {"changed"})) + Len(With(items, {"no_op"})))
             = Len(items)
  <1> DEFINE F == ItemsOf(Codes)
             C == ItemsOf({"changed"})
             N == ItemsOf({"no_op"})
  <1>1. F \cap (C \cup N) = {} /\ C \cap N = {} /\ F \cup (C \cup N) = Items
    BY ItemKinds
  <1>2. ToSet(items) \subseteq Items
    BY DEF ToSet
  <1> HIDE DEF F, C, N
  <1>3. Len(Select(items, C \cup N)) = Len(Select(items, C)) + Len(Select(items, N))
    BY <1>1, SelectSplit
  <1>4. Len(Select(items, F \cup (C \cup N))) = Len(Select(items, F)) + Len(Select(items, C \cup N))
    BY <1>1, SelectSplit
  <1>5. Select(items, F \cup (C \cup N)) = items
    BY <1>1, <1>2, SelectAll
  <1>6. QED
    BY <1>3, <1>4, <1>5, WithIs DEF F, C, N

(* A failure is left out only for other failures. *)
LEMMA FailuresFirst ==
    ASSUME NEW items \in Seq(Items),
           Len(With(Prioritized(items), Codes)) < Len(With(items, Codes))
    PROVE  \A k \in DOMAIN Prioritized(items) : IsFailed(Prioritized(items)[k])
  <1> DEFINE F == With(items, Codes)
             C == With(items, {"changed"})
             N == With(items, {"no_op"})
             v == C \o N
             w == SubSeq(v, 1, MaxBatchItems - Len(F))
  <1>1. /\ F \in Seq(Items) /\ C \in Seq(Items) /\ N \in Seq(Items)
        /\ ToSet(F) \subseteq ItemsOf(Codes)
        /\ Len(F) \in Nat /\ Len(C) \in Nat /\ Len(N) \in Nat
    BY WithTypes
  <1>2. Len(F) + (Len(C) + Len(N)) = Len(items)
    BY CountsAddUp
  <1>3. MaxBatchItems \in Nat /\ Len(items) \in Nat
    BY AdaptersAssumption
  <1>4. Len(items) > MaxBatchItems
    <2>1. ASSUME Len(items) <= MaxBatchItems PROVE FALSE
      BY <1>1, <2>1 DEF Prioritized
    <2>2. QED
      BY <2>1, <1>3
  <1>5. Prioritized(items) = SubSeq((F \o C) \o N, 1, MaxBatchItems)
    <2> DEFINE R(k) == CASE k = 0 -> Codes
                         [] k = 1 -> {"changed"}
                         [] OTHER -> Results \ (Codes \cup {"changed"})
    <2>0. R(0) = Codes /\ R(1) = {"changed"} /\ R(2) = {"no_op"}
      BY ItemKinds
    <2> HIDE DEF R
    <2>1. OfPriority(items, 0) = F /\ OfPriority(items, 1) = C /\ OfPriority(items, 2) = N
      <3>1. \A k : OfPriority(items, k) = With(items, R(k))
        BY DEF OfPriority, R
      <3>2. QED
        BY <2>0, <3>1
    <2>3. ~(Len(items) <= MaxBatchItems)
      BY <1>3, <1>4
    <2> HIDE DEF F, C, N
    <2>4. QED
      BY <2>1, <2>3 DEF Prioritized
  <1> HIDE DEF F, C, N
  <1>6. (F \o C) \o N = F \o v /\ v \in Seq(Items) /\ Len(v) = Len(C) + Len(N)
    BY SMTT(30), <1>1, ConcatAssoc
  <1> HIDE DEF v
  <1>7. CASE MaxBatchItems <= Len(F)
    <2>1. /\ DOMAIN Prioritized(items) = 1..MaxBatchItems
          /\ \A k \in 1..MaxBatchItems : Prioritized(items)[k] = F[k] /\ k \in DOMAIN F
      BY <1>1, <1>3, <1>5, <1>6, <1>7, PrefixWithin
    <2>2. \A k \in DOMAIN F : F[k] \in ItemsOf(Codes)
      BY <1>1 DEF ToSet
    <2>3. \A k \in DOMAIN F : F[k].res \in Codes
      BY <2>2 DEF ItemsOf
    <2>4. QED
      BY <2>1, <2>3 DEF IsFailed
  <1>8. CASE Len(F) < MaxBatchItems
    <2>0. Len(F) <= MaxBatchItems /\ MaxBatchItems <= Len(F) + Len(v)
      BY <1>1, <1>2, <1>3, <1>4, <1>6, <1>8
    <2>1. w \in Seq(Items) /\ Prioritized(items) = F \o w
      <3>1. F \in Seq(Items) /\ v \in Seq(Items) /\ MaxBatchItems \in Nat
        BY <1>1, <1>3, <1>6
      <3>2. w \in Seq(Items) /\ SubSeq(F \o v, 1, MaxBatchItems) = F \o w
        BY ONLY <2>0, <3>1, PrefixBeyond DEF w
      <3>3. QED
        BY ONLY <1>5, <1>6, <3>2
    <2> HIDE DEF w
    <2>2. Select(F \o w, ItemsOf(Codes)) = Select(F, ItemsOf(Codes)) \o Select(w, ItemsOf(Codes))
      BY <1>1, <2>1, SelectConcat
    <2>3. Select(F, ItemsOf(Codes)) = F
      BY <1>1, SelectAll
    <2>4. Select(w, ItemsOf(Codes)) \in Seq(Items)
      BY <2>1, SelectTypes
    <2>5. Len(F \o Select(w, ItemsOf(Codes))) >= Len(F)
      BY <1>1, <2>4
    <2>6. With(Prioritized(items), Codes) = F \o Select(w, ItemsOf(Codes))
      BY <2>1, <2>2, <2>3, WithIs
    <2>7. Len(With(Prioritized(items), Codes)) < Len(F)
      BY DEF F
    <2>8. Len(F \o Select(w, ItemsOf(Codes))) \in Nat
      BY <1>1, <2>4
    <2>9. QED
      BY <1>1, <2>5, <2>6, <2>7, <2>8
  <1>9. QED
    BY <1>1, <1>3, <1>7, <1>8

(* A list ends at its first failure, so that a failure among its items is  *)
(* the last of them and the reply is due.                                  *)
FailInv(c) ==
    call[c].sel = "refs" =>
        \A k \in DOMAIN call[c].items :
            IsFailed(call[c].items[k]) => k = Len(call[c].items) /\ call[c].at = "replied"

LEMMA OutcomeOf ==
    ASSUME TypeOK, NEW c \in Clients, FailInv(c), At(c, "replied")
    PROVE  LET items == call[c].items
               sel == call[c].sel
               rest == RespondBatch(sel, items)
               mcp == BatchOutcome(sel, items)
               failure == \E k \in DOMAIN items : IsFailed(items[k])
           IN /\ (rest.status # 200) <=> (sel = "refs" /\ failure)
              /\ mcp.isError <=> rest.status # 200
              /\ Cli(call[c].op, sel, items).error <=> rest.status # 200
              /\ Len(items) = 1 /\ sel = "refs" => RespondTask(items).status = rest.status
              /\ Len(rest.items) = Len(items)
              /\ mcp.changed + mcp.noOp + mcp.failed = Len(items)
              /\ mcp.omitted = Len(items) - Len(mcp.items)
              /\ Len(With(mcp.items, Codes)) < mcp.failed =>
                   \A k \in DOMAIN mcp.items : IsFailed(mcp.items[k])
  <1> DEFINE items == call[c].items
             sel == call[c].sel
             rest == RespondBatch(sel, items)
             mcp == BatchOutcome(sel, items)
             failure == \E k \in DOMAIN items : IsFailed(items[k])
  <1>1. items \in Seq(Items)
    BY DEF TypeOK, Calls, Items
  <1>2. FailedFast(sel, items) <=> sel = "refs" /\ failure
    <2>1. ASSUME FailedFast(sel, items) PROVE sel = "refs" /\ failure
      <3>1. Len(items) \in DOMAIN items
        BY <1>1, <2>1 DEF FailedFast
      <3>2. QED
        BY <2>1, <3>1 DEF FailedFast
    <2>2. ASSUME sel = "refs", NEW k \in DOMAIN items, IsFailed(items[k])
          PROVE  FailedFast(sel, items)
      <3>1. k = Len(items) /\ items # <<>>
        BY <1>1, <2>2 DEF FailInv
      <3>2. QED
        BY <2>2, <3>1 DEF FailedFast
    <2>3. QED
      BY <2>1, <2>2
  <1>3. \A code : StatusForCode(code) # 200 /\ StatusForCode(code) \in Nat
    BY DEF StatusForCode
  <1>4. (rest.status # 200 <=> FailedFast(sel, items)) /\ rest.items = items
    BY <1>3 DEF RespondBatch
  <1>5. mcp.isError <=> FailedFast(sel, items)
    BY DEF BatchOutcome
  <1>6. Cli(call[c].op, sel, items).error <=> FailedFast(sel, items)
    BY DEF Cli, CliRemoved, CliReports
  <1>7. ASSUME Len(items) = 1, sel = "refs" PROVE RespondTask(items).status = rest.status
    <2>1. items # <<>>
      BY <1>1, <1>7
    <2>2. QED
      BY <1>7, <2>1 DEF RespondTask, RespondBatch, FailedFast
  <1>8. /\ mcp.items = Prioritized(items) /\ mcp.failed = Len(With(items, Codes))
        /\ mcp.changed = Len(With(items, {"changed"})) /\ mcp.noOp = Len(With(items, {"no_op"}))
        /\ mcp.omitted = Len(items) - Len(Prioritized(items))
    BY DEF BatchOutcome
  <1>9. mcp.changed + mcp.noOp + mcp.failed = Len(items)
    <2>1. /\ Len(With(items, Codes)) \in Nat /\ Len(With(items, {"changed"})) \in Nat
          /\ Len(With(items, {"no_op"})) \in Nat
      BY <1>1, WithTypes
    <2>2. Len(With(items, Codes)) + (Len(With(items, {"changed"})) + Len(With(items, {"no_op"})))
            = Len(items)
      BY <1>1, CountsAddUp
    <2> HIDE DEF items, mcp
    <2>3. QED
      BY <1>8, <2>1, <2>2
  <1>10. Len(With(mcp.items, Codes)) < mcp.failed => \A k \in DOMAIN mcp.items : IsFailed(mcp.items[k])
    BY <1>1, <1>8, FailuresFirst
  <1> HIDE DEF items, sel, rest, mcp, failure
  <1>11. QED
    BY <1>2, <1>4, <1>5, <1>6, <1>7, <1>8, <1>9, <1>10 DEF items, sel, rest, mcp, failure

LEMMA AskItems ==
    ASSUME TypeInv, NEW c \in Clients, Ask(c)
    PROVE  call'[c].items = <<>>
  <1>1. PICK q \in Requests[mix][c] : call' = [call EXCEPT ![c] = q]
    BY DEF Ask
  <1>2. call'[c] = q /\ IsRequest(q)
    BY <1>1, RequestsAssumption DEF TypeInv, TypeOK
  <1>3. \A n, ls, b : Run(n, ls, b).items = <<>>
    BY DEF Run, Idle
  <1>4. \A ref, n : Rename(ref, n).items = <<>>
    BY DEF Rename, Idle
  <1>5. \A ref, ls : SetLabels(ref, ls).items = <<>>
    BY DEF SetLabels, Idle
  <1>6. \A op, refs : OnRefs(op, refs).items = <<>>
    BY DEF OnRefs, Idle
  <1>7. \A op, ls : OnLabels(op, ls).items = <<>>
    BY DEF OnLabels, Idle
  <1>8. \A op : OnAll(op).items = <<>>
    BY DEF OnAll, Idle
  <1>9. q.items = <<>>
    BY ONLY <1>2, <1>3, <1>4, <1>5, <1>6, <1>7, <1>8 DEF IsRequest
  <1>10. QED
    BY <1>2, <1>9

LEMMA EndsItems ==
    ASSUME call \in [Clients -> Calls], NEW c \in Clients, NEW r, Ends(c, r)
    PROVE  /\ call'[c].items = Append(call[c].items, [id |-> call[c].id, res |-> r])
           /\ call[c].sel = "refs" /\ r \in Codes => call'[c].at = "replied"
  <1> DEFINE next == AfterItem(c, r)
             items == Append(call[c].items, [id |-> call[c].id, res |-> r])
             rest == IF next = "replied" THEN Idle
                     ELSE [Idle EXCEPT !.labels = call[c].labels,
                                       !.refs = call[c].refs, !.todo = call[c].todo]
             q == [rest EXCEPT !.at = next, !.items = items,
                               !.op = call[c].op, !.sel = call[c].sel]
  <1>1. call' = [call EXCEPT ![c] = q]
    BY DEF Ends
  <1>2. call[c].sel = "refs" /\ r \in Codes => next = "replied"
    BY DEF AfterItem
  <1> HIDE DEF next, items
  <1>3. rest \in Calls
    BY IdleType DEF Calls
  <1> HIDE DEF rest
  <1>4. q.at = next /\ q.items = items
    BY <1>3 DEF Calls
  <1> HIDE DEF q
  <1>5. call'[c] = q
    BY <1>1
  <1>6. QED
    BY <1>2, <1>4, <1>5 DEF items

(* A step of a request changes its items only where it ends one. *)
LEMMA WorksItems ==
    ASSUME TypeInv, NEW c \in Clients, Works(c) \/ GivesUp(c)
    PROVE  call'[c].items = call[c].items \/ \E r : Ends(c, r)
  <1> DEFINE Grows == call'[c].items = call[c].items \/ \E r : Ends(c, r)
  <1>1. call \in [Clients -> Calls]
    BY DEF TypeInv, TypeOK
  <1>2. ASSUME NEW s, Goto(c, s) \/ Reads(c, s) PROVE Grows
    BY <1>1, <1>2, GotoKept DEF Kept
  <1>3. ASSUME NEW r, Ends(c, r) PROVE Grows
    BY <1>3
  <1>4. CASE LockStore(c) \/ LockTask(c) \/ GivesUp(c)
    BY <1>2, <1>3, <1>4
       DEF LockStore, LockTask, GivesUp, GivesUpStore, GivesUpTask, OwnLockTimesOut
  <1>5. CASE ResolveId(c)
    BY <1>1, <1>2, <1>5 DEF ResolveId, Calls
  <1>6. CASE SearchOne(c) \/ FilterOne(c)
    <2>1. ASSUME NEW x, NEW y, call' = [call EXCEPT ![c].scan = x, ![c].hits = y]
                            \/ call' = [call EXCEPT ![c].scan = x, ![c].todo = y]
          PROVE  Grows
      BY <1>1, <2>1 DEF Calls
    <2>2. CASE SearchOne(c)
      BY <2>1, <2>2 DEF SearchOne
    <2>3. CASE FilterOne(c)
      BY <2>1, <2>3 DEF FilterOne
    <2>4. QED
      BY <1>6, <2>2, <2>3
  <1>7. CASE Create(c)
    BY <1>1, <1>7 DEF Create, Calls
  <1>8. CASE NextItem(c)
    <2>1. ASSUME NEW x, NEW y, call' = [call EXCEPT ![c].ref = x, ![c].refs = y, ![c].at = "resolve"]
          PROVE  Grows
      BY <1>1, <2>1 DEF Calls
    <2>2. ASSUME NEW x, NEW y, NEW z, NEW s,
                 call' = [call EXCEPT ![c].todo = x, ![c].ref = y, ![c].id = z, ![c].at = s]
          PROVE  Grows
      BY <1>1, <2>2 DEF Calls
    <2>3. CASE call[c].sel = "refs"
      BY <1>8, <2>1, <2>3 DEF NextItem
    <2>4. CASE call[c].sel # "refs"
      <3>1. PICK i \in call[c].todo :
               call' = [call EXCEPT ![c].todo = @ \ {i},
                      ![c].ref = i,
                      ![c].id = IF call[c].op = "cleanup" THEN i ELSE None,
                      ![c].at = IF call[c].op = "cleanup" THEN "lock" ELSE "resolve"]
        BY ZenonT(60), <1>8, <2>4 DEF NextItem
      <3>2. QED
        BY <2>2, <3>1
    <2>5. QED
      BY <2>3, <2>4
  <1>9. CASE Snapshot(c)
    BY <1>1, <1>2, <1>9 DEF Snapshot, Calls
  <1>10. CASE Resolved(c)
    <2>1. ASSUME NEW i, call' = [call EXCEPT ![c].id = i, ![c].hits = {}, ![c].at = "lock"]
          PROVE  Grows
      BY <1>1, <2>1 DEF Calls
    <2>2. QED
      BY <1>2, <1>3, <1>10, <2>1 DEF Resolved
  <1>11. CASE TakenOne(c)
    <2>1. ASSUME NEW i, call' = [call EXCEPT ![c].scan = @ \ {i}] PROVE Grows
      BY <1>1, <2>1 DEF Calls
    <2>2. QED
      BY <1>2, <1>3, <1>11, <2>1 DEF TakenOne
  <1>12. CASE NotTaken(c) \/ ReadGone(c) \/ ReadMeta(c) \/ Write(c) \/ WriteFails(c)
    BY <1>2, <1>3, <1>12 DEF NotTaken, ReadGone, ReadMeta, Write, WriteFails
  <1>13. CASE Reread(c)
    <2>1. CASE Exists(call[c].id)
      BY <1>1, <1>13, <2>1 DEF Reread, Calls
    <2>2. CASE ~Exists(call[c].id)
      BY <1>3, <1>13, <2>2 DEF Reread
    <2>3. QED
      BY <2>1, <2>2
  <1>14. CASE LockOwn(c) \/ Launch(c) \/ Unlink(c) \/ Rmdir(c) \/ Discard(c) \/ DiscardDir(c)
    BY <1>2, <1>3, <1>14 DEF LockOwn, Launch, Unlink, Rmdir, Discard, DiscardDir
  <1>15. CASE Act(c) \/ Filtered(c)
    BY <1>2, <1>3, <1>15 DEF Act, Filtered
  <1>16. QED
    BY <1>4, <1>5, <1>6, <1>7, <1>8, <1>9, <1>10, <1>11, <1>12, <1>13, <1>14, <1>15 DEF Works

LEMMA FailsWorks ==
    ASSUME TypeInv, NEW c \in Clients, Works(c) \/ GivesUp(c), FailInv(c)
    PROVE  FailInv(c)'
  <1>1. call \in [Clients -> Calls] /\ call[c].items \in Seq(Items)
    BY DEF TypeInv, TypeOK, Calls, Items
  <1>2. call[c].at # "replied"
    <2>1. CASE GivesUp(c)
      BY <2>1 DEF GivesUp, GivesUpStore, GivesUpTask, OwnLockTimesOut, At
    <2>2. CASE Works(c)
      BY <2>2 DEF Works, At, LockStore, LockTask, ResolveId, SearchOne, Resolved,
            TakenOne, NotTaken, ReadGone, ReadMeta, Reread, Write, WriteFails,
            Create, LockOwn, Launch, Act, Unlink, Rmdir, Discard, DiscardDir,
            Snapshot, FilterOne, Filtered, NextItem
    <2>3. QED
      BY <2>1, <2>2
  <1>3. call'[c].sel = call[c].sel
    BY WorksAsked
  <1>4. CASE call'[c].items = call[c].items
    BY <1>2, <1>3, <1>4 DEF FailInv
  <1>5. ASSUME NEW r, Ends(c, r), call[c].sel = "refs" PROVE FailInv(c)'
    <2> DEFINE item == [id |-> call[c].id, res |-> r]
               items == call[c].items
    <2>1. call'[c].items = Append(items, item) /\ (r \in Codes => call'[c].at = "replied")
      BY <1>1, <1>5, EndsItems
    <2>2. IsFailed(item) <=> r \in Codes
      BY DEF IsFailed
    <2>3. \A k \in DOMAIN items : ~IsFailed(items[k])
      BY <1>2, <1>5 DEF FailInv
    <2> HIDE DEF item
    <2>4. /\ Len(Append(items, item)) = Len(items) + 1 /\ Len(items) \in Nat
          /\ Append(items, item)[Len(items) + 1] = item
          /\ DOMAIN Append(items, item) = 1..Len(items) + 1 /\ DOMAIN items = 1..Len(items)
          /\ \A k \in 1..Len(items) : Append(items, item)[k] = items[k]
      BY <1>1
    <2> HIDE DEF items
    <2>5. \A k \in DOMAIN Append(items, item) :
             IsFailed(Append(items, item)[k]) => k = Len(Append(items, item)) /\ r \in Codes
      BY <2>2, <2>3, <2>4
    <2>6. QED
      BY <2>1, <2>5 DEF FailInv
  <1>6. QED
    BY <1>3, <1>4, <1>5, WorksItems DEF FailInv

AllFails == \A c \in Clients : FailInv(c)

LEMMA FailsNext ==
    ASSUME TypeInv, AllFails, [ServiceNext]_svars
    PROVE  AllFails'
  <1>1. CASE UNCHANGED svars
    BY <1>1 DEF svars, vars, AllFails, FailInv
  <1>2. ASSUME ServiceNext, NEW c \in Clients PROVE FailInv(c)'
    <2>1. FailInv(c)
      BY DEF AllFails
    <2>2. CASE call'[c] = call[c]
      BY <2>1, <2>2 DEF FailInv
    <2>3. CASE Ask(c)
      <3>1. call'[c].items = <<>>
        BY <2>3, AskItems
      <3>2. QED
        BY <3>1 DEF FailInv
    <2>4. CASE Works(c) \/ GivesUp(c)
      BY <2>1, <2>4, FailsWorks
    <2>5. ASSUME NEW d \in Clients \ {c}, Step(d) PROVE call'[c] = call[c]
      BY <2>5, StepTypes DEF TypeStep, CallFrame
    <2>6. ASSUME NEW r \in Readers, Lists(r) PROVE call'[c] = call[c]
      BY <2>6 DEF Lists, AskPage, PageRefused, ListIDs, FilterTask, FilterDone,
            ReadTask, PageDone, PageStep, vars
    <2>7. ASSUME Supervisors PROVE call'[c] = call[c]
      BY <2>7 DEF Supervisors, SupervisorEnds, AutoRemoves, AutoRemovesDir
    <2>8. QED
      BY <1>2, <2>2, <2>3, <2>4, <2>5, <2>6, <2>7 DEF ServiceNext, Next, Step
  <1>3. QED
    BY <1>1, <1>2 DEF AllFails

(* What each adapter reports of a batch: the call fails for all three if a *)
(* list ended at a failure and for none otherwise ("never fails as a       *)
(* whole", routes_actions.go:72); the counts of MCP add up, and it leaves  *)
(* out a failure only for other failures (dto.go:285-325).                 *)
THEOREM OutcomesReported == ServiceSpec => []OutcomeReported
  <1>1. ServiceInit => AllFails
    BY DEF ServiceInit, Init, AllFails, FailInv, Idle
  <1>2. TypeInv /\ AllFails /\ [ServiceNext]_svars => AllFails'
    BY FailsNext
  <1>3. TypeInv /\ AllFails => OutcomeReported
    BY OutcomeOf DEF OutcomeReported, AllFails, TypeInv
  <1>4. QED
    BY <1>1, <1>2, <1>3, ServiceTypes, PTL DEF ServiceSpec

-----------------------------------------------------------------------------
(* The store under its readers *)

(* Service adds readers to the clients of Names and takes nothing away:    *)
(* what it does to the store is a behaviour of Names.  List takes no lock  *)
(* and writes nothing (list_get.go).                                       *)
THEOREM StoreIsNames == ServiceSpec => Spec
  <1>1. ServiceInit => Init
    BY DEF ServiceInit
  <1>2. [ServiceNext]_svars => [Next]_vars
    BY ServiceSteps DEF svars
  <1>3. QED
    BY <1>1, <1>2, PTL DEF ServiceSpec, Spec

(* And so what is proved of clients alone holds while any number of        *)
(* readers go through the store: no two tasks have one name, no write      *)
(* undoes another, nobody waits in a circle, and names pass from task to   *)
(* task as NameTable says.                                                 *)
THEOREM StoreHoldsUnderReaders ==
    ServiceSpec => /\ []NamesUnique /\ []NoCircularWait
                   /\ WritesKeepTheRest /\ ImplementsNameTable
  BY StoreIsNames, UniqueNames, NoCircle, WritesKeep, NameTableImplemented
=============================================================================
