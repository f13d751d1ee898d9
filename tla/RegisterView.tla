---------------------------- MODULE RegisterView ----------------------------
(***************************************************************************)
(* The register page of the web client: pages/AccountRegister.tsx, the     *)
(* table of components/Register.tsx and the two helpers registerSort and   *)
(* registerSearch, against the paged register the server computes.         *)
(*                                                                         *)
(* The page keeps a window of the register (rows, two offsets, two flags), *)
(* extends it as the user scrolls, and, while a search is active, a second *)
(* list with the whole register.  Requests overlap, are run by the server  *)
(* when it gets to them and answered in any order.                         *)
(*                                                                         *)
(* The server pages by a key that splits may share (date, custom id as     *)
(* text, enter date: the splits of one transaction in one account tie),    *)
(* and the order of tied rows may change from one query to the next.  The  *)
(* page sorts what it has by date and the number in the custom id, so rows *)
(* are kept as how many times each split is shown.                         *)
(***************************************************************************)
EXTENDS Integers, FiniteSets

CONSTANTS Account, NoAccount,
          Split, Home,       \* Home[s]: the account whose register has split s
          Place,             \* Place[s]: the server's sort key of s, ties allowed
          PageSize,          \* PAGE_SIZE
          Routes,            \* navigations, as <<from, to>> (a bound)
          Dates,             \* a date is the first place that is not before it
          Matches,           \* the splits the typed query matches
          Touched,           \* the splits that are toggled, come or go (a bound)
          MaxFlight,         \* how many requests may overlap (a bound)
          MaxChange          \* changes of the books that are followed (a bound)

ASSUME RegAssumption ==
    /\ Split \subseteq Nat /\ IsFiniteSet(Split)
    /\ Home \in [Split -> Account] /\ NoAccount \notin Account
    /\ Place \in [Split -> Nat]
    /\ Account # {}
    /\ Routes \subseteq Account \X Account
    /\ PageSize \in Nat \ {0} /\ MaxChange \in Nat
    /\ Dates \subseteq Nat /\ Dates # {}
    /\ Matches \subseteq Split /\ Touched \subseteq Split
    /\ MaxFlight \in Nat \ {0}

VARIABLES reg,      \* the state of the page's component
          regNet,   \* its outstanding requests, by slot
          regBook   \* the server's registers

Slot == 1..MaxFlight
regVars == <<reg, regNet, regBook>>

Mark == {"n", "c", "y"}           \* reconcile_state
Unset == -1                       \* an offset before the first page

-----------------------------------------------------------------------------
(* The server's side of a register page. *)

Register(b, a) == {s \in b.splits : Home[s] = a}
NoPage == [splits |-> {}, before |-> FALSE, after |-> FALSE, first |-> 0, last |-> 0]
NonNeg(n) == IF n < 0 THEN 0 ELSE n
LeastOf(m, n) == IF m < n THEN m ELSE n

(* The first n rows of a register, in any order of its ties, and what a    *)
(* query with OFFSET off and LIMIT lim may return.                         *)
Firsts(S, n) ==
    LET size == LeastOf(n, Cardinality(S))
    IN  {P \in SUBSET S : /\ Cardinality(P) = size
                          /\ \A r \in P, s \in S \ P : Place[r] <= Place[s]}
Stretches(S, off, lim) ==
    LET skipped == Firsts(S, off)
        reached == Firsts(S, off + lim)
    IN  {P \in SUBSET S : \E B \in skipped, T \in reached : B \subseteq T /\ P = T \ B}

(* The rows, the two flags and the offsets of the ends; a page of no rows  *)
(* by its limit keeps the zero offsets of its type. *)
PageOf(S, off, rows) ==
    LET end == IF rows = {} THEN off ELSE off + Cardinality(rows) - 1
    IN  [splits |-> rows, before |-> off > 0, after |-> end < Cardinality(S) - 1,
         first |-> off, last |-> end]
PagesAt(S, off, lim) ==
    IF lim <= 0
    THEN {[NoPage EXCEPT !.before = off > 0, !.after = off < Cardinality(S)]}
    ELSE {PageOf(S, off, rows) : rows \in Stretches(S, off, lim)}

CountBefore(S, date) == Cardinality({r \in S : Place[r] < date})
Around(S, date) ==
    PagesAt(S, NonNeg(CountBefore(S, date) - (PageSize * 3) \div 4), PageSize)
Before_unclamped(S, cur) ==
    {PageOf(S, cur - PageSize, rows) : rows \in Stretches(S, 0, cur)}   \* fault
Before(S, cur) ==
    IF cur < PageSize THEN PagesAt(S, 0, cur) ELSE PagesAt(S, cur - PageSize, PageSize)
After_skips(S, cur) == PagesAt(S, cur + 2, PageSize)   \* fault
After(S, cur) == PagesAt(S, cur + 1, PageSize)

-----------------------------------------------------------------------------
(* Requests.  kind "load" is the Promise.all of an initial load, "more" a  *)
(* page before or after, "all" the full register of a search, "toggle" a   *)
(* reconcile click, "save" a delete or a form, wizard or import that ends  *)
(* in the handleDataChanged of the render it was made in. *)

NoRows == [s \in Split |-> 0]
NoMarks == [s \in Split |-> "n"]
Free == [kind |-> "free", acct |-> NoAccount, how |-> "around", cur |-> 0, split |-> 0,
         done |-> FALSE, page |-> NoPage, marks |-> NoMarks, ver |-> 0]

Paging == {"load", "more"}
Writes == {"toggle", "save"}
Busy(net, kinds) == \E i \in Slot : net[i].kind \in kinds

FreeSlots(net) == {i \in Slot : net[i].kind = "free"}
FirstFree(net) == CHOOSE i \in FreeSlots(net) : \A j \in FreeSlots(net) : i <= j
Send(net, r) == [net EXCEPT ![FirstFree(net)] = r]

LoadReq(a, date) == [Free EXCEPT !.kind = "load", !.acct = a, !.cur = date]
MoreReq(a, d, cur) == [Free EXCEPT !.kind = "more", !.acct = a, !.how = d, !.cur = cur]
AllReq(a) == [Free EXCEPT !.kind = "all", !.acct = a]
WriteReq(kind, a, s, how) ==
    [Free EXCEPT !.kind = kind, !.acct = a, !.split = s, !.how = how]

-----------------------------------------------------------------------------
(* The component.  Three fields are history: calm is true while no write   *)
(* has overlapped another request, no load a page request and no load has  *)
(* failed; ver and allVer are the versions of the books the window and the *)
(* search cache were read from. *)

RegStart(a, date) ==
    [id |-> a, account |-> NoAccount, copies |-> NoRows, marks |-> NoMarks,
     loading |-> TRUE, more |-> FALSE, hasBefore |-> FALSE, hasAfter |-> FALSE,
     first |-> Unset, last |-> Unset, cursor |-> date,
     searching |-> FALSE, loaded |-> FALSE, all |-> {}, allMarks |-> NoMarks,
     searchLoading |-> FALSE, searchError |-> FALSE,
     calm |-> TRUE, ver |-> 0, allVer |-> 0]
RegNetStart(a, date) == Send([i \in Slot |-> Free], LoadReq(a, date))
RegBooks == [splits |-> Split, ver |-> 0,
             marks |-> [s \in Split |-> IF s \in Touched THEN "y" ELSE "n"]]

RegInit == \E a \in Account, d \in Dates :
    reg = RegStart(a, d) /\ regNet = RegNetStart(a, d) /\ regBook = RegBooks

RegReady == ~reg.loading /\ reg.account # NoAccount
Displayed ==
    IF reg.searching THEN IF reg.loaded THEN reg.all \cap Matches ELSE {}
    ELSE {s \in Split : reg.copies[s] > 0}
ShownMark(s) == IF reg.searching THEN reg.allMarks[s] ELSE reg.marks[s]

(* The search effect runs when id, isSearching or allEntries changes: it   *)
(* cancels the fetch in flight and, if a search is active and the cache is *)
(* empty, starts another. *)
Cancelled_never(net) == net   \* fault
Cancelled(net) == [i \in Slot |-> IF net[i].kind = "all" THEN Free ELSE net[i]]
SearchEffect(r, net) ==
    IF r.searching /\ ~r.loaded
    THEN /\ FreeSlots(Cancelled(net)) # {}
         /\ reg' = [r EXCEPT !.searchLoading = TRUE, !.searchError = FALSE,
                             !.calm = @ /\ ~Busy(net, Writes)]
         /\ regNet' = Send(Cancelled(net), AllReq(r.id))
    ELSE reg' = r /\ regNet' = Cancelled(net)

(* setLoading(true), the cursor kept; the load is sent over net. *)
Loading(r, net, date) ==
    [r EXCEPT !.loading = TRUE, !.cursor = date,
              !.calm = @ /\ ~Busy(net, Paging \cup Writes)]

-----------------------------------------------------------------------------
(* Navigation between accounts reuses the component: id changes, a load    *)
(* starts, the search is reset and its fetch cancelled (one that the stale *)
(* isSearching starts in the same pass is cancelled before it is answered, *)
(* and leaves searchLoading set). *)
GoTo(a, date) ==
    /\ a # reg.id /\ <<reg.id, a>> \in Routes
    /\ FreeSlots(Cancelled(regNet)) # {}
    /\ reg' = [Loading(reg, regNet, date) EXCEPT
                 !.id = a, !.searching = FALSE, !.loaded = FALSE,
                 !.all = {}, !.allMarks = NoMarks, !.searchError = FALSE,
                 !.searchLoading = @ \/ (reg.searching /\ ~reg.loaded)]
    /\ regNet' = Send(Cancelled(regNet), LoadReq(a, date))
    /\ UNCHANGED regBook

(* The debounced query becomes a search or blank; the clear button drops   *)
(* an error as well. *)
Search ==
    /\ RegReady
    /\ \E clear \in IF reg.searching THEN BOOLEAN ELSE {FALSE} :
         SearchEffect([reg EXCEPT !.searching = ~@, !.searchError = @ /\ ~clear], regNet)
    /\ UNCHANGED regBook

(* One scroll event, or a button, asks for a page on either side or on     *)
(* both; the guard reads loadingMore as it was rendered. *)
Wanted(d) == IF d = "before" THEN reg.hasBefore /\ reg.first # Unset
                             ELSE reg.hasAfter /\ reg.last # Unset
MoreNow(d) == MoreReq(reg.id, d, IF d = "before" THEN reg.first ELSE reg.last)
LoadMore(dirs) ==
    /\ RegReady /\ ~reg.searching /\ ~reg.more /\ Displayed # {}
    /\ \A d \in dirs : Wanted(d)
    /\ Cardinality(FreeSlots(regNet)) >= Cardinality(dirs)
    /\ reg' = [reg EXCEPT !.more = TRUE,
                          !.calm = @ /\ ~Busy(regNet, {"load"} \cup Writes)]
    /\ IF dirs = {"before", "after"}
       THEN regNet' = Send(Send(regNet, MoreNow("before")), MoreNow("after"))
       ELSE \E d \in dirs : regNet' = Send(regNet, MoreNow(d))
    /\ UNCHANGED regBook

(* A click on the reconcile mark of a row: n to c, anything else to n, as  *)
(* the row shows it. *)
Toggled(m) == IF m = "n" THEN "c" ELSE "n"
ToggleClick(s) ==
    /\ RegReady /\ s \in Displayed \cap Touched /\ FreeSlots(regNet) # {}
    /\ regNet' = Send(regNet, WriteReq("toggle", reg.id, s, Toggled(ShownMark(s))))
    /\ reg' = [reg EXCEPT !.calm = @ /\ FreeSlots(regNet) = Slot]
    /\ UNCHANGED regBook

(* A delete of a row, or what a form, the wizard or the matcher over the   *)
(* page sends: a split goes or comes. *)
Save(s, how) ==
    /\ RegReady /\ FreeSlots(regNet) # {} /\ regBook.ver < MaxChange
    /\ s \in IF how = "insert" THEN Split \ regBook.splits ELSE regBook.splits
    /\ how = "remove" => s \in Displayed
    /\ regNet' = Send(regNet, WriteReq("save", reg.id, s, how))
    /\ reg' = [reg EXCEPT !.calm = @ /\ FreeSlots(regNet) = Slot]
    /\ UNCHANGED regBook

-----------------------------------------------------------------------------
(* The server runs a request; what it reads is fixed from then on. *)
Changed(b, s, how) ==
    [b EXCEPT !.ver = @ + 1,
              !.splits = IF how = "remove" THEN @ \ {s} ELSE @ \cup {s}]

Serve(b, q) ==
    LET S == Register(b, q.acct)
    IN  CASE q.kind = "load" -> Around(S, q.cur)
          [] q.kind = "more" /\ q.how = "before" -> Before(S, q.cur)
          [] q.kind = "more" /\ q.how = "after" -> After(S, q.cur)
          [] q.kind = "all" -> {[NoPage EXCEPT !.splits = S]}
          [] OTHER -> {NoPage}

Seen(page, b) == [s \in Split |-> IF s \in page.splits THEN b.marks[s] ELSE "n"]
Served(q, page, b) ==
    [q EXCEPT !.done = TRUE, !.page = page, !.marks = Seen(page, b),
              !.ver = IF q.kind \in Writes THEN 0 ELSE b.ver]

Run(i) ==
    /\ regNet[i].kind # "free" /\ ~regNet[i].done
    /\ \E page \in Serve(regBook, regNet[i]) :
         regNet' = [regNet EXCEPT ![i] = Served(regNet[i], page, regBook)]
    /\ regBook' = CASE regNet[i].kind = "toggle" ->
                         [regBook EXCEPT !.marks[regNet[i].split] = regNet[i].how]
                    [] regNet[i].kind = "save" /\ regBook.ver < MaxChange ->
                         Changed(regBook, regNet[i].split, regNet[i].how)
                    [] OTHER -> regBook
    /\ UNCHANGED reg

(* Another tab, another device or a bank import changes the books. *)
ChangedElsewhere(s, how) ==
    /\ regBook.ver < MaxChange
    /\ s \in IF how = "insert" THEN Split \ regBook.splits ELSE regBook.splits
    /\ regBook' = Changed(regBook, s, how)
    /\ UNCHANGED <<reg, regNet>>

-----------------------------------------------------------------------------
(* Answers. *)
Done(i, kind) == regNet[i].kind = kind /\ regNet[i].done
Settled(i) == [regNet EXCEPT ![i] = Free]

LoadAnswered(i) ==
    /\ Done(i, "load")
    /\ LET q == regNet[i] IN
       reg' = [reg EXCEPT !.account = q.acct, !.loading = FALSE,
                 !.copies = [s \in Split |-> IF s \in q.page.splits THEN 1 ELSE 0],
                 !.marks = q.marks, !.hasBefore = q.page.before, !.hasAfter = q.page.after,
                 !.first = q.page.first, !.last = q.page.last, !.ver = q.ver]
    /\ regNet' = Settled(i)
    /\ UNCHANGED regBook

(* The rows of the page that are not shown yet; those that are keep their  *)
(* state. *)
NewRows_all(p) == p.splits   \* fault
NewRows(p) == {s \in p.splits : reg.copies[s] = 0}
MoreAnswered(i) ==
    /\ Done(i, "more")
    /\ LET q == regNet[i]
           p == q.page
           shown == [reg EXCEPT
               !.copies = [s \in Split |-> @[s] + (IF s \in NewRows(p) THEN 1 ELSE 0)],
               !.marks = [s \in Split |-> IF s \in NewRows(p) THEN q.marks[s] ELSE @[s]],
               !.more = FALSE]
       IN  reg' = CASE p.splits = {} /\ q.how = "before" ->
                         [reg EXCEPT !.hasBefore = FALSE, !.more = FALSE]
                    [] p.splits = {} /\ q.how = "after" ->
                         [reg EXCEPT !.hasAfter = FALSE, !.more = FALSE]
                    [] p.splits # {} /\ q.how = "before" ->
                         [shown EXCEPT !.hasBefore = p.before, !.first = p.first]
                    [] OTHER -> [shown EXCEPT !.hasAfter = p.after, !.last = p.last]
    /\ regNet' = Settled(i)
    /\ UNCHANGED regBook

AllAnswered(i) ==
    /\ Done(i, "all")
    /\ reg' = [reg EXCEPT !.loaded = TRUE, !.all = regNet[i].page.splits,
                          !.allMarks = regNet[i].marks, !.allVer = regNet[i].ver,
                          !.searchLoading = FALSE]
    /\ regNet' = Settled(i)
    /\ UNCHANGED regBook

(* handleReconcileStateChanged: both lists are patched. *)
Patched_windowOnly(r, s, m) == [r EXCEPT !.marks[s] = m]   \* fault
Patched(r, s, m) ==
    [r EXCEPT !.marks[s] = m, !.allMarks[s] = IF r.loaded THEN m ELSE @]
ToggleAnswered(i) ==
    /\ Done(i, "toggle")
    /\ reg' = Patched(reg, regNet[i].split, regNet[i].how)
    /\ regNet' = Settled(i)
    /\ UNCHANGED regBook

(* handleDataChanged: the search cache is dropped, which reruns the search *)
(* effect if there was one, and the page is loaded around its cursor, for  *)
(* the account of the render the change was made in. *)
DataChanged(i) ==
    /\ Done(i, "save")
    /\ LET net == Send(Settled(i), LoadReq(regNet[i].acct, reg.cursor))
           r == [Loading(reg, Settled(i), reg.cursor) EXCEPT
                   !.loaded = FALSE, !.all = {}, !.allMarks = NoMarks]
       IN  IF reg.loaded THEN SearchEffect(r, net) ELSE reg' = r /\ regNet' = net
    /\ UNCHANGED regBook

(* A request fails, before or after the server ran it: the page stays as   *)
(* it is but for its flags. *)
Failed(i) ==
    /\ regNet[i].kind # "free"
    /\ reg' = CASE regNet[i].kind = "load" -> [reg EXCEPT !.loading = FALSE, !.calm = FALSE]
                [] regNet[i].kind = "more" -> [reg EXCEPT !.more = FALSE]
                [] regNet[i].kind = "all" ->
                     [reg EXCEPT !.searchLoading = FALSE, !.searchError = TRUE]
                [] OTHER -> [reg EXCEPT !.calm = FALSE]
    /\ regNet' = Settled(i)
    /\ UNCHANGED regBook

-----------------------------------------------------------------------------
RegAnswer == \E i \in Slot :
    LoadAnswered(i) \/ MoreAnswered(i) \/ AllAnswered(i) \/ ToggleAnswered(i)
    \/ DataChanged(i) \/ Failed(i)
RegUser ==
    \/ \E a \in Account, d \in Dates : GoTo(a, d)
    \/ Search
    \/ \E dirs \in SUBSET {"before", "after"} \ {{}} : LoadMore(dirs)
    \/ \E s \in Touched : ToggleClick(s) \/ \E how \in {"remove", "insert"} : Save(s, how)
RegServer ==
    \/ \E i \in Slot : Run(i)
    \/ \E s \in Touched, how \in {"remove", "insert"} : ChangedElsewhere(s, how)
RegNext == RegUser \/ RegServer \/ RegAnswer

RegSpec == RegInit /\ [][RegNext]_regVars

-----------------------------------------------------------------------------
(* The registers as the window and the cache say they saw them. *)
Current == reg.ver = regBook.ver
Now == Register(regBook, reg.account)
Window == {s \in Split : reg.copies[s] > 0}

(* The component's fields, requests and the books have their types: an     *)
(* answer never brings an offset or a row the page has no place for. *)
Offset == Nat \cup {Unset}
PageType == [splits : SUBSET Split, before : BOOLEAN, after : BOOLEAN,
             first : Nat, last : Nat]
RegTypeOK ==
    /\ reg.id \in Account /\ reg.account \in Account \cup {NoAccount}
    /\ reg.copies \in [Split -> Nat] /\ reg.marks \in [Split -> Mark]
    /\ reg.first \in Offset /\ reg.last \in Offset
    /\ reg.all \in SUBSET Split /\ reg.allMarks \in [Split -> Mark]
    /\ \A i \in Slot : regNet[i].page \in PageType /\ regNet[i].marks \in [Split -> Mark]
    /\ regBook.splits \in SUBSET Split /\ regBook.marks \in [Split -> Mark]

(* No split is shown twice, whatever pages overlap, come late or come from *)
(* another account (the dedupe by split_guid of loadMore). *)
RegRowsDistinct == \A s \in Split : reg.copies[s] <= 1

(* While nothing raced and nothing changed since the load, the rows shown  *)
(* are the account's, a row between two shown ones in the order the server *)
(* pages by is shown too unless another row ties with it there, and the    *)
(* register is said to end only where it ends, with pages loaded on both   *)
(* sides at once, answered in any order.  Tied rows are not promised:      *)
(* LIMIT and OFFSET may skip or repeat them. *)
Untied(S, s) == \A r \in S \ {s} : Place[r] # Place[s]
RegWindow ==
    (reg.calm /\ Current /\ reg.account # NoAccount) =>
        /\ Window \subseteq Now
        /\ \A s \in Now :
             (/\ Untied(Now, s)
              /\ \E r, t \in Window : Place[r] < Place[s] /\ Place[s] < Place[t]) => s \in Window
        /\ ~reg.hasBefore => \A s \in Now : \E r \in Window : Place[r] <= Place[s]
        /\ ~reg.hasAfter => \A s \in Now : \E r \in Window : Place[s] <= Place[r]

(* While nothing raced, a reconcile mark that is shown is the one the      *)
(* server has, in the window and in the search cache, which is not read    *)
(* again after a toggle. *)
RegMarksTrue ==
    (reg.calm /\ ~Busy(regNet, Writes)) =>
        /\ Current => \A s \in Window : reg.marks[s] = regBook.marks[s]
        /\ (reg.loaded /\ reg.allVer = regBook.ver) =>
               \A s \in reg.all : reg.allMarks[s] = regBook.marks[s]

(* The search never lists another account's entries, however late the      *)
(* answer of an abandoned fetch comes (the cancelled flag of the effect). *)
RegSearchOfAccount == \A s \in reg.all : Home[s] = reg.id
=============================================================================
