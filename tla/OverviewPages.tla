--------------------------- MODULE OverviewPages ---------------------------
(***************************************************************************)
(* Three pages of the web client that show what the server has:            *)
(* pages/Dashboard.tsx, pages/Transactions.tsx and pages/Snapshots.tsx.    *)
(* Each is a component of its own; nothing else uses the books here.       *)
(***************************************************************************)
EXTENDS Integers, SequencesExt

CONSTANTS DashType,         \* the types of the accounts (one account each)
          DashEntries,      \* entries, [month, from, to, n]: n moves
          DashNow,          \* the month it is, counted from a January
          Entry, NoEntry,   \* ids of transactions
          FirstEntries,     \* those there are at first
          TxnDay, FirstDay, \* days, and the one each is dated at first
          TxnLimit,         \* entries the server answers (50 in getTransactions)
          Snap, NoSnap,     \* ids of snapshots
          FirstSnaps        \* those there are at first, newest first

DashRange == {"all", "this_month", "last_month", "this_year", "last_year"}
ASSUME OverviewAssumption ==
    /\ IsFiniteSet(DashType) /\ IsFiniteSet(DashEntries)
    /\ \A e \in DashEntries :
         e.month \in Nat /\ e.n \in Nat /\ {e.from, e.to} \subseteq DashType
    /\ DashNow \in Nat /\ DashNow > 12
    /\ FirstEntries \subseteq Entry /\ NoEntry \notin Entry
    /\ TxnDay \subseteq Nat /\ FirstDay \in [Entry -> TxnDay] /\ TxnLimit \in Nat \ {0}
    /\ NoSnap \notin Snap /\ FirstSnaps \in Seq(Snap) /\ IsInjective(FirstSnaps)

VARIABLES dash,     \* the dashboard and the entries of its book
          txn,      \* the list of transactions, with requests and server
          snap      \* the snapshots page, with requests and server

-----------------------------------------------------------------------------
(* Dashboard.  getDateRange: the months of a range. *)
YearStart == DashNow - (DashNow % 12)
DateRange(range) ==
    CASE range = "this_month" -> [start |-> DashNow, end |-> DashNow]
      [] range = "last_month" -> [start |-> DashNow - 1, end |-> DashNow - 1]
      [] range = "this_year" -> [start |-> YearStart, end |-> YearStart + 11]
      [] range = "last_year" -> [start |-> YearStart - 12, end |-> YearStart - 1]
      [] range = "all" -> [start |-> 0, end |-> 10 * DashNow]

(* The balance the server lists: what flowed in the range for income and   *)
(* expenses, what stood at its end for everything else. *)
Flow == {"INCOME", "EXPENSE"}
Counted(book, range, a) ==
    LET d == DateRange(range)
    IN  {e \in book : e.month <= d.end /\ (a \in Flow => e.month >= d.start)}
ListedBalance(book, range, a) ==
    LET es == Counted(book, range, a)
    IN  MapThenSumSet(LAMBDA e : e.n, {e \in es : e.to = a})
          - MapThenSumSet(LAMBDA e : e.n, {e \in es : e.from = a})

(* computeDashboard, without its charts.  Equity, and a type it does not   *)
(* know (an import brings in any), is in no sum of it. *)
Magnitude(n) == IF n < 0 THEN -n ELSE n
SumOf(bal, types) == MapThenSumSet(LAMBDA a : bal[a], types \cap DashType)
Holdings == {"ASSET", "BANK", "CASH"}
Assets(bal) == SumOf(bal, Holdings)
Debts == {"LIABILITY", "CREDIT"}
Liabilities_noCards(bal) == Magnitude(SumOf(bal, {"LIABILITY"}))   \* fault
Liabilities(bal) == Magnitude(SumOf(bal, Debts))
Income(bal) == Magnitude(SumOf(bal, {"INCOME"}))
Expenses(bal) == SumOf(bal, {"EXPENSE"})
NetWorth(bal) == Assets(bal) - Liabilities(bal)
Uncounted == DashType \ (Holdings \cup Debts \cup Flow)

NoBalance == [a \in DashType |-> 0]
DashStart(book) == [range |-> "all", bal |-> NoBalance, of |-> "none", loading |-> TRUE,
                    book |-> book]

(* The spinner hides the choice of a range while a list is loaded. *)
ChooseRange(range) ==
    /\ ~dash.loading /\ range # dash.range
    /\ dash' = [dash EXCEPT !.range = range, !.loading = TRUE]
DashAnswered ==
    /\ dash.loading
    /\ dash' = [dash EXCEPT !.loading = FALSE, !.of = dash.range,
                  !.bal = [a \in DashType |-> ListedBalance(dash.book, dash.range, a)]]
DashFailed == dash.loading /\ dash' = [dash EXCEPT !.loading = FALSE]

DashNext == DashAnswered \/ DashFailed \/ \E r \in DashRange : ChooseRange(r)

-----------------------------------------------------------------------------
(* Transactions.  calm is history: no load overlapped another request, and *)
(* none was lost. *)
TxnLoad == 1..2             \* lists under way at once (a bound)
NoTxnLoad == [out |-> FALSE, run |-> FALSE, list |-> {}]
NoModal == [new |-> FALSE, edit |-> NoEntry, copy |-> NoEntry]
TxnStart ==
    [list |-> {}, loading |-> TRUE, modal |-> NoModal, calm |-> TRUE,
     load |-> [k \in TxnLoad |-> [NoTxnLoad EXCEPT !.out = k = 1]],
     delete |-> [t \in Entry |-> "no"], save |-> "no", of |-> NoEntry,
     book |-> FirstEntries, day |-> FirstDay, used |-> FirstEntries]

TxnWrites(m) == m.save # "no" \/ \E t \in Entry : m.delete[t] # "no"
FreeTxnLoad(m) == {k \in TxnLoad : ~m.load[k].out}

(* loadData. *)
Reloading(m) ==
    [m EXCEPT !.loading = TRUE,
       !.calm = @ /\ ~TxnWrites(m) /\ FreeTxnLoad(m) = TxnLoad,
       !.load[CHOOSE k \in FreeTxnLoad(m) : TRUE] = [NoTxnLoad EXCEPT !.out = TRUE]]

(* What ListTransactions may answer: the newest entries up to the limit,   *)
(* of those of one day any, as their ids may be the same or blank. *)
Newest(book, day) ==
    {S \in SUBSET book :
       /\ IF Cardinality(book) <= TxnLimit THEN S = book ELSE Cardinality(S) = TxnLimit
       /\ \A t \in S, u \in book \ S : day[t] >= day[u]}
TxnRun(k) ==
    /\ txn.load[k].out /\ ~txn.load[k].run
    /\ \E list \in Newest(txn.book, txn.day) :
         txn' = [txn EXCEPT !.load[k].run = TRUE, !.load[k].list = list]
TxnAnswered(k) ==
    /\ txn.load[k].run
    /\ txn' = [txn EXCEPT !.list = txn.load[k].list, !.loading = FALSE, !.load[k] = NoTxnLoad]
TxnFailed(k) ==
    /\ txn.load[k].out
    /\ txn' = [txn EXCEPT !.loading = FALSE, !.load[k] = NoTxnLoad, !.calm = FALSE]

(* handleDelete. *)
TxnDelete(t) ==
    /\ ~txn.loading /\ txn.modal = NoModal /\ t \in txn.list /\ txn.delete[t] = "no"
    /\ txn' = [txn EXCEPT !.delete[t] = "sent"]
TxnRunDelete(t) ==
    /\ txn.delete[t] = "sent"
    /\ txn' = [txn EXCEPT !.delete[t] = IF t \in txn.book THEN "run" ELSE "refused",
                          !.book = @ \ {t}]
AfterDelete_listed(m) == [m EXCEPT !.loading = FALSE]   \* fault
AfterDelete(m) == Reloading(m)
TxnDeleteAnswered(t) ==
    /\ txn.delete[t] = "run" /\ FreeTxnLoad(txn) # {}
    /\ txn' = AfterDelete([txn EXCEPT !.delete[t] = "no"])
TxnDeleteFailed(t) ==
    /\ txn.delete[t] # "no"
    /\ txn' = [txn EXCEPT !.delete[t] = "no", !.calm = FALSE]

(* The form: new by its button or the N key, which works behind the        *)
(* spinner too, edit by a row, copy by a row's button.  It is shown when   *)
(* one of the three is set and the page does not load. *)
OpenNew ==
    /\ ~txn.modal.new /\ (txn.loading \/ txn.modal = NoModal)
    /\ txn' = [txn EXCEPT !.modal.new = TRUE]
OpenEntry(t) ==
    /\ ~txn.loading /\ txn.modal = NoModal /\ t \in txn.list
    /\ \/ txn' = [txn EXCEPT !.modal.edit = t]
       \/ txn' = [txn EXCEPT !.modal.copy = t]
TxnFormClosed ==
    /\ ~txn.loading /\ txn.modal # NoModal
    /\ txn' = [txn EXCEPT !.modal = NoModal]
TxnFormSent ==
    /\ ~txn.loading /\ txn.modal # NoModal /\ txn.save = "no"
    /\ txn' = [txn EXCEPT !.save = IF txn.modal.edit # NoEntry THEN "edit" ELSE "new",
                          !.of = txn.modal.edit]
TxnFormRuns ==      \* an entry that is gone is not edited
    \E d \in TxnDay :
        \/ /\ txn.save = "edit" /\ txn.of \in txn.book
           /\ txn' = [txn EXCEPT !.save = "run", !.day[txn.of] = d]
        \/ /\ txn.save = "new"
           /\ \E t \in Entry \ txn.used :
                txn' = [txn EXCEPT !.save = "run", !.day[t] = d, !.book = @ \cup {t},
                                   !.used = @ \cup {t}]

(* onCreated, then onClose, also when the form they come from is gone. *)
TxnFormCreated ==
    /\ txn.save = "run" /\ FreeTxnLoad(txn) # {}
    /\ txn' = Reloading([txn EXCEPT !.save = "no", !.modal = NoModal])
TxnFormFailed ==
    /\ txn.save # "no"
    /\ txn' = [txn EXCEPT !.save = "no", !.calm = FALSE]

TxnNext ==
    \/ \E k \in TxnLoad : TxnRun(k) \/ TxnAnswered(k) \/ TxnFailed(k)
    \/ \E t \in Entry : \/ TxnDelete(t) \/ TxnRunDelete(t) \/ TxnDeleteAnswered(t)
                        \/ TxnDeleteFailed(t) \/ OpenEntry(t)
    \/ OpenNew \/ TxnFormClosed \/ TxnFormSent \/ TxnFormRuns \/ TxnFormCreated
    \/ TxnFormFailed

-----------------------------------------------------------------------------
(* Snapshots.  The list is loaded once; afterwards the page changes it by  *)
(* itself.  calm is history: nothing was asked while the list was loaded,  *)
(* nothing failed and nothing was restored.  The form of the schedule and  *)
(* the snapshots the scheduler takes are left out. *)
SnapStart ==
    [list |-> <<>>, taking |-> FALSE,
     restoring |-> NoSnap, deleting |-> NoSnap, calm |-> TRUE,
     load |-> "sent", got |-> <<>>, take |-> NoSnap,
     restore |-> [s \in Snap |-> "no"], delete |-> [s \in Snap |-> "no"],
     reload |-> FALSE, server |-> FirstSnaps, used |-> Range(FirstSnaps)]

SnapAsked(m) ==
    \/ m.load # "done" \/ m.taking
    \/ \E s \in Snap : m.delete[s] # "no" \/ m.restore[s] # "no"
Dropped(list, s) ==         \* the n-th row is the n-th of those that stay
    LET stay == {i \in DOMAIN list : list[i] # s}
        Nth(n) == CHOOSE i \in stay : Cardinality({j \in stay : j <= i}) = n
    IN  [n \in 1..Cardinality(stay) |-> list[Nth(n)]]

(* The list that is awaited with the schedule; a failed one is empty. *)
SnapRun ==
    /\ snap.load = "sent"
    /\ snap' = [snap EXCEPT !.load = "run", !.got = snap.server]
SnapAnswered ==
    /\ snap.load = "run"
    /\ snap' = [snap EXCEPT !.load = "done", !.list = snap.got, !.got = <<>>]
SnapFailed ==
    /\ snap.load # "done"
    /\ snap' = [snap EXCEPT !.load = "done", !.list = <<>>, !.got = <<>>, !.calm = FALSE]

(* A new snapshot is put in front of the list when the answer is there. *)
HandleTake ==
    /\ ~snap.taking
    /\ snap' = [snap EXCEPT !.taking = TRUE, !.calm = @ /\ snap.load = "done"]
RunTake ==
    /\ snap.taking /\ snap.take = NoSnap
    /\ \E s \in Snap \ snap.used :
         snap' = [snap EXCEPT !.take = s, !.server = <<s>> \o @, !.used = @ \cup {s}]
Taken_appended(m) == [m EXCEPT !.list = Append(@, m.take)]   \* fault
Taken(m) == [m EXCEPT !.list = <<m.take>> \o @]
TakeAnswered ==
    /\ snap.take # NoSnap
    /\ snap' = [Taken(snap) EXCEPT !.taking = FALSE, !.take = NoSnap]
TakeFailed ==
    /\ snap.taking
    /\ snap' = [snap EXCEPT !.taking = FALSE, !.take = NoSnap, !.calm = FALSE]

(* The buttons of a row wait while the row is the last one restored or     *)
(* deleted; a row's request is awaited before it is repeated (a bound).    *)
RowFree(s) == s \in Range(snap.list) /\ s \notin {snap.restoring, snap.deleting}
HandleSnapDelete(s) ==
    /\ RowFree(s) /\ snap.delete[s] = "no"
    /\ snap' = [snap EXCEPT !.deleting = s, !.delete[s] = "sent"]
RunSnapDelete(s) ==
    /\ snap.delete[s] = "sent"
    /\ snap' = [snap EXCEPT !.server = Dropped(@, s),
                  !.delete[s] = IF s \in Range(snap.server) THEN "run" ELSE "refused"]
SnapDeleteAnswered(s) ==
    /\ snap.delete[s] = "run"
    /\ snap' = [snap EXCEPT !.delete[s] = "no", !.list = Dropped(@, s), !.deleting = NoSnap]
SnapDeleteFailed(s) ==
    /\ snap.delete[s] # "no"
    /\ snap' = [snap EXCEPT !.delete[s] = "no", !.deleting = NoSnap, !.calm = FALSE]

(* A restore takes a snapshot of its own first, if its quota allows, and   *)
(* the page is loaded anew a second after its answer.  One at a time (a    *)
(* bound). *)
HandleRestore(s) ==
    /\ RowFree(s) /\ \A r \in Snap : snap.restore[r] = "no"
    /\ snap' = [snap EXCEPT !.restoring = s, !.restore[s] = "sent", !.calm = FALSE]
RunRestore(s) ==
    /\ snap.restore[s] = "sent"
    /\ \/ snap' = [snap EXCEPT !.restore[s] = "run"]
       \/ \E b \in Snap \ snap.used :
            snap' = [snap EXCEPT !.restore[s] = "run", !.server = <<b>> \o @,
                                 !.used = @ \cup {b}]
RestoreAnswered(s) ==
    /\ snap.restore[s] = "run"
    /\ snap' = [snap EXCEPT !.restore[s] = "no", !.reload = TRUE]
RestoreFailed(s) ==
    /\ snap.restore[s] # "no"
    /\ snap' = [snap EXCEPT !.restore[s] = "no", !.restoring = NoSnap]
SnapReload ==
    /\ snap.reload
    /\ snap' = [SnapStart EXCEPT !.server = snap.server, !.used = snap.used]

SnapNext ==
    \/ SnapRun \/ SnapAnswered \/ SnapFailed \/ HandleTake
    \/ RunTake \/ TakeAnswered \/ TakeFailed \/ SnapReload
    \/ \E s \in Snap : \/ HandleSnapDelete(s) \/ RunSnapDelete(s) \/ SnapDeleteAnswered(s)
                       \/ SnapDeleteFailed(s) \/ HandleRestore(s) \/ RunRestore(s)
                       \/ RestoreAnswered(s) \/ RestoreFailed(s)

-----------------------------------------------------------------------------
(* The net worth of all time is what was earned less what was spent and    *)
(* what stands on accounts of the types the dashboard does not count:      *)
(* equity, and whatever else an import brought in.  No other account is    *)
(* left out or has a wrong sign, unless the debts are overpaid or more     *)
(* income was taken back than earned, which it shows as their opposite.    *)
DashNetWorth ==
    LET b == dash.bal
    IN  (dash.of = "all" /\ SumOf(b, Debts) <= 0 /\ SumOf(b, {"INCOME"}) <= 0) =>
            NetWorth(b) = Income(b) - Expenses(b) - SumOf(b, Uncounted)

(* Between requests, the list of transactions is one the server may        *)
(* answer now: deletes and saves, which end in a reload, leave no row      *)
(* behind, the rows are as many as the limit and the books allow, and none *)
(* that is left out is newer than one that is shown, unless a load         *)
(* overlapped another request or an answer was lost. *)
TxnListTrue ==
    (txn.calm /\ ~txn.loading /\ ~TxnWrites(txn)) => txn.list \in Newest(txn.book, txn.day)

(* Between requests, the list of snapshots is the server's, newest first,  *)
(* although it is patched after each take and delete and never loaded      *)
(* again: answers may come in any order. *)
SnapListTrue ==
    (snap.calm /\ ~SnapAsked(snap)) => snap.list = snap.server
=============================================================================
