----------------------------- MODULE Reconcile -----------------------------
(***************************************************************************)
(* The reconcile wizard of the web client (components/ReconcileWizard.tsx) *)
(* as the register page opens it for one account, whose type it is told,   *)
(* and the accounts page for an account and its descendants, whose types   *)
(* it is not told; against the server's registers, reconciled balances and *)
(* batch.                                                                  *)
(*                                                                         *)
(* Splits are numbers in the order of the register, a date is a split: the *)
(* last one that is not after it.  Amounts are cents, a debit positive.    *)
(***************************************************************************)
EXTENDS Integers, FiniteSets, FiniteSetsExt

CONSTANTS RecAccount,
          ServerDebit,      \* accounts of a type IsDebitNormal counts in
          ClientCredit,     \* accounts of a type isCreditNormal counts in
          RecSplit, RecHome,
          Amounts, Marks,   \* the books the wizard may open on
          Edits,            \* edits made elsewhere, as <<split, amount>>
          Typed,            \* ending balances the user types
          RecDates,         \* statement dates the user picks
          RecWizards,       \* the accounts and knowledge of the type it is opened with
          RecMaxEvents      \* openings and edits elsewhere, together (a bound)

ASSUME RecAssumption ==
    /\ ServerDebit \subseteq RecAccount /\ ClientCredit \subseteq RecAccount
    /\ RecSplit \subseteq Nat /\ IsFiniteSet(RecSplit)
    /\ RecHome \in [RecSplit -> RecAccount]
    /\ Amounts \in [RecSplit -> Int] /\ Marks \in [RecSplit -> {"n", "c", "y"}]
    /\ Edits \subseteq RecSplit \X Int /\ Typed \subseteq Int
    /\ RecDates \subseteq Nat /\ RecDates # {}
    /\ RecWizards \subseteq (SUBSET RecAccount) \X BOOLEAN
    /\ \A w \in RecWizards : w[2] => (\E a \in RecAccount : w[1] = {a})
    /\ RecMaxEvents \in Nat

VARIABLES rec,      \* the state of the component
          recNet,   \* its requests, by kind; a suggestion by its date
          recBook   \* the server's splits
recVars == <<rec, recNet, recBook>>

RecSum(f, S) == MapThenSumSet(LAMBDA s : f[s], S)
SplitsOf(A) == {s \in RecSplit : RecHome[s] \in A}

-----------------------------------------------------------------------------
(* A Promise.all over the accounts: each is read when the server gets to   *)
(* it, and what is read is kept. *)
Hint(date) == <<"suggestion", date>>
BalanceQ == <<"balance", 0>>
RegisterQ == <<"register", 0>>
BatchQ == <<"batch", 0>>
Reads == {BalanceQ, RegisterQ} \cup {Hint(d) : d \in RecDates}
Nobody == [out |-> FALSE, unread |-> {}, amt |-> [s \in RecSplit |-> 0],
           mark |-> [s \in RecSplit |-> "n"], sent |-> {}, cutoff |-> 0,
           own |-> FALSE, run |-> FALSE]
Asked(A) == [Nobody EXCEPT !.out = TRUE, !.unread = A, !.own = TRUE]
RecDone(k) == recNet[k].out /\ recNet[k].unread = {}
RecWithout(k) == [recNet EXCEPT ![k] = Nobody]

(* The answers about one account. *)
RecRead(k, a) ==
    /\ a \in recNet[k].unread
    /\ LET got(s) == RecHome[s] = a
       IN  recNet' = [recNet EXCEPT ![k].unread = @ \ {a},
             ![k].amt = [s \in RecSplit |-> IF got(s) THEN recBook.amt[s] ELSE @[s]],
             ![k].mark = [s \in RecSplit |-> IF got(s) THEN recBook.mark[s] ELSE @[s]]]
    /\ UNCHANGED <<rec, recBook>>

-----------------------------------------------------------------------------
(* What the wizard computes.  r.typed tells whether it was given a type. *)
CreditNormal(r) == r.typed /\ r.accts \subseteq ClientCredit
Signed(r, n) == IF CreditNormal(r) THEN -n ELSE n

(* The server says deposit or withdrawal by the account's type; the wizard *)
(* takes one of them as funds in. *)
Deposit(s, n) == IF RecHome[s] \in ServerDebit THEN n >= 0 ELSE n <= 0
FundsIn(r, s) == Deposit(s, r.amt[s]) # CreditNormal(r)
Abs(n) == IF n < 0 THEN -n ELSE n
Total(r, in) == RecSum([s \in RecSplit |-> Abs(r.amt[s])],
                       {s \in r.entries \cap r.selected : FundsIn(r, s) = in})
Reconciled(r) == r.starting + Total(r, TRUE) - Total(r, FALSE)
Fits(r) == r.ending = Signed(r, Reconciled(r))

(* The suggested ending balance: the running balance, in its own account,  *)
(* of the last entry up to the date.  An account without entries answers   *)
(* null, on which the handler fails. *)
LastBalance(q, A, date) ==
    LET S == {s \in SplitsOf(A) : s <= date}
        last == CHOOSE s \in S : \A u \in S : u <= s
    IN  IF S = {} THEN 0
        ELSE RecSum(q.amt, {s \in SplitsOf({RecHome[last]}) : s <= last})
NoNull(A) == \A a \in A : SplitsOf({a}) # {}

(* The entries of step 2, and those of them that are ticked at the start. *)
Unreconciled_all(q, A) == {s \in SplitsOf(A) : s <= q.cutoff}   \* fault
Unreconciled(q, A) == {s \in SplitsOf(A) : q.mark[s] # "y" /\ s <= q.cutoff}
Preselected_all(q, A) == {s \in SplitsOf(A) : q.mark[s] = "c"}   \* fault
Preselected(q, A) == {s \in Unreconciled(q, A) : q.mark[s] = "c"}

-----------------------------------------------------------------------------
(* The wizard mounts: its state is new, the balances and a suggestion for  *)
(* today are asked for.  history: known, the starting balance has come;    *)
(* calm, nothing that changes the accounts is or was on its way; goal, the *)
(* ending balance Finish was pressed on. *)
Closed == [step |-> "closed", accts |-> {}, typed |-> FALSE, date |-> 0,
           ending |-> 0, filled |-> FALSE, starting |-> 0,
           entries |-> {}, amt |-> [s \in RecSplit |-> 0], selected |-> {},
           loading |-> FALSE, wrote |-> FALSE,
           known |-> FALSE, calm |-> FALSE, goal |-> 0, events |-> 0]
NoAsk == [k \in Reads \cup {BatchQ} |-> Nobody]
RecBooks == [amt |-> Amounts, mark |-> Marks]
RecInit == rec = Closed /\ recNet = NoAsk /\ recBook = RecBooks

RecOpen(A, typed, today) ==
    /\ rec.step = "closed" /\ rec.events < RecMaxEvents
    /\ rec' = [Closed EXCEPT !.step = "info", !.accts = A, !.typed = typed, !.date = today,
                 !.calm = ~recNet[BatchQ].out, !.events = rec.events + 1]
    /\ recNet' = [NoAsk EXCEPT ![BalanceQ] = Asked(A), ![Hint(today)] = Asked(A),
                               ![BatchQ] = [recNet[BatchQ] EXCEPT !.own = FALSE]]
    /\ UNCHANGED recBook

(* Cancel, or a click beside the modal; what is still answered is ignored, *)
(* but for a batch. *)
RecShut(r) == [Closed EXCEPT !.events = r.events]
RecClose ==
    /\ rec.step # "closed"
    /\ rec' = RecShut(rec)
    /\ recNet' = [NoAsk EXCEPT ![BatchQ] = [recNet[BatchQ] EXCEPT !.own = FALSE]]
    /\ UNCHANGED recBook

(* The date changes, which asks for another suggestion and abandons none.  *)
(* One suggestion per date is followed (a bound). *)
PickDate(date) ==
    /\ rec.step = "info" /\ date # rec.date /\ ~recNet[Hint(date)].out
    /\ rec' = [rec EXCEPT !.date = date]
    /\ recNet' = [recNet EXCEPT ![Hint(date)] = Asked(rec.accts)]
    /\ UNCHANGED recBook

TypeEnding(n) ==
    /\ rec.step = "info"
    /\ rec' = [rec EXCEPT !.ending = n, !.filled = TRUE]
    /\ UNCHANGED <<recNet, recBook>>
ClearEnding ==
    /\ rec.step = "info" /\ rec.filled
    /\ rec' = [rec EXCEPT !.ending = 0, !.filled = FALSE]
    /\ UNCHANGED <<recNet, recBook>>

(* A suggestion sets the ending balance whenever it comes. *)
Suggested(date) ==
    /\ RecDone(Hint(date))
    /\ LET n == Signed(rec, LastBalance(recNet[Hint(date)], rec.accts, date))
       IN  rec' = IF NoNull(rec.accts)
                  THEN [rec EXCEPT !.ending = n, !.filled = TRUE] ELSE rec
    /\ recNet' = RecWithout(Hint(date))
    /\ UNCHANGED recBook

BalanceAnswered ==
    /\ RecDone(BalanceQ)
    /\ LET q == recNet[BalanceQ]
       IN  rec' = [rec EXCEPT !.known = TRUE,
             !.starting = RecSum(q.amt, {s \in SplitsOf(rec.accts) : q.mark[s] = "y"})]
    /\ recNet' = RecWithout(BalanceQ)
    /\ UNCHANGED recBook

(* handleStartReconcile *)
StartReconcile ==
    /\ rec.step = "info" /\ ~rec.loading
    /\ rec.filled
    /\ rec' = [rec EXCEPT !.loading = TRUE]
    /\ recNet' = [recNet EXCEPT ![RegisterQ] = [Asked(rec.accts) EXCEPT !.cutoff = rec.date]]
    /\ UNCHANGED recBook

RegisterAnswered ==
    /\ RecDone(RegisterQ)
    /\ LET q == recNet[RegisterQ]
       IN  rec' = [rec EXCEPT !.entries = Unreconciled(q, rec.accts), !.amt = q.amt,
                     !.selected = Preselected(q, rec.accts),
                     !.step = "select", !.loading = FALSE]
    /\ recNet' = RecWithout(RegisterQ)
    /\ UNCHANGED recBook

(* A click on a row, and the buttons for all and none. *)
Select(S) ==
    /\ rec.step = "select"
    /\ rec' = [rec EXCEPT !.selected = S]
    /\ UNCHANGED <<recNet, recBook>>
TickRow(s) ==
    /\ s \in rec.entries
    /\ Select((rec.selected \ {s}) \cup ({s} \ rec.selected))
TickAll == Select(rec.entries) \/ Select({})

(* handleFinish.  A batch of a wizard that was closed meanwhile is         *)
(* followed to its end before another is sent (a bound). *)
Finish ==
    /\ rec.step = "select" /\ Fits(rec) /\ ~rec.loading /\ rec.selected # {}
    /\ ~recNet[BatchQ].out
    /\ rec' = [rec EXCEPT !.loading = TRUE, !.goal = rec.ending, !.calm = @ /\ rec.known]
    /\ recNet' = [recNet EXCEPT ![BatchQ] = [Asked({}) EXCEPT !.sent = rec.selected]]
    /\ UNCHANGED recBook

(* BatchReconcileSplits: one transaction, splits that are reconciled or    *)
(* gone are skipped. *)
RecBatch(b, S) ==
    [b EXCEPT !.mark = [s \in RecSplit |-> IF s \in S THEN "y" ELSE @[s]]]
RunBatch ==
    /\ recNet[BatchQ].out /\ ~recNet[BatchQ].run
    /\ recBook' = RecBatch(recBook, recNet[BatchQ].sent)
    /\ recNet' = [recNet EXCEPT ![BatchQ].run = TRUE]
    /\ UNCHANGED rec

(* onFinished and onClose, also of a wizard that is closed: onClose then   *)
(* closes the one that is open. *)
FinishAnswered ==
    /\ recNet[BatchQ].out /\ recNet[BatchQ].run
    /\ rec' = IF recNet[BatchQ].own THEN [rec EXCEPT !.step = "closed", !.wrote = TRUE]
              ELSE RecShut(rec)
    /\ recNet' = NoAsk
    /\ UNCHANGED recBook

(* A request fails, before or after the server ran it. *)
RecFailed(k) ==
    /\ recNet[k].out
    /\ rec' = CASE k \in {RegisterQ, BatchQ} /\ recNet[k].own ->
                     [rec EXCEPT !.loading = FALSE, !.calm = @ /\ k = RegisterQ]
                [] OTHER -> rec
    /\ recNet' = RecWithout(k)
    /\ UNCHANGED recBook

(* Another tab edits an amount. *)
RecEdit(e) ==
    /\ rec.events < RecMaxEvents
    /\ recBook' = [recBook EXCEPT !.amt[e[1]] = e[2]]
    /\ rec' = [rec EXCEPT !.calm = FALSE, !.events = @ + 1]
    /\ UNCHANGED recNet

-----------------------------------------------------------------------------
RecNext ==
    \/ \E w \in RecWizards, d \in RecDates : RecOpen(w[1], w[2], d)
    \/ RecClose \/ ClearEnding \/ StartReconcile \/ TickAll \/ Finish
    \/ \E d \in RecDates : PickDate(d) \/ Suggested(d)
    \/ \E n \in Typed : TypeEnding(n)
    \/ \E s \in RecSplit : TickRow(s)
    \/ \E k \in Reads, a \in RecAccount : RecRead(k, a)
    \/ BalanceAnswered \/ RegisterAnswered \/ RunBatch \/ FinishAnswered
    \/ \E k \in Reads \cup {BatchQ} : RecFailed(k)
    \/ \E e \in Edits : RecEdit(e)
RecSpec == RecInit /\ [][RecNext]_recVars

-----------------------------------------------------------------------------
(* The fields have their types, and what is ticked is listed: a split that *)
(* Finish sends is one whose amount is in the totals. *)
RecTypeOK ==
    /\ rec.step \in {"closed", "info", "select"} /\ rec.accts \subseteq RecAccount
    /\ rec.entries \subseteq SplitsOf(rec.accts) /\ rec.selected \subseteq rec.entries
    /\ rec.starting \in Int /\ rec.ending \in Int /\ rec.amt \in [RecSplit -> Int]
    /\ recBook \in [amt : [RecSplit -> Int], mark : [RecSplit -> {"n", "c", "y"}]]
    /\ \A k \in DOMAIN recNet : recNet[k].out => recNet[k].unread \subseteq RecAccount

(* The statement holds: when a wizard has finished, the reconciled balance *)
(* of its accounts is the ending balance that was confirmed, unless the    *)
(* books were changed under it, it was finished before its starting        *)
(* balance came or its answer was lost once - and unless the wizard and    *)
(* the server disagree on which side increases an account. *)
SignsAgree(r) == \A a \in r.accts : (a \in ServerDebit) # CreditNormal(r)
RecStatementHolds ==
    (rec.wrote /\ rec.calm /\ SignsAgree(rec)) =>
        Signed(rec, RecSum(recBook.amt, {s \in SplitsOf(rec.accts) : recBook.mark[s] = "y"}))
            = rec.goal
=============================================================================
