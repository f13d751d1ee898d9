----------------------------- MODULE EntryForm -----------------------------
(***************************************************************************)
(* The transaction form of the web client (components/TransactionForm.tsx) *)
(* with its keyboard shortcuts (hooks/useShortcuts.ts), and, on its own,   *)
(* the account picker of a row (components/AccountPicker.tsx).             *)
(*                                                                         *)
(* The text of an amount is told by what parseFloat makes of it (lead: the *)
(* number it begins with), what evaluateMath makes of it (value), and by   *)
(* its kind.  Amounts are cents.                                           *)
(***************************************************************************)
EXTENDS Integers, Sequences, FiniteSetsExt

CONSTANTS FrmAccount, NoAcct,
          NaN,              \* no number
          Texts,            \* the amounts the user types
          Defaults,         \* the account the page passes for the first row
          OldRows,          \* the splits of the transaction edited or duplicated
          Balance,          \* the balances of the accounts
          Imbalance,        \* the account the server balances with, if one is so named
          MaxRows,          \* rows of a form (a bound)
          MaxEdits,         \* what the user types, picks, adds or removes in it (a bound)
          Query, NoQuery, Hits   \* what a picker is searched for, and matches

Blank == [kind |-> "blank", lead |-> NaN, value |-> NaN]
Dash == [kind |-> "dash", lead |-> NaN, value |-> NaN]
Plain(n) == [kind |-> "text", lead |-> n, value |-> n]

ASSUME FrmAssumption ==
    /\ NoAcct \notin FrmAccount /\ Defaults \subseteq FrmAccount \cup {NoAcct} /\ Defaults # {}
    /\ NaN \notin Int
    /\ Texts \subseteq [kind : {"blank", "dash", "text"}, lead : Int \cup {NaN},
                        value : Int \cup {NaN}]
    /\ OldRows \in Seq([acct : FrmAccount, n : Int]) /\ Len(OldRows) \in 1..MaxRows
    /\ Balance \in [FrmAccount -> Int] /\ Imbalance \in FrmAccount \cup {NoAcct}
    /\ MaxRows \in Nat \ {0, 1} /\ MaxEdits \in Nat
    /\ NoQuery \notin Query /\ Hits \in [Query \cup {NoQuery} -> Nat]

VARIABLES frm,      \* the state of the form
          frmNet,   \* its outstanding requests
          frmBook,  \* the server's balances and the transaction edited
          pick      \* an account picker
frmVars == <<frm, frmNet, frmBook>>

-----------------------------------------------------------------------------
Row(a, x) == [acct |-> a, text |-> x]
IsNum(n) == n # NaN
Number(n) == IF IsNum(n) THEN n ELSE 0
RowsOf(rows, a) == {i \in DOMAIN rows : rows[i].acct = a}
Numbers(rows) == [i \in DOMAIN rows |-> Number(rows[i].text.value)]
OfAccount(rows, a) == MapThenSumSet(LAMBDA i : Numbers(rows)[i], RowsOf(rows, a))

OldForm == [i \in DOMAIN OldRows |-> Row(OldRows[i].acct, Plain(OldRows[i].n))]

(* What the edited transaction contributes to an account by itself: the    *)
(* sum of its splits there. *)
Original_last(rows, a) ==   \* fault
    LET S == RowsOf(rows, a)
    IN  IF S = {} THEN 0 ELSE rows[CHOOSE i \in S : \A j \in S : j <= i].text.value
Original(rows, a) == OfAccount(rows, a)

(* What is missing for the rows to balance, and how many are not zero. *)
LeftOver(rows) == MapThenSumSet(LAMBDA i : Numbers(rows)[i], DOMAIN rows)
Sides(rows) == Cardinality({i \in DOMAIN rows : Numbers(rows)[i] # 0})

NoWrite == [out |-> FALSE, run |-> FALSE, adds |-> [a \in FrmAccount |-> 0],
            rest |-> 0, sides |-> 0]
Tries == 1..2       \* times a form is sent (a bound)

(* mirror and hand, calm and shown are history: only one row was typed in, *)
(* numbers and blanks; the entry was loaded and one save was sent; the     *)
(* balances that were projected when it was, and what did not add up then. *)
(* Other tabs are left out. *)
FrmStart(mode, a) ==
    [mode |-> mode, open |-> TRUE, loading |-> mode # "new",
     rows |-> <<Row(a, Blank), Row(NoAcct, Blank)>>,
     orig |-> [b \in FrmAccount |-> 0], known |-> FALSE, bal |-> Balance,
     edits |-> 0, sent |-> 0, saved |-> FALSE,
     mirror |-> mode = "new", hand |-> 0, calm |-> TRUE,
     shown |-> [b \in FrmAccount |-> NaN], rest |-> 0]
FrmNetStart(mode) ==
    [accounts |-> TRUE, tx |-> mode # "new", save |-> [k \in Tries |-> NoWrite]]
FrmBooks == [bal |-> Balance, old |-> [a \in FrmAccount |-> OfAccount(OldForm, a)]]
FrmInit == \E mode \in {"new", "edit", "copy"}, a \in Defaults :
    frm = FrmStart(mode, a) /\ frmNet = FrmNetStart(mode) /\ frmBook = FrmBooks

(* While it loads, a form that edits or copies shows a spinner. *)
Visible == frm.open /\ ~(frm.loading /\ frm.mode # "new")
Editable == Visible /\ frm.edits < MaxEdits
Edited(f) == [f EXCEPT !.edits = @ + 1]

-----------------------------------------------------------------------------
(* The accounts with their balances, and the transaction, are loaded. *)
FrmAccountsAnswered(ok) ==
    /\ frmNet.accounts
    /\ frm' = IF ok THEN [frm EXCEPT !.known = TRUE, !.bal = frmBook.bal] ELSE frm
    /\ frmNet' = [frmNet EXCEPT !.accounts = FALSE]
    /\ UNCHANGED frmBook

FrmLoaded(ok) ==
    /\ frmNet.tx
    /\ frm' = IF ok
              THEN [frm EXCEPT !.loading = FALSE, !.rows = OldForm,
                      !.orig = [a \in FrmAccount |->
                                  IF frm.mode = "edit" THEN Original(OldForm, a) ELSE 0]]
              ELSE [frm EXCEPT !.loading = FALSE, !.calm = FALSE]
    /\ frmNet' = [frmNet EXCEPT !.tx = FALSE]
    /\ UNCHANGED frmBook

-----------------------------------------------------------------------------
(* updateSplit of an amount: with two rows, the other one follows while it *)
(* is empty or the opposite number. *)
Follows(rows, i) ==
    LET other == rows[3 - i].text
    IN  \/ other.kind = "blank"
        \/ /\ IsNum(rows[i].text.lead) /\ IsNum(other.lead)
           /\ rows[i].text.lead + other.lead = 0
Mirrored_keepsOnDash(rows, i, x) ==   \* fault
    IF IsNum(x.lead) THEN Plain(-x.lead)
    ELSE IF x.kind = "blank" THEN Blank ELSE rows[3 - i].text
Mirrored(rows, i, x) ==
    IF IsNum(x.lead) THEN Plain(-x.lead)
    ELSE IF x.kind \in {"blank", "dash"} THEN Blank ELSE rows[3 - i].text
WithAmount(rows, i, x) ==
    IF Len(rows) = 2 /\ Follows(rows, i)
    THEN [rows EXCEPT ![i].text = x, ![3 - i].text = Mirrored(rows, i, x)]
    ELSE [rows EXCEPT ![i].text = x]

TypeAmount(i, x) ==
    /\ Editable /\ i \in DOMAIN frm.rows /\ x # frm.rows[i].text
    /\ frm' = [Edited(frm) EXCEPT !.rows = WithAmount(@, i, x), !.hand = i,
              !.mirror = @ /\ frm.hand \in {0, i} /\ (IsNum(x.lead) \/ x.kind # "text")]
    /\ UNCHANGED <<frmNet, frmBook>>

(* handleAmountBlur: an expression becomes its value, which is typed. *)
BlurAmount(i) ==
    /\ Editable /\ i \in DOMAIN frm.rows
    /\ LET v == frm.rows[i].text.value
       IN  /\ IsNum(v) /\ frm.rows[i].text # Plain(v)
           /\ frm' = [Edited(frm) EXCEPT !.rows = WithAmount(@, i, Plain(v))]
    /\ UNCHANGED <<frmNet, frmBook>>

PickAccount(i, a) ==
    /\ Editable /\ frm.known /\ i \in DOMAIN frm.rows
    /\ frm' = [Edited(frm) EXCEPT !.rows[i].acct = a]
    /\ UNCHANGED <<frmNet, frmBook>>

AddRow ==
    /\ Editable /\ Len(frm.rows) < MaxRows
    /\ frm' = [Edited(frm) EXCEPT !.rows = Append(@, Row(NoAcct, Blank)), !.mirror = FALSE]
    /\ UNCHANGED <<frmNet, frmBook>>
RemoveRow(i) ==
    /\ Editable /\ i \in DOMAIN frm.rows /\ Len(frm.rows) > 1
    /\ frm' = [Edited(frm) EXCEPT !.mirror = FALSE,
                 !.rows = SubSeq(@, 1, i - 1) \o SubSeq(@, i + 1, Len(@))]
    /\ UNCHANGED <<frmNet, frmBook>>

-----------------------------------------------------------------------------
(* handleSubmit: rows with neither account nor amount are dropped, the     *)
(* others must have both; whether they add up is not asked. *)
Given == {i \in DOMAIN frm.rows : frm.rows[i].acct # NoAcct \/ frm.rows[i].text.kind # "blank"}
Sendable == /\ Given # {}
            /\ \A i \in Given : frm.rows[i].acct # NoAcct /\ IsNum(frm.rows[i].text.value)
Projected(a) ==
    IF frm.known /\ RowsOf(frm.rows, a) # {}
    THEN frm.bal[a] - frm.orig[a] + OfAccount(frm.rows, a) ELSE NaN

HandleSubmit ==
    /\ Visible /\ Sendable
    /\ frm.sent + 1 \in Tries
    /\ frm' = [frm EXCEPT !.loading = TRUE, !.sent = @ + 1, !.calm = @ /\ frm.sent = 0,
                 !.shown = [a \in FrmAccount |-> Projected(a)], !.rest = LeftOver(frm.rows)]
    /\ frmNet' = [frmNet EXCEPT !.save[frm.sent + 1] = [NoWrite EXCEPT !.out = TRUE,
                    !.adds = [a \in FrmAccount |-> OfAccount(frm.rows, a)],
                    !.rest = LeftOver(frm.rows), !.sides = Sides(frm.rows)]]
    /\ UNCHANGED frmBook

(* The button, and the enter key in a field, wait for loading. *)
SubmitClick == ~frm.loading /\ HandleSubmit

(* Ctrl+Enter outside of a field calls requestSubmit, which does not ask   *)
(* the button. *)
CtrlEnter == frm.loading /\ HandleSubmit

(* UpdateTransaction refuses rows that do not add up; CreateTransaction    *)
(* books what is missing to the account Imbalance, which it creates if     *)
(* there is none.  Both drop rows of zero and want two others.             *)
Accepted(w) ==
    IF frm.mode = "edit" THEN w.rest = 0 /\ w.sides >= 2
    ELSE w.sides + (IF w.rest = 0 THEN 0 ELSE 1) >= 2
OfImbalance(rest, a) == IF a = Imbalance THEN rest ELSE 0

SaveRuns(k) ==
    /\ frmNet.save[k].out /\ ~frmNet.save[k].run /\ Accepted(frmNet.save[k])
    /\ LET w == frmNet.save[k]
       IN  frmBook' = IF frm.mode = "edit"
             THEN [frmBook EXCEPT !.old = w.adds,
                     !.bal = [a \in FrmAccount |-> @[a] - frmBook.old[a] + w.adds[a]]]
             ELSE [frmBook EXCEPT !.bal =
                     [a \in FrmAccount |-> @[a] + w.adds[a] - OfImbalance(w.rest, a)]]
    /\ frmNet' = [frmNet EXCEPT !.save[k].run = TRUE]
    /\ UNCHANGED frm

SaveAnswered(k) ==
    /\ frmNet.save[k].run
    /\ frm' = [frm EXCEPT !.loading = FALSE, !.open = FALSE, !.saved = TRUE]
    /\ frmNet' = [frmNet EXCEPT !.save[k] = NoWrite]
    /\ UNCHANGED frmBook
SaveFailed(k) ==
    /\ frmNet.save[k].out
    /\ frm' = [frm EXCEPT !.loading = FALSE, !.calm = FALSE]
    /\ frmNet' = [frmNet EXCEPT !.save[k] = NoWrite]
    /\ UNCHANGED frmBook

(* Cancel, a click beside the modal, or Escape wherever the focus is: the  *)
(* shortcut listens on the document in the capture phase, before a picker. *)
CloseForm ==
    /\ frm.open
    /\ frm' = [frm EXCEPT !.open = FALSE]
    /\ UNCHANGED <<frmNet, frmBook>>

FrmNext ==
    \/ \E ok \in BOOLEAN : FrmAccountsAnswered(ok) \/ FrmLoaded(ok)
    \/ \E i \in 1..MaxRows : \/ \E x \in Texts : TypeAmount(i, x)
                             \/ \E a \in FrmAccount : PickAccount(i, a)
                             \/ BlurAmount(i) \/ RemoveRow(i)
    \/ AddRow \/ SubmitClick \/ CtrlEnter \/ CloseForm
    \/ \E k \in Tries : SaveRuns(k) \/ SaveAnswered(k) \/ SaveFailed(k)

-----------------------------------------------------------------------------
(* A picker.  A key pressed in its search field is handled there and again *)
(* by the trigger around it; Enter then picks the same account twice.      *)
PickStart == [open |-> FALSE, field |-> FALSE, query |-> NoQuery, hi |-> 0,
              known |-> FALSE, picked |-> FALSE]
PickInit == pick = PickStart

Shows(p) == IF p.known THEN Hits[p.query] ELSE 0
Least(m, n) == IF m < n THEN m ELSE n
Down(p, hi) == Least(hi + 1, Shows(p) - 1)
Up(p, hi) == IF hi > 1 THEN hi - 1 ELSE 0

PickerAccounts == ~pick.known /\ pick' = [pick EXCEPT !.known = TRUE]
PickerClick == pick' = [pick EXCEPT !.open = TRUE, !.field = TRUE]
PickerKeyOpens == ~pick.open /\ pick' = [pick EXCEPT !.open = TRUE]

(* The highlight goes back to the first option when the query changes. *)
Queried_keeps(p, q) == [p EXCEPT !.query = q]   \* fault
Queried(p, q) == [p EXCEPT !.query = q, !.hi = IF q = p.query THEN @ ELSE 0]
PickerQuery(q) == pick.open /\ pick.field /\ pick' = Queried(pick, q)
PickerShut(p) == [Queried(p, NoQuery) EXCEPT !.open = FALSE, !.field = FALSE]

PickerArrow ==
    /\ pick.open
    /\ pick' = [pick EXCEPT !.hi = IF pick.field THEN Down(pick, Down(pick, @)) ELSE Down(pick, @)]
       \/ pick' = [pick EXCEPT !.hi = IF pick.field THEN Up(pick, Up(pick, @)) ELSE Up(pick, @)]
PickerHover(i) == pick.open /\ i < Shows(pick) /\ pick' = [pick EXCEPT !.hi = i]
PickerTakes ==      \* Enter, or a click on an option
    /\ pick.open /\ pick.hi >= 0 /\ pick.hi < Shows(pick)
    /\ pick' = [PickerShut(pick) EXCEPT !.picked = TRUE]
PickerLeft == pick.open /\ pick' = PickerShut(pick)

PickNext ==
    \/ PickerAccounts \/ PickerClick \/ PickerKeyOpens \/ PickerArrow \/ PickerTakes
    \/ PickerLeft \/ \E q \in Query \cup {NoQuery} : PickerQuery(q)
    \/ \E i \in 0..Hits[NoQuery] : PickerHover(i)

-----------------------------------------------------------------------------
(* The types; a form has a row, its spinner goes away, and a picker never  *)
(* highlights behind its last option (-1 while it had none to show). *)
FrmTypeOK ==
    /\ Len(frm.rows) \in 1..MaxRows
    /\ \A i \in DOMAIN frm.rows : frm.rows[i].acct \in FrmAccount \cup {NoAcct}
    /\ frm.open /\ frm.loading => frmNet.tx \/ \E k \in Tries : frmNet.save[k].out
    /\ frmBook.bal \in [FrmAccount -> Int] /\ frm.orig \in [FrmAccount -> Int]
    /\ pick.hi >= -1 /\ (pick.hi > 0 => pick.hi < Shows(pick))

(* The auto-balance of a new entry: as long as only one amount is typed in *)
(* and what is typed is a number, an expression, a minus sign or nothing,  *)
(* the two amounts add up to zero or both are open. *)
FrmMirrored ==
    frm.mirror =>
        LET x == frm.rows[1].text.lead
            y == frm.rows[2].text.lead
        IN  IF IsNum(x) THEN IsNum(y) /\ x + y = 0 ELSE ~IsNum(y)

(* Once a form is saved, an account has the balance that was projected     *)
(* under its row when the form was sent, for new, edited and copied        *)
(* entries and several rows of one account, if the entry was loaded and    *)
(* the form was sent once.  Only the account Imbalance differs, and by     *)
(* exactly what the rows did not add up to; of an edited entry they do.    *)
FrmProjected ==
    (frm.saved /\ frm.calm) =>
        /\ frm.mode = "edit" => frm.rest = 0
        /\ \A a \in FrmAccount :
             IsNum(frm.shown[a]) => frmBook.bal[a] = frm.shown[a] - OfImbalance(frm.rest, a)
=============================================================================
