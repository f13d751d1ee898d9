---------------------------- MODULE AccountsPage ----------------------------
(***************************************************************************)
(* The accounts page of the web client (pages/Accounts.tsx) with the tree  *)
(* it shows (components/AccountTree.tsx), the form that creates and edits  *)
(* an account (components/AccountForm.tsx) and the part of AccountService  *)
(* they call.                                                              *)
(*                                                                         *)
(* Which branches are folded and which of the two balances is shown is     *)
(* left out: both are summed the same way.                                 *)
(***************************************************************************)
EXTENDS Integers, FiniteSetsExt

CONSTANTS AccAccount, AccRoot, NoOne,
          FirstTree,        \* the parents of the accounts there at first
          AccBalance,       \* a balance for each range and account
          Fixed,            \* accounts with splits, which can not be deleted
          AccMaxOps         \* filters, deletes, saves, wizards and moves elsewhere (a bound)

Ranges == {"today", "all"}
ASSUME AccAssumption ==
    /\ IsFiniteSet(AccAccount) /\ NoOne \notin AccAccount /\ AccRoot \in DOMAIN FirstTree
    /\ DOMAIN FirstTree \subseteq AccAccount /\ FirstTree[AccRoot] = NoOne
    /\ \A a \in DOMAIN FirstTree : FirstTree[a] \in DOMAIN FirstTree \cup {NoOne}
    /\ AccBalance \in [Ranges -> [AccAccount -> Int]] /\ Fixed \subseteq AccAccount
    /\ AccMaxOps \in Nat

VARIABLES acc,      \* the state of the page
          accNet,   \* its outstanding requests
          accBook   \* the server's accounts
accVars == <<acc, accNet, accBook>>

Load == 1..2        \* lists under way at once (a bound)

Missing == [parent |-> NoOne, ver |-> 0]
Gone == [parent |-> NoOne, ver |-> -1]
Present(list) == {a \in AccAccount : list[a].ver > 0}
FirstBook == [a \in AccAccount |-> IF a \in DOMAIN FirstTree
                                   THEN [parent |-> FirstTree[a], ver |-> 1] ELSE Missing]
NoAnswer == [a \in AccAccount |-> Missing]

NoForm == [open |-> FALSE, of |-> NoOne, row |-> Missing, parent |-> NoOne, saving |-> FALSE]
NoLoad == [out |-> FALSE, run |-> FALSE, range |-> "all", list |-> NoAnswer]
NoSave == [out |-> FALSE, run |-> FALSE, own |-> FALSE, ok |-> FALSE, of |-> NoOne,
           row |-> Missing, ver |-> 0, parent |-> NoOne, range |-> "all"]
NoDelete == [out |-> FALSE, run |-> FALSE, ok |-> FALSE, of |-> NoOne, range |-> "all"]

-----------------------------------------------------------------------------
(* buildTree: a node hangs under its parent if that is listed too, and is  *)
(* a root otherwise; what is not reached from a root is not shown. *)
Children(list, a) == {b \in Present(list) : list[b].parent = a}
Roots(list) == {a \in Present(list) : list[a].parent \notin Present(list)}

Depth == 0..Cardinality(AccAccount)
Under(list, a) ==   \* the nodes of a tree, level by level
    LET upto[n \in Depth] ==
          IF n = 0 THEN {a} ELSE {a} \cup UNION {Children(list, b) : b \in upto[n - 1]}
    IN  upto[Cardinality(AccAccount)]
InTree(list) == {a \in Present(list) : \E r \in Roots(list) : a \in Under(list, r)}

(* aggregate: the balance of a node and those of its children's trees. *)
Aggregate_oneLevel(list, bal) ==   \* fault
    [a \in AccAccount |-> bal[a] + MapThenSumSet(LAMBDA b : bal[b], Children(list, a))]
Aggregate(list, bal) ==
    LET sum[n \in Depth] ==
          IF n = 0 THEN bal
          ELSE LET below == sum[n - 1]
               IN  [a \in AccAccount |->
                      bal[a] + MapThenSumSet(LAMBDA b : below[b], Children(list, a))]
    IN  sum[Cardinality(AccAccount)]

(* collectGuids, for the reconcile wizard. *)
CollectGuids(list, a) == Under(list, a)

-----------------------------------------------------------------------------
(* loadData, with the filter of the render it was called from: a delete or *)
(* a save that is answered later brings an older filter along.  The        *)
(* spinner takes the form off the page; when it is back, it starts again   *)
(* from the row it was opened with. *)
FreeLoad(net) == {k \in Load : ~net.load[k].out}
LoadData(m, net, range) ==
    /\ FreeLoad(net) # {}
    /\ acc' = [m EXCEPT !.loading = TRUE, !.form.saving = FALSE,
                        !.form.parent = m.form.row.parent]
    /\ accNet' = [net EXCEPT !.save.own = FALSE,
                    !.load[CHOOSE k \in FreeLoad(net) : TRUE] =
                       [NoLoad EXCEPT !.out = TRUE, !.range = range]]

AccPage == [list |-> NoAnswer, range |-> "today", loading |-> TRUE, filter |-> "today",
            form |-> NoForm, wizard |-> {}]
AccSent == [load |-> [k \in Load |-> IF k = 1 THEN [NoLoad EXCEPT !.out = TRUE, !.range = "today"]
                                     ELSE NoLoad],
            save |-> NoSave, delete |-> NoDelete, ops |-> AccMaxOps]
AccInit == acc = AccPage /\ accNet = AccSent /\ accBook = FirstBook

Idle == ~acc.loading /\ ~acc.form.open /\ acc.wizard = {}
Spent(net) == [net EXCEPT !.ops = @ - 1]

SetFilter(range) ==
    /\ Idle /\ range # acc.filter /\ accNet.ops > 0
    /\ LoadData([acc EXCEPT !.filter = range], Spent(accNet), range)
    /\ UNCHANGED accBook

RunAccounts(k) ==
    /\ accNet.load[k].out /\ ~accNet.load[k].run
    /\ accNet' = [accNet EXCEPT !.load[k].run = TRUE, !.load[k].list = accBook]
    /\ UNCHANGED <<acc, accBook>>
AccountsAnswered(k) ==
    /\ accNet.load[k].run
    /\ acc' = [acc EXCEPT !.list = accNet.load[k].list, !.range = accNet.load[k].range,
                          !.loading = FALSE]
    /\ accNet' = [accNet EXCEPT !.load[k] = NoLoad]
    /\ UNCHANGED accBook
AccountsFailed(k) ==
    /\ accNet.load[k].out
    /\ acc' = [acc EXCEPT !.loading = FALSE]
    /\ accNet' = [accNet EXCEPT !.load[k] = NoLoad]
    /\ UNCHANGED accBook

-----------------------------------------------------------------------------
(* The buttons of the page and of a row; the root has none. *)
Clickable == InTree(acc.list) \ {AccRoot}
NewAccount ==
    /\ Idle /\ acc' = [acc EXCEPT !.form = [NoForm EXCEPT !.open = TRUE]]
    /\ UNCHANGED <<accNet, accBook>>
HandleEdit(a) ==
    /\ Idle /\ a \in Clickable
    /\ acc' = [acc EXCEPT !.form = [open |-> TRUE, of |-> a, row |-> acc.list[a],
                                    parent |-> acc.list[a].parent, saving |-> FALSE]]
    /\ UNCHANGED <<accNet, accBook>>
HandleReconcile(a) ==
    /\ Idle /\ a \in Clickable
    /\ acc' = [acc EXCEPT !.wizard = CollectGuids(acc.list, a)]
    /\ UNCHANGED <<accNet, accBook>>
WizardClosed ==
    /\ acc.wizard # {} /\ acc' = [acc EXCEPT !.wizard = {}]
    /\ UNCHANGED <<accNet, accBook>>
WizardFinished ==
    /\ acc.wizard # {} /\ ~acc.loading /\ accNet.ops > 0
    /\ LoadData([acc EXCEPT !.wizard = {}], Spent(accNet), acc.filter)
    /\ UNCHANGED accBook

(* handleDelete; one at a time (a bound). *)
HandleDelete(a) ==
    /\ Idle /\ a \in Clickable /\ ~accNet.delete.out /\ accNet.ops > 0
    /\ accNet' = [Spent(accNet) EXCEPT !.delete =
                    [NoDelete EXCEPT !.out = TRUE, !.of = a, !.range = acc.filter]]
    /\ UNCHANGED <<acc, accBook>>
RunDelete ==
    LET a == accNet.delete.of
        ok == /\ a \in Present(accBook) \ Fixed
              /\ Children(accBook, a) = {}
    IN  /\ accNet.delete.out /\ ~accNet.delete.run
        /\ accBook' = IF ok THEN [accBook EXCEPT ![a] = Gone] ELSE accBook
        /\ accNet' = [accNet EXCEPT !.delete.run = TRUE, !.delete.ok = ok]
        /\ UNCHANGED acc
DeleteAnswered ==
    /\ accNet.delete.run /\ accNet.delete.ok
    /\ LoadData(acc, [accNet EXCEPT !.delete = NoDelete], accNet.delete.range)
    /\ UNCHANGED accBook
DeleteFailed ==
    /\ accNet.delete.out
    /\ accNet' = [accNet EXCEPT !.delete = NoDelete]
    /\ UNCHANGED <<acc, accBook>>

-----------------------------------------------------------------------------
(* The account form.  Its list of parents leaves out the account itself,   *)
(* but not the accounts under it. *)
FormShown == acc.form.open /\ ~acc.loading
ChooseParent(p) ==
    /\ FormShown /\ p \in (Clickable \ {acc.form.of}) \cup {NoOne}
    /\ acc' = [acc EXCEPT !.form.parent = p]
    /\ UNCHANGED <<accNet, accBook>>

(* The parent that is sent: top level stands for the root. *)
Parent(p) == IF p = NoOne /\ AccRoot \in Present(acc.list) THEN AccRoot ELSE p
SentVersion_listed(f) == acc.list[f.of].ver   \* fault
SentVersion(f) == f.row.ver
SubmitAccount ==
    /\ FormShown /\ ~acc.form.saving /\ ~accNet.save.out /\ accNet.ops > 0
    /\ acc' = [acc EXCEPT !.form.saving = TRUE]
    /\ LET f == acc.form
       IN  accNet' = [Spent(accNet) EXCEPT !.save =
             [NoSave EXCEPT !.out = TRUE, !.own = TRUE, !.of = f.of, !.row = f.row,
                !.ver = IF f.of = NoOne THEN 0 ELSE SentVersion(f),
                !.parent = Parent(f.parent), !.range = acc.filter]]
    /\ UNCHANGED accBook

(* CreateAccount; UpdateAccount changes the row of the version it was sent *)
(* and leaves a parent alone that is null.  The database wants a parent to *)
(* be there. *)
ParentThere == accNet.save.parent \in Present(accBook) \cup {NoOne}
RunCreate ==
    /\ accNet.save.out /\ ~accNet.save.run /\ accNet.save.of = NoOne
    /\ \E a \in AccAccount :
         /\ accBook[a] = Missing
         /\ accBook' = IF ParentThere
              THEN [accBook EXCEPT ![a] = [parent |-> accNet.save.parent, ver |-> 1]]
              ELSE accBook
    /\ accNet' = [accNet EXCEPT !.save.run = TRUE, !.save.ok = ParentThere]
    /\ UNCHANGED acc
RunUpdate ==
    LET s == accNet.save
        ok == accBook[s.of].ver = s.ver /\ ParentThere
    IN  /\ s.out /\ ~s.run /\ s.of # NoOne
        /\ accBook' = IF ok
             THEN [accBook EXCEPT ![s.of] =
                     [parent |-> IF s.parent = NoOne THEN @.parent ELSE s.parent,
                      ver |-> @.ver + 1]]
             ELSE accBook
        /\ accNet' = [accNet EXCEPT !.save.run = TRUE, !.save.ok = ok]
        /\ UNCHANGED acc

(* onSaved, then onClose, which closes whichever form is open by then. *)
AccountSaved ==
    /\ accNet.save.run /\ accNet.save.ok
    /\ LoadData([acc EXCEPT !.form = NoForm], [accNet EXCEPT !.save = NoSave], accNet.save.range)
    /\ UNCHANGED accBook
AccountNotSaved ==
    /\ accNet.save.out
    /\ acc' = IF accNet.save.own THEN [acc EXCEPT !.form.saving = FALSE] ELSE acc
    /\ accNet' = [accNet EXCEPT !.save = NoSave]
    /\ UNCHANGED accBook
CloseAccountForm ==
    /\ FormShown
    /\ acc' = [acc EXCEPT !.form = NoForm]
    /\ accNet' = [accNet EXCEPT !.save.own = FALSE]
    /\ UNCHANGED accBook

(* Another tab moves an account to the top. *)
MovedElsewhere(a) ==
    /\ accNet.ops > 0 /\ a \in Present(accBook) \ {AccRoot}
    /\ accBook' = [accBook EXCEPT ![a] = [parent |-> AccRoot, ver |-> @.ver + 1]]
    /\ accNet' = Spent(accNet)
    /\ UNCHANGED acc

AccNext ==
    \/ \E r \in Ranges : SetFilter(r)
    \/ \E k \in Load : RunAccounts(k) \/ AccountsAnswered(k) \/ AccountsFailed(k)
    \/ \E a \in AccAccount : \/ HandleEdit(a) \/ HandleReconcile(a) \/ HandleDelete(a)
                             \/ MovedElsewhere(a)
    \/ \E p \in AccAccount \cup {NoOne} : ChooseParent(p)
    \/ NewAccount \/ WizardClosed \/ WizardFinished \/ CloseAccountForm \/ SubmitAccount
    \/ RunDelete \/ DeleteAnswered \/ DeleteFailed
    \/ RunCreate \/ RunUpdate \/ AccountSaved \/ AccountNotSaved
AccSpec == AccInit /\ [][AccNext]_accVars

-----------------------------------------------------------------------------
(* The tree that is shown: the balance of an account is that of the        *)
(* accounts its reconcile wizard would take, no account is in the trees of *)
(* two roots, and the roots add up to all that is listed, except for       *)
(* accounts whose parents go round in a circle, which are not shown. *)
Ancestors(list, a) ==
    LET up[n \in Depth] ==
          IF n = 0 THEN {a} ELSE {a} \cup {list[b].parent : b \in up[n - 1] \cap Present(list)}
    IN  up[Cardinality(AccAccount)]
AccTreeWhole ==
    LET list == acc.list
        bal == AccBalance[acc.range]
        shown == Aggregate(list, bal)
        Total(S) == MapThenSumSet(LAMBDA b : bal[b], S)
        whole == {a \in Present(list) : NoOne \in Ancestors(list, a)}
    IN  /\ \A a \in InTree(list) :
             /\ CollectGuids(list, a) = {b \in whole : a \in Ancestors(list, b)}
             /\ shown[a] = Total(CollectGuids(list, a))
        /\ MapThenSumSet(LAMBDA r : shown[r], Roots(list)) = Total(whole)

(* No update is lost: an edit the server accepts replaces the very row the *)
(* user opened the form with, however often the list was loaded, and the   *)
(* form put back, since. *)
AccEditBased ==
    [][\A a \in AccAccount :
         (RunUpdate /\ accBook'[a] # accBook[a]) => accNet.save.row = accBook[a]]_accVars
=============================================================================
