------------------------------ MODULE MCClient ------------------------------
(***************************************************************************)
(* The small books the views of the client are followed over.              *)
(***************************************************************************)
EXTENDS Client

(* Register: five splits, the last one in an account of its own, to which   *)
(* the user goes; the first two tie. *)
MCHome == [s \in Split |-> IF s = 5 THEN "b" ELSE "a"]
MCPlace == [s \in Split |-> IF s = 1 THEN 2 ELSE s]
MCRoutes == {<<"a", "b">>}

(* Wizard: an account of two splits with a descendant, and a liability. *)
MCRecHome == (1 :> "a") @@ (2 :> "a") @@ (3 :> "m") @@ (4 :> "l")
MCAmounts == (1 :> 5) @@ (2 :> -3) @@ (3 :> -4) @@ (4 :> -2)
MCMarks == (1 :> "y") @@ (2 :> "c") @@ (3 :> "y") @@ (4 :> "c")
MCTyped == {-2}
MCEdits == {<<2, 2>>}
MCWizards == {<<{"a", "m"}, FALSE>>, <<{"l"}, TRUE>>}

(* Matcher: one linked account, a transaction with a suggested category    *)
(* and one without. *)
MCLink == ("x" :> "b1") @@ ("y" :> NoItem)
MCBankOf == (1 :> "b1") @@ (2 :> "b1")
MCSuggestion == (1 :> "food") @@ (2 :> NoCategory)

(* Form: an expression, text that is no number, and an old transaction     *)
(* with two rows of one account. *)
MCTexts == {Blank, Dash, Plain(5), [kind |-> "text", lead |-> 2, value |-> 3],
            [kind |-> "text", lead |-> NaN, value |-> NaN]}
MCOld == <<[acct |-> "a", n |-> 2], [acct |-> "a", n |-> 3], [acct |-> "b", n |-> -5]>>
MCBalance == ("a" :> 7) @@ ("b" :> 0)
MCHits == (NoQuery :> 3) @@ ("q" :> 1) @@ ("z" :> 0)

(* Accounts: a child of the root, and one that may be created under it,    *)
(* with another balance in each range. *)
MCTree == ("r" :> NoOne) @@ ("p" :> "r")
MCAccBalance ==
    [g \in {"today", "all"} |->
       ("r" :> 0) @@ ("p" :> 1) @@ ("c" :> IF g = "today" THEN 2 ELSE 10)]

(* Dashboard: entries between all types of accounts, one of them of a type *)
(* that only an import brings in, in this month, before it and after it;   *)
(* it is February of the third year. *)
MCEntries ==
    {[month |-> 24, from |-> "INCOME", to |-> "BANK", n |-> 5],
     [month |-> 23, from |-> "CREDIT", to |-> "EXPENSE", n |-> 3],
     [month |-> 26, from |-> "BANK", to |-> "CREDIT", n |-> 4],
     [month |-> 11, from |-> "EQUITY", to |-> "BANK", n |-> 2],
     [month |-> 25, from |-> "LIABILITY", to |-> "ASSET", n |-> 7],
     [month |-> 12, from |-> "CASH", to |-> "EXPENSE", n |-> 1],
     [month |-> 22, from |-> "INCOME", to |-> "RECEIVABLE", n |-> 6]}

(* Transactions: as many as a list takes, and one more to be entered.      *)
MCFirstDay == ("t1" :> 2) @@ ("t2" :> 1)

(* Snapshots: two, and a third to be taken. *)
MCSnaps == <<"s2", "s1">>

-----------------------------------------------------------------------------
(* What tells two states apart: the view that is followed.  The variables  *)
(* of the others have one value. *)
Followed ==
    CASE view = "session" -> <<view, ses>>
      [] view = "register" -> <<view, regVars>>
      [] view = "wizard" -> <<view, recVars>>
      [] view = "matcher" -> <<view, matVars>>
      [] view = "files" -> <<view, datVars>>
      [] view = "banks" -> <<view, bankVars>>
      [] view = "form" -> <<view, frmVars>>
      [] view = "picker" -> <<view, pick>>
      [] view = "accounts" -> <<view, accVars>>
      [] view = "dashboard" -> <<view, dash>>
      [] view = "transactions" -> <<view, txn>>
      [] view = "snapshots" -> <<view, snap>>
      [] view = "menu" -> <<view>>
=============================================================================
