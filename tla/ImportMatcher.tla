--------------------------- MODULE ImportMatcher ---------------------------
(***************************************************************************)
(* Bank suggestions in the web client: the sync an account's register      *)
(* page starts (AccountRegister.triggerSync, by itself on the first visit  *)
(* of the day, utils/plaidSync.ts, or by its button), and the matcher      *)
(* modal it opens (components/ImportMatcher.tsx) to categorise, dismiss    *)
(* and import what the sync suggests.                                      *)
(*                                                                         *)
(* The server's Sync, DismissStaged and Import are here what their answers *)
(* need; PlaidSync has their inside.  Transactions are posted ones, with   *)
(* no pending predecessor.                                                 *)
(***************************************************************************)
EXTENDS Naturals, FiniteSets

CONSTANTS MatAccount, Item, NoItem,
          Link,             \* the item an account's metadata names, or NoItem
          Txn, BankOf,      \* bank transactions, in the order they are listed
          Category, NoCategory,
          Suggestion         \* the suggested category of a transaction

ASSUME MatAssumption ==
    /\ Link \in [MatAccount -> Item \cup {NoItem}] /\ NoItem \notin Item
    /\ Txn \subseteq Nat \ {0} /\ BankOf \in [Txn -> Item]
    /\ Suggestion \in [Txn -> Category \cup {NoCategory}] /\ NoCategory \notin Category

VARIABLES mat,      \* the page's and the matcher's state
          matNet,   \* outstanding requests
          matBook   \* the server's staged and booked transactions
matVars == <<mat, matNet, matBook>>

NoTxn == 0
NoAccountShown == "none"
NoSync == [out |-> FALSE, run |-> FALSE, ids |-> {}]
NoImport == [out |-> FALSE, own |-> FALSE, sent |-> {}, todo |-> {}, failed |-> {},
             broken |-> FALSE]

MatPage == [here |-> NoAccountShown, syncing |-> FALSE, open |-> FALSE, label |-> NoItem,
            rows |-> {}, included |-> {}, cat |-> [t \in Txn |-> NoCategory],
            importing |-> FALSE, dismissing |-> NoTxn, imported |-> {}]
MatIdle == [sync |-> [i \in Item |-> NoSync], dismiss |-> [t \in Txn |-> "no"],
            import |-> NoImport]
MatBooks == [staged |-> {}, dismissed |-> {}, booked |-> {}, today |-> {}]
MatInit == mat = MatPage /\ matNet = MatIdle /\ matBook = MatBooks

-----------------------------------------------------------------------------
(* triggerSync; a sync of an item that is under way is not joined by a     *)
(* second one of that item here (a bound). *)
TriggerSync(m, i) ==
    /\ ~matNet.sync[i].out
    /\ mat' = [m EXCEPT !.syncing = TRUE]
    /\ matNet' = [matNet EXCEPT !.sync[i] = [NoSync EXCEPT !.out = TRUE]]

(* The register of another account has loaded: its guid changed, so the    *)
(* effect decides whether this is the first visit of the day. *)
DueToday(a) == Link[a] # NoItem /\ Link[a] \notin matBook.today
MatVisit(a) ==
    /\ a # mat.here
    /\ IF DueToday(a) THEN TriggerSync([mat EXCEPT !.here = a], Link[a])
       ELSE mat' = [mat EXCEPT !.here = a] /\ UNCHANGED matNet
    /\ UNCHANGED matBook

SyncNow ==
    /\ mat.here # NoAccountShown /\ Link[mat.here] # NoItem /\ ~mat.syncing /\ ~mat.open
    /\ TriggerSync(mat, Link[mat.here])
    /\ UNCHANGED matBook

(* A new day begins for the user. *)
NextDay ==
    /\ matBook.today # {}
    /\ matBook' = [matBook EXCEPT !.today = {}]
    /\ UNCHANGED <<mat, matNet>>

(* The server stages what the bank has and answers with all that is        *)
(* neither dismissed nor booked. *)
RunSync(i) ==
    /\ matNet.sync[i].out /\ ~matNet.sync[i].run
    /\ \E new \in SUBSET {t \in Txn : BankOf[t] = i /\ t \notin matBook.booked} :
         LET staged == matBook.staged \cup new
         IN  /\ matBook' = [matBook EXCEPT !.staged = staged, !.today = @ \cup {i}]
             /\ matNet' = [matNet EXCEPT !.sync[i].run = TRUE,
                  !.sync[i].ids = {t \in staged \ (matBook.dismissed \cup matBook.booked) :
                                     BankOf[t] = i}]
    /\ UNCHANGED mat

(* The matcher's state goes when it is closed; what it sent goes on        *)
(* without it. *)
Unmounted_busy(m) == [m EXCEPT !.open = FALSE, !.label = NoItem]   \* fault
Unmounted(m) == [m EXCEPT !.open = FALSE, !.label = NoItem, !.rows = {}, !.included = {},
                          !.cat = [t \in Txn |-> NoCategory], !.importing = FALSE,
                          !.dismissing = NoTxn]
Forgotten(net) ==
    [net EXCEPT !.import.own = FALSE,
       !.dismiss = [t \in Txn |-> CASE @[t] = "sent" -> "forgotten"
                                    [] @[t] = "run" -> "no" [] OTHER -> @[t]]]

(* The matcher takes its rows when it mounts; one that is open already     *)
(* keeps them under the name of the other bank. *)
Mounted(m, i, ids) ==
    [m EXCEPT !.open = TRUE, !.label = i, !.rows = ids, !.included = ids,
              !.cat = [t \in Txn |-> IF t \in ids THEN Suggestion[t] ELSE NoCategory],
              !.importing = FALSE, !.dismissing = NoTxn]
SyncAnswered(i) ==
    /\ matNet.sync[i].run
    /\ LET ids == matNet.sync[i].ids
           m == [mat EXCEPT !.syncing = FALSE]
       IN  mat' = CASE ids = {} -> m
                    [] ids # {} /\ mat.open -> [m EXCEPT !.label = i]
                    [] OTHER -> Mounted(m, i, ids)
    /\ matNet' = [matNet EXCEPT !.sync[i] = NoSync]
    /\ UNCHANGED matBook

SyncFailed(i) ==
    /\ matNet.sync[i].out
    /\ mat' = [mat EXCEPT !.syncing = FALSE]
    /\ matNet' = [matNet EXCEPT !.sync[i] = NoSync]
    /\ UNCHANGED matBook

-----------------------------------------------------------------------------
(* The rows.  A category that was picked is not taken back (a bound). *)
SetCategory(t, c) ==
    /\ mat.open /\ t \in mat.rows \cap mat.included
    /\ mat' = [mat EXCEPT !.cat[t] = c]
    /\ UNCHANGED <<matNet, matBook>>

ToggleIncluded(t) ==
    /\ mat.open /\ t \in mat.rows
    /\ mat' = [mat EXCEPT !.included = (@ \ {t}) \cup ({t} \ @)]
    /\ UNCHANGED <<matNet, matBook>>

(* handleDismiss; the button of a row is disabled while that row is the    *)
(* last one dismissed.  One dismissal at a time is followed (a bound). *)
DismissClick(t) ==
    /\ mat.open /\ t \in mat.rows /\ ~mat.importing /\ mat.dismissing # t
    /\ \A u \in Txn : matNet.dismiss[u] = "no"
    /\ mat' = [mat EXCEPT !.dismissing = t]
    /\ matNet' = [matNet EXCEPT !.dismiss[t] = "sent"]
    /\ UNCHANGED matBook

RunDismiss(t) ==
    /\ matNet.dismiss[t] \in {"sent", "forgotten"}
    /\ matBook' = [matBook EXCEPT !.dismissed = @ \cup ({t} \cap matBook.staged)]
    /\ matNet' = [matNet EXCEPT !.dismiss[t] = IF @ = "sent" THEN "run" ELSE "no"]
    /\ UNCHANGED mat

DismissAnswered(t) ==
    /\ matNet.dismiss[t] = "run"
    /\ mat' = [mat EXCEPT !.rows = @ \ {t}, !.included = @ \ {t},
                          !.cat[t] = NoCategory, !.dismissing = NoTxn]
    /\ matNet' = [matNet EXCEPT !.dismiss[t] = "no"]
    /\ UNCHANGED matBook

DismissFailed(t) ==
    /\ matNet.dismiss[t] \in {"sent", "run"}
    /\ mat' = [mat EXCEPT !.dismissing = NoTxn]
    /\ matNet' = [matNet EXCEPT !.dismiss[t] = "no"]
    /\ UNCHANGED matBook

-----------------------------------------------------------------------------
(* handleConfirm; an import that goes on after its matcher was closed is   *)
(* followed to its end before another starts (a bound). *)
AllCategorized == \A t \in mat.included : mat.cat[t] # NoCategory
Confirm ==
    /\ mat.open /\ ~mat.importing /\ AllCategorized /\ mat.included # {}
    /\ ~matNet.import.out
    /\ mat' = [mat EXCEPT !.importing = TRUE, !.imported = {}]
    /\ matNet' = [matNet EXCEPT !.import =
         [NoImport EXCEPT !.out = TRUE, !.own = TRUE, !.sent = mat.included, !.todo = mat.included]]
    /\ UNCHANGED matBook

(* Import goes through the rows: one that is staged is booked, unless it   *)
(* was, or its account or category does not do; one that is not there must *)
(* have been booked before. *)
NextRow == CHOOSE t \in matNet.import.todo : \A u \in matNet.import.todo : t <= u
ImportRow ==
    /\ matNet.import.todo # {}
    /\ LET t == NextRow
           taken == [matNet.import EXCEPT !.todo = @ \ {t}]
           missed == [taken EXCEPT !.failed = @ \cup {t}]
       IN  \/ /\ t \in matBook.staged \ matBook.booked
              /\ matBook' = [matBook EXCEPT !.booked = @ \cup {t}, !.staged = @ \ {t}]
              /\ matNet' = [matNet EXCEPT !.import = taken]
           \/ /\ t \in matBook.booked
              /\ matNet' = [matNet EXCEPT !.import = taken]
              /\ UNCHANGED matBook
           \/ /\ t \in matBook.staged \/ t \notin matBook.booked
              /\ matNet' = [matNet EXCEPT !.import = missed]
              /\ UNCHANGED matBook
    /\ UNCHANGED mat

(* An error between rows ends the import; the answer says so. *)
ImportBroken ==
    /\ matNet.import.todo # {}
    /\ matNet' = [matNet EXCEPT !.import.todo = {}, !.import.broken = TRUE]
    /\ UNCHANGED <<mat, matBook>>

(* onImported closes the matcher, whichever it is by then. *)
Complete_failedOnly(q) == q.failed = {}   \* fault
Complete(q) == ~q.broken /\ q.failed = {}
ImportAnswered ==
    /\ matNet.import.out /\ matNet.import.todo = {}
    /\ LET q == matNet.import
       IN  IF Complete(q)
           THEN /\ mat' = [Unmounted(mat) EXCEPT !.imported = q.sent]
                /\ matNet' = [Forgotten(matNet) EXCEPT !.import = NoImport]
           ELSE /\ mat' = IF q.own THEN [mat EXCEPT !.importing = FALSE]
                          ELSE mat
                /\ matNet' = [matNet EXCEPT !.import = NoImport]
    /\ UNCHANGED matBook

ImportFailed ==
    /\ matNet.import.out
    /\ mat' = IF matNet.import.own THEN [mat EXCEPT !.importing = FALSE]
              ELSE mat
    /\ matNet' = [matNet EXCEPT !.import = NoImport]
    /\ UNCHANGED matBook

(* The cancel button waits for an import, the cross and a click beside the *)
(* modal do not. *)
MatClose ==
    /\ mat.open
    /\ mat' = Unmounted(mat)
    /\ matNet' = Forgotten(matNet)
    /\ UNCHANGED matBook

-----------------------------------------------------------------------------
MatNext ==
    \/ \E a \in MatAccount : MatVisit(a)
    \/ SyncNow \/ NextDay \/ Confirm \/ MatClose
    \/ \E i \in Item : RunSync(i) \/ SyncAnswered(i) \/ SyncFailed(i)
    \/ \E t \in Txn : \/ ToggleIncluded(t) \/ DismissClick(t) \/ RunDismiss(t)
                      \/ DismissAnswered(t) \/ DismissFailed(t)
                      \/ \E c \in Category : SetCategory(t, c)
    \/ ImportRow \/ ImportBroken \/ ImportAnswered \/ ImportFailed
MatSpec == MatInit /\ [][MatNext]_matVars

-----------------------------------------------------------------------------
(* The types; a matcher that imports has a request of its own, so no state *)
(* is left in which its buttons stay disabled. *)
MatTypeOK ==
    /\ mat.included \subseteq mat.rows /\ mat.rows \subseteq Txn
    /\ mat.dismissing \in Txn \cup {NoTxn} /\ mat.label \in Item \cup {NoItem}
    /\ mat.importing => mat.open /\ matNet.import.out /\ matNet.import.own
    /\ matBook.staged \subseteq Txn /\ matBook.booked \subseteq Txn
    /\ matNet.import.failed \subseteq matNet.import.sent

(* Rows reported as imported, which closes the matcher, are in the ledger: *)
(* an import that broke off, failed a row or met a row that is gone keeps  *)
(* the matcher open (the promise of the comments in handleConfirm). *)
MatImportedBooked == mat.imported \subseteq matBook.booked
=============================================================================
