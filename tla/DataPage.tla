------------------------------ MODULE DataPage ------------------------------
(***************************************************************************)
(* The data management page of the web client (pages/DataManagement.tsx):  *)
(* export, imports from files and factory reset on one half, the bank      *)
(* connections on the other.  The halves share nothing but the page, so    *)
(* each has its variables and its own next-state relation.  The matcher    *)
(* the page opens after a sync is ImportMatcher's.                         *)
(***************************************************************************)
EXTENDS Naturals, FiniteSets

CONSTANTS File, NoFile,
          Bank, NoBank,       \* Plaid items
          Known               \* items connected before the page is opened

ASSUME DatAssumption ==
    /\ NoFile \notin File /\ NoBank \notin Bank
    /\ Known \subseteq Bank /\ IsFiniteSet(Bank)

VARIABLES dat,       \* the half with the files
          bank,      \* the half with the banks
          bankNet,   \* its outstanding requests
          bankBook   \* the server's items
datVars == <<dat>>
bankVars == <<bank, bankNet, bankBook>>

-----------------------------------------------------------------------------
(* Files.  busy: the operations whose button says so; chosen: what the     *)
(* file inputs hold, cleared only when an import went well, and a change   *)
(* event needs another file; reload: the page is about to reload. *)
Uploads == {"import", "csv", "gnucash"}
Operations == Uploads \cup {"export", "reset"}

DatStart == [busy |-> {}, chosen |-> [u \in Uploads |-> NoFile], target |-> FALSE,
             accounts |-> FALSE, reload |-> FALSE]
DatInit == dat = DatStart

(* The accounts come, and the first one is the target of CSV imports until *)
(* another or none is selected. *)
TargetsLoaded ==
    /\ ~dat.accounts
    /\ \E some \in BOOLEAN : dat' = [dat EXCEPT !.accounts = TRUE, !.target = some]
PickTarget ==
    /\ dat.accounts
    /\ dat' = [dat EXCEPT !.target = ~@]

Offered(u) == CASE u = "import" -> dat.busy \cap {"import", "reset"} = {}
                [] u = "gnucash" -> dat.busy \cap {"gnucash", "reset"} = {}
                [] u = "csv" -> "csv" \notin dat.busy /\ dat.target
Upload(u, f) ==
    /\ Offered(u) /\ dat.chosen[u] # f
    /\ dat' = [dat EXCEPT !.busy = @ \cup {u}, !.chosen[u] = f]

Export ==
    /\ "export" \notin dat.busy
    /\ dat' = [dat EXCEPT !.busy = @ \cup {"export"}]

FactoryReset ==
    /\ dat.busy \cap {"reset", "import"} = {}
    /\ dat' = [dat EXCEPT !.busy = @ \cup {"reset"}]

(* An operation ends well or not; a reset that went well reloads the page  *)
(* a second later, buttons enabled until then. *)
Ended(o) ==
    /\ o \in dat.busy
    /\ \E ok \in BOOLEAN :
         dat' = [dat EXCEPT !.busy = @ \ {o}, !.reload = @ \/ (ok /\ o = "reset"),
                   !.chosen = [u \in Uploads |-> IF u = o /\ ok THEN NoFile ELSE @[u]]]
Reloads == dat.reload /\ dat' = DatStart

FilesNext ==
    \/ TargetsLoaded \/ PickTarget \/ Export \/ FactoryReset \/ Reloads
    \/ \E u \in Uploads, f \in File : Upload(u, f)
    \/ \E o \in Operations : Ended(o)

-----------------------------------------------------------------------------
(* Banks.  The list shows items and which of them were synced.  history:   *)
(* calm, no two list requests overlapped and nothing failed. *)
NoList == [out |-> FALSE, run |-> FALSE, items |-> {}, synced |-> {}]
Lists == 1..2                       \* list requests that overlap (a bound)
Quiet == [list |-> [l \in Lists |-> NoList], connect |-> "no", link |-> "no",
          sync |-> "no", gone |-> [b \in Bank |-> "no"]]

FreeList(net) == {l \in Lists : ~net.list[l].out}
SendList(net) ==
    LET l == CHOOSE l \in FreeList(net) : \A k \in FreeList(net) : l <= k
    IN  [net EXCEPT !.list[l].out = TRUE]
Alone(net) == FreeList(net) = Lists

BankStart == [step |-> "idle", connecting |-> FALSE, item |-> NoBank,
              items |-> {}, synced |-> {}, syncing |-> NoBank, calm |-> TRUE]
BankBooks == [items |-> Known, synced |-> {}]
BankInit == bank = BankStart /\ bankNet = SendList(Quiet) /\ bankBook = BankBooks

(* A list request is run, then answered; the list last answered is shown. *)
RunList(l) ==
    /\ bankNet.list[l].out /\ ~bankNet.list[l].run
    /\ bankNet' = [bankNet EXCEPT !.list[l].run = TRUE, !.list[l].items = bankBook.items,
                                  !.list[l].synced = bankBook.synced]
    /\ UNCHANGED <<bank, bankBook>>
ListAnswered(l) ==
    /\ bankNet.list[l].run
    /\ bank' = [bank EXCEPT !.items = bankNet.list[l].items, !.synced = bankNet.list[l].synced]
    /\ bankNet' = [bankNet EXCEPT !.list[l] = NoList]
    /\ UNCHANGED bankBook
ListFailed(l) ==
    /\ bankNet.list[l].out
    /\ bank' = [bank EXCEPT !.calm = FALSE]
    /\ bankNet' = [bankNet EXCEPT !.list[l] = NoList]
    /\ UNCHANGED bankBook

(* What a handler does that ends in loadPlaidItems. *)
Listed(b, net) ==
    /\ FreeList(net) # {}
    /\ bank' = [b EXCEPT !.calm = @ /\ Alone(net)]
    /\ bankNet' = SendList(net)
Unlisted(b, net) == bank' = b /\ bankNet' = net   \* fault

(* handleConnectBank: a link token is asked for and Plaid Link opens.      *)
(* connect is "token", "link" while the user is with Plaid, "exchange". *)
ConnectBank ==
    /\ bank.step = "idle" /\ ~bank.connecting
    /\ bank' = [bank EXCEPT !.connecting = TRUE]
    /\ bankNet' = [bankNet EXCEPT !.connect = "token"]
    /\ UNCHANGED bankBook
TokenAnswered(ok) ==
    /\ bankNet.connect = "token"
    /\ bank' = [bank EXCEPT !.connecting = FALSE, !.step = IF ok THEN "linking" ELSE @]
    /\ bankNet' = [bankNet EXCEPT !.connect = IF ok THEN "link" ELSE "no"]
    /\ UNCHANGED bankBook

LinkExit ==
    /\ bankNet.connect = "link"
    /\ bank' = [bank EXCEPT !.step = "idle"]
    /\ bankNet' = [bankNet EXCEPT !.connect = "no"]
    /\ UNCHANGED bankBook
LinkSuccess ==
    /\ bankNet.connect = "link"
    /\ bank' = [bank EXCEPT !.connecting = TRUE]
    /\ bankNet' = [bankNet EXCEPT !.connect = "exchange"]
    /\ UNCHANGED bankBook

(* The exchange adds an item and is answered with its bank accounts, or it *)
(* fails, before the item is added or after. *)
Exchanged_stale(b, i) ==   \* fault
    [b EXCEPT !.step = "mapping", !.connecting = FALSE]
Exchanged(b, i) ==
    [b EXCEPT !.step = "mapping", !.connecting = FALSE, !.item = i]
ExchangeEnds(i, ok) ==
    /\ bankNet.connect = "exchange" /\ i \notin bankBook.items
    /\ \/ bankBook' = [bankBook EXCEPT !.items = @ \cup {i}]
       \/ ~ok /\ UNCHANGED bankBook
    /\ bank' = IF ok THEN Exchanged(bank, i)
               ELSE [bank EXCEPT !.step = "idle", !.connecting = FALSE, !.calm = FALSE]
    /\ bankNet' = [bankNet EXCEPT !.connect = "no"]

(* handleSubmitMappings; which accounts were mapped matters to the server  *)
(* only. *)
SubmitMappings ==
    /\ bank.step = "mapping" /\ ~bank.connecting
    /\ bank' = [bank EXCEPT !.connecting = TRUE]
    /\ bankNet' = [bankNet EXCEPT !.link = "sent"]
    /\ UNCHANGED bankBook
AfterLink_unlisted(b, net) == Unlisted(b, net)   \* fault
AfterLink(b, net) == Listed(b, net)
LinkAnswered(ok) ==
    /\ bankNet.link = "sent"
    /\ LET net == [bankNet EXCEPT !.link = "no"]
           b == [bank EXCEPT !.connecting = FALSE, !.step = IF ok THEN "done" ELSE @]
       IN  IF ok THEN bank.item \in bankBook.items /\ AfterLink(b, net)
           ELSE bank' = b /\ bankNet' = net
    /\ UNCHANGED bankBook

(* handlePlaidSyncNow *)
BankSyncNow(i) ==
    /\ i \in bank.items /\ bank.syncing = NoBank
    /\ bank' = [bank EXCEPT !.syncing = i]
    /\ bankNet' = [bankNet EXCEPT !.sync = "sent"]
    /\ UNCHANGED bankBook
BankSyncRuns ==
    /\ bankNet.sync = "sent" /\ bank.syncing \in bankBook.items
    /\ bankBook' = [bankBook EXCEPT !.synced = @ \cup {bank.syncing}]
    /\ bankNet' = [bankNet EXCEPT !.sync = "run"]
    /\ UNCHANGED bank
BankSyncAnswered ==
    /\ bankNet.sync = "run"
    /\ Listed([bank EXCEPT !.syncing = NoBank], [bankNet EXCEPT !.sync = "no"])
    /\ UNCHANGED bankBook
BankSyncFailed ==
    /\ bankNet.sync # "no"
    /\ bank' = [bank EXCEPT !.syncing = NoBank, !.calm = FALSE]
    /\ bankNet' = [bankNet EXCEPT !.sync = "no"]
    /\ UNCHANGED bankBook

(* handlePlaidDisconnect, confirmed; one at a time (a bound). *)
DisconnectClick(i) ==
    /\ i \in bank.items /\ \A j \in Bank : bankNet.gone[j] = "no"
    /\ bankNet' = [bankNet EXCEPT !.gone[i] = "sent"]
    /\ UNCHANGED <<bank, bankBook>>
DisconnectRuns(i) ==
    /\ bankNet.gone[i] = "sent" /\ i \in bankBook.items
    /\ bankBook' = [items |-> bankBook.items \ {i}, synced |-> bankBook.synced \ {i}]
    /\ bankNet' = [bankNet EXCEPT !.gone[i] = "run"]
    /\ UNCHANGED bank
DisconnectAnswered(i) ==
    /\ bankNet.gone[i] = "run"
    /\ Listed(bank, [bankNet EXCEPT !.gone[i] = "no"])
    /\ UNCHANGED bankBook
DisconnectFailed(i) ==
    /\ bankNet.gone[i] # "no"
    /\ bank' = [bank EXCEPT !.calm = FALSE]
    /\ bankNet' = [bankNet EXCEPT !.gone[i] = "no"]
    /\ UNCHANGED bankBook

BanksNext ==
    \/ \E l \in Lists : RunList(l) \/ ListAnswered(l) \/ ListFailed(l)
    \/ ConnectBank \/ LinkExit \/ LinkSuccess \/ SubmitMappings
    \/ \E ok \in BOOLEAN : TokenAnswered(ok) \/ LinkAnswered(ok)
    \/ \E i \in Bank : \/ BankSyncNow(i) \/ DisconnectClick(i) \/ DisconnectRuns(i)
                       \/ DisconnectAnswered(i) \/ DisconnectFailed(i)
                       \/ \E ok \in BOOLEAN : ExchangeEnds(i, ok)
    \/ BankSyncRuns \/ BankSyncAnswered \/ BankSyncFailed

-----------------------------------------------------------------------------
(* The types, and the spinners: accounts are mapped to an item that was    *)
(* exchanged, and a button is busy exactly while its request is out. *)
DatTypeOK ==
    /\ dat.busy \subseteq Operations /\ dat.chosen \in [Uploads -> File \cup {NoFile}]
    /\ bank.step \in {"idle", "linking", "mapping", "done"}
    /\ bank.step \in {"mapping", "done"} => bank.item \in Bank
    /\ bank.connecting <=> bankNet.connect \in {"token", "exchange"} \/ bankNet.link # "no"
    /\ bank.syncing # NoBank <=> bankNet.sync # "no"
    /\ bankBook.synced \subseteq bankBook.items /\ bankBook.items \subseteq Bank

(* Once everything is answered the list of connected banks is the server's *)
(* again, after a connection, a sync and a disconnection - unless two list *)
(* requests overlapped or something failed, and but for an item that waits *)
(* for its accounts to be mapped. *)
DatListFresh ==
    (bank.calm /\ bank.step # "mapping" /\ bankNet = Quiet) =>
        bank.items = bankBook.items /\ bank.synced = bankBook.synced
=============================================================================
