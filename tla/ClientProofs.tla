---------------------------- MODULE ClientProofs ----------------------------
(***************************************************************************)
(* What holds of each view holds of it inside the whole client: between    *)
(* two steps of the client a view takes a step of its own module, stays as *)
(* it is or is at one of its starts, for every value of the constants.     *)
(***************************************************************************)
EXTENDS Client, RegisterViewProofs, ModalProofs, PageProofs

ClientInv == RegInv /\ SesShape /\ SesShowsOwner /\ MatInv /\ AccInv /\ TreeInv

(* A view that waits is at one of its starts. *)
LEMMA WaitingSound ==
    /\ Own(Waiting.reg, Waiting.regNet) /\ RegBooks \in Book
    /\ Formed(Waiting.ses) /\ Waiting.ses.loading
<1> DEFINE r == AnyOf(RegStarts)
           f == AnyOf(FrmStarts)
           s == AnyOf(SesStarts)
<1>1. PICK a \in Account, d \in Dates : TRUE
  BY RegAssumption
<1>2. [account |-> a, date |-> d] \in RegStarts
  BY DEF RegStarts
<1>3. r \in RegStarts
  BY <1>2 DEF AnyOf
<1>4. PICK u \in User : TRUE
  BY SesAssumption
<1>5. [cache |-> NoUser, cookie |-> 0, live |-> {}, owner |-> u] \in SesStarts
  BY DEF SesStarts
<1>6. s \in SesStarts
  BY <1>5 DEF AnyOf
<1>7. Waiting.reg = RegStart(r.account, r.date)
      /\ Waiting.regNet = RegNetStart(r.account, r.date)
      /\ Waiting.ses = SesStart(s.cache, s.cookie, s.live, s.owner)
  BY DEF Waiting
<1> HIDE DEF r, s, f
<1>8. r.account \in Account /\ r.date \in Dates
  BY <1>3 DEF RegStarts
<1>9. s.cache \in User \cup {NoUser} /\ s.cookie \in {0, 1} /\ s.live \in SUBSET {1}
      /\ s.owner \in User
  BY <1>6 DEF SesStarts
<1>10. Own(Waiting.reg, Waiting.regNet) /\ RegBooks \in Book
  BY <1>7, <1>8, StartOwn
<1>11. Formed(Waiting.ses) /\ Waiting.ses.loading
  <2> DEFINE start == SesStart(s.cache, s.cookie, s.live, s.owner)
  <2>1. Formed(start) /\ start.loading
    BY <1>9, StartFormed
  <2> HIDE DEF start
  <2>2. Waiting.ses = start
    BY <1>7 DEF start
  <2>3. QED
    BY <2>1, <2>2
<1>12. QED
  BY <1>10, <1>11

LEMMA ClientInitKeeps == ClientInit => ClientInv
<1> SUFFICES ASSUME ClientInit PROVE ClientInv
  OBVIOUS
<1>1. RegInv
  BY WaitingSound DEF ClientInit, RegInv
<1>2. SesShape /\ SesShowsOwner
  <2>1. PICK cache \in User \cup {NoUser}, cookie \in {0, 1}, live \in SUBSET {1}, u \in User :
          ses = SesStart(cache, cookie, live, u)
    BY DEF ClientInit, SesInit
  <2>2. QED
    BY <2>1, StartFormed DEF SesShape, SesShowsOwner, PagesShown
<1>3. MatInv /\ AccInv /\ TreeInv
  BY MatInitKeeps, FirstGood, TreeStarts DEF ClientInit, AccInit, AccInv
<1>4. QED
  BY <1>1, <1>2, <1>3 DEF ClientInv

(* A view that waits, starts or stays as it is. *)
LEMMA UnmountKeeps == ASSUME Unmount PROVE ClientInv'
<1>1. RegInv' /\ SesShape' /\ SesShowsOwner'
  BY WaitingSound DEF Unmount, RegInv, SesShape, SesShowsOwner, PagesShown
<1>2. mat' = MatPage /\ matNet' = MatIdle /\ matBook' = MatBooks
  BY DEF Unmount
<1>3. MatInv'
  BY <1>2, StartShape DEF MatInv, PageSound, ImportSound, MatPage, MatIdle, NoImport, MatBooks
<1>4. AccInv' /\ TreeInv'
  BY FirstGood, FirstListed, FirstSent DEF Unmount, AccInv, TreeInv
<1>5. QED
  BY <1>1, <1>3, <1>4 DEF ClientInv

LEMMA OpenKeeps ==
    ASSUME ClientInv, OpenRegister \/ OpenForm \/ OpenDashboard \/ OpenOther \/ ComeBack
    PROVE  ClientInv'
<1>0. MatInv' /\ AccInv' /\ TreeInv'
  <2>1. UNCHANGED matVars /\ UNCHANGED accVars
    BY DEF OpenRegister, OpenForm, OpenDashboard, OpenOther, ComeBack, pageVars
  <2>2. QED
    BY <2>1 DEF matVars, accVars, ClientInv, MatInv, AccInv, TreeInv
<1>1. CASE OpenRegister
  <2>1. PICK s \in RegStarts :
          reg' = RegStart(s.account, s.date) /\ regNet' = RegNetStart(s.account, s.date)
    BY <1>1 DEF OpenRegister
  <2>2. s.account \in Account /\ s.date \in Dates
    BY DEF RegStarts
  <2>3. RegInv'
    BY <1>1, <2>1, <2>2, StartOwn DEF OpenRegister, RegInv, ClientInv
  <2>4. ses' = ses
    BY <1>1 DEF OpenRegister
  <2>5. QED
    BY <1>0, <2>3, <2>4 DEF ClientInv, SesShape, SesShowsOwner
<1>2. CASE ComeBack
  <2>1. PICK s \in SesStarts : ses' = SesStart(s.cache, s.cookie, s.live, s.owner)
    BY <1>2 DEF ComeBack
  <2>2. s.cache \in User \cup {NoUser} /\ s.cookie \in {0, 1} /\ s.live \in SUBSET {1}
        /\ s.owner \in User
    BY DEF SesStarts
  <2>3. SesShape' /\ SesShowsOwner'
    BY <2>1, <2>2, StartFormed DEF SesShape, SesShowsOwner, PagesShown
  <2>4. UNCHANGED regVars
    BY <1>2 DEF ComeBack, pageVars
  <2>5. QED
    BY <1>0, <2>3, <2>4 DEF ClientInv, RegInv, regVars
<1>3. CASE OpenForm \/ OpenDashboard \/ OpenOther
  <2>1. UNCHANGED regVars /\ ses' = ses
    BY <1>3 DEF OpenForm, OpenDashboard, OpenOther, pageVars
  <2>2. QED
    BY <1>0, <2>1 DEF ClientInv, RegInv, regVars, SesShape, SesShowsOwner
<1>4. QED
  BY <1>1, <1>2, <1>3

(* A step of a view is one of its own module, and leaves the others alone. *)
LEMMA ViewStepKeeps == ASSUME ClientInv, Step PROVE ClientInv'
<1>1. [RegNext]_regVars /\ [SesNext]_ses /\ [MatNext]_matVars /\ [AccNext]_accVars
  BY DEF Step, Turn
<1>2. RegInv'
  BY <1>1, StepKeeps DEF ClientInv
<1>3. SesShape' /\ SesShowsOwner'
  BY <1>1, StepShape, OwnerStep DEF ClientInv
<1>4. MatInv' /\ AccInv' /\ TreeInv'
  BY <1>1, MatStepKeeps, AccStepKeeps, TreeStepKeeps DEF ClientInv
<1>5. QED
  BY <1>2, <1>3, <1>4 DEF ClientInv

(* The invariant of the whole client. *)
THEOREM ClientAlways == ClientSpec => []ClientInv
<1>1. ClientInv /\ [ClientNext]_clientVars => ClientInv'
  <2> SUFFICES ASSUME ClientInv, [ClientNext]_clientVars PROVE ClientInv'
    OBVIOUS
  <2>1. CASE Step
    BY <2>1, ViewStepKeeps
  <2>2. CASE SignedIn \/ Leave
    BY <2>2, UnmountKeeps DEF SignedIn, Leave
  <2>3. CASE OpenRegister \/ OpenForm \/ OpenDashboard \/ OpenOther \/ ComeBack
    BY <2>3, OpenKeeps
  <2>4. CASE UNCHANGED clientVars
    BY <2>4 DEF clientVars, pageVars, regVars, matVars, accVars, ClientInv, RegInv,
                SesShape, SesShowsOwner, MatInv, AccInv, TreeInv
  <2>5. QED
    BY <2>1, <2>2, <2>3, <2>4 DEF ClientNext
<1>2. QED
  BY <1>1, ClientInitKeeps, PTL DEF ClientSpec

(* Wherever the user goes, the register page has well-typed offsets and    *)
(* rows, shows no split twice (the dedupe of loadMore), and its search     *)
(* lists no other account's entries (the cleanup of the search effect).    *)
THEOREM ClientRegister == ClientSpec => [](RegTypeOK /\ RegRowsDistinct /\ RegSearchOfAccount)
<1>1. ClientInv => RegTypeOK /\ RegRowsDistinct /\ RegSearchOfAccount
  BY DEF ClientInv, RegInv, Own, Sound, Component, Request, Book, RegTypeOK,
         RegRowsDistinct, RegSearchOfAccount
<1>2. QED
  BY <1>1, ClientAlways, PTL

(* However often the browser comes back, to whatever is left of a session: *)
(* its pages are shown under the name of the cookie's user (the gate of    *)
(* App.tsx over AuthContext). *)
THEOREM ClientSessions == ClientSpec => [](SesTypeOK /\ SesShowsOwner)
<1>1. ClientInv => SesTypeOK /\ SesShowsOwner
  BY SesAssumption DEF ClientInv, SesShape, Formed, SesTypeOK, Session
<1>2. QED
  BY <1>1, ClientAlways, PTL

(* What the matcher of the client reports as imported is in the ledger,    *)
(* and the accounts page loses no update, wherever the user has been       *)
(* before. *)
THEOREM ClientImports == ClientSpec => [](MatTypeOK /\ MatImportedBooked)
<1>1. ClientInv => MatTypeOK /\ MatImportedBooked
  BY DEF ClientInv, MatInv, PageSound, ImportSound, PageShape, BookShape, MatTypeOK,
         MatImportedBooked
<1>2. QED
  BY <1>1, ClientAlways, PTL

(* The same for the edits of an account: leaving the page is no update. *)
THEOREM ClientEdits == ClientSpec => AccEditBased
<1>1. ClientInv => [\A a \in AccAccount :
                      (RunUpdate /\ accBook'[a] # accBook[a])
                        => accNet.save.row = accBook[a]]_accVars
  BY UpdateBased DEF ClientInv
<1>2. QED
  BY <1>1, ClientAlways, PTL DEF AccEditBased

(* Every balance of the account tree is the sum of the accounts below it,  *)
(* as the wizard of that row counts them, and the roots add up to all that *)
(* is shown (handleReconcile and the aggregates of AccountTree). *)
THEOREM ClientTree == ClientSpec => []AccTreeWhole
<1>1. ClientInv => AccTreeWhole
  BY TreeWhole DEF ClientInv, AccInv, PageGood, Copies, TreeInv
<1>2. QED
  BY <1>1, ClientAlways, PTL
-----------------------------------------------------------------------------
(* The register page, the list of transactions and the data page: the view *)
(* is at its start, or takes a step of its own module. *)
RegStarting ==
    \E a \in Account, d \in Dates : reg = RegStart(a, d) /\ regNet = RegNetStart(a, d)
BankStarting == bank = BankStart /\ bankNet = SendList(Quiet) /\ bankBook = BankBooks

LEMMA WaitingStarts ==
    \E a \in Account, d \in Dates :
      Waiting.reg = RegStart(a, d) /\ Waiting.regNet = RegNetStart(a, d)
<1> DEFINE r == AnyOf(RegStarts)
<1>1. PICK a \in Account, d \in Dates : TRUE
  BY RegAssumption
<1>2. [account |-> a, date |-> d] \in RegStarts
  BY DEF RegStarts
<1>3. r \in RegStarts
  BY <1>2 DEF AnyOf
<1>4. Waiting.reg = RegStart(r.account, r.date)
      /\ Waiting.regNet = RegNetStart(r.account, r.date)
  BY DEF Waiting
<1> HIDE DEF r
<1>5. QED
  BY <1>3, <1>4 DEF RegStarts

LEMMA WaitingForm ==
    \E mode \in {"new", "edit", "copy"}, a \in Defaults :
      Waiting.frm = FrmStart(mode, a) /\ Waiting.frmNet = FrmNetStart(mode)
<1> DEFINE f == AnyOf(FrmStarts)
<1>1. PICK a \in Defaults : TRUE
  BY FrmAssumption
<1>2. [mode |-> "new", account |-> a] \in FrmStarts
  BY DEF FrmStarts
<1>3. f \in FrmStarts
  BY <1>2 DEF AnyOf
<1>4. Waiting.frm = FrmStart(f.mode, f.account) /\ Waiting.frmNet = FrmNetStart(f.mode)
  BY DEF Waiting
<1> HIDE DEF f
<1>5. QED
  BY <1>3, <1>4 DEF FrmStarts

LEMMA ClientStarts ==
    ClientInit => /\ RegStarting /\ RecStarting /\ txn = TxnStart /\ snap = SnapStart
                  /\ dat = DatStart /\ BankStarting /\ FrmStarting /\ DashStarting
                  /\ pick = PickStart
<1>1. Waiting.dash = DashStart({})
  BY DEF Waiting
<1>2. QED
  BY <1>1, WaitingStarts, WaitingForm
  DEF ClientInit, RegStarting, RecInit, RecStarting, DatInit, BankInit, BankStarting,
      FrmStarting, DashStarting, PickInit

(* The server of a form that is not open is at its start. *)
FormWaits == view # "form" => frmBook = FrmBooks
LEMMA FormWaitsOn ==
    /\ ClientInit => FormWaits
    /\ FormWaits /\ [ClientNext]_clientVars => FormWaits'
<1>1. ClientInit => FormWaits
  BY DEF ClientInit, FormWaits
<1>2. ASSUME FormWaits, [ClientNext]_clientVars PROVE FormWaits'
  <2>1. CASE Step
    BY <1>2, <2>1 DEF Step, Turn, FormWaits, frmVars
  <2>2. CASE SignedIn \/ Leave
    BY <2>2 DEF SignedIn, Leave, Unmount, FormWaits
  <2>3. CASE OpenForm
    BY <2>3 DEF OpenForm, FormWaits
  <2>4. CASE OpenRegister \/ OpenDashboard \/ OpenOther \/ ComeBack \/ UNCHANGED clientVars
    BY <1>2, <2>4 DEF OpenRegister, OpenDashboard, OpenOther, ComeBack, FormWaits, frmVars,
                      clientVars, pageVars
  <2>5. QED
    BY <1>2, <2>1, <2>2, <2>3, <2>4 DEF ClientNext
<1>3. QED
  BY <1>1, <1>2

LEMMA ViewMoves ==
    ASSUME FormWaits, [ClientNext]_clientVars
    PROVE  /\ RegStarting' \/ [RegNext]_regVars
           /\ RecStarting' \/ [RecNext]_recVars
           /\ (txn = TxnStart)' \/ [TxnNext]_txn
           /\ (snap = SnapStart)' \/ [SnapNext]_snap
           /\ (dat = DatStart)' \/ [FilesNext]_datVars
           /\ BankStarting' \/ [BanksNext]_bankVars
           /\ FrmStarting' \/ [FrmNext]_frmVars
           /\ (pick = PickStart)' \/ [PickNext]_pick
           /\ DashStarting' \/ [DashNext]_dash
<1>1. CASE Step
  BY <1>1 DEF Step, Turn
<1>2. CASE SignedIn \/ Leave
  <2>1. Unmount
    BY <1>2 DEF SignedIn, Leave
  <2>2. RegStarting' /\ FrmStarting'
    BY <2>1, WaitingStarts, WaitingForm DEF Unmount, RegStarting, FrmStarting
  <2>3. /\ (txn = TxnStart)' /\ (snap = SnapStart)' /\ (dat = DatStart)'
        /\ BankStarting' /\ RecStarting' /\ (pick = PickStart)'
    BY <2>1 DEF Unmount, BankStarting, RecStarting
  <2>4. DashStarting'
    BY <2>1 DEF Unmount, DashStarting, Waiting
  <2>5. QED
    BY <2>2, <2>3, <2>4
<1>3. CASE OpenRegister
  <2>1. PICK s \in RegStarts :
          reg' = RegStart(s.account, s.date) /\ regNet' = RegNetStart(s.account, s.date)
    BY <1>3 DEF OpenRegister
  <2>2. s.account \in Account /\ s.date \in Dates
    BY DEF RegStarts
  <2>3. RegStarting'
    BY <2>1, <2>2 DEF RegStarting
  <2>4. UNCHANGED <<recVars, txn, snap, datVars, bankVars, frmVars, pick, dash>>
    BY <1>3 DEF OpenRegister
  <2>5. QED
    BY <2>3, <2>4 DEF datVars
<1>4. CASE OpenForm
  <2>1. PICK s \in FrmStarts :
          frm' = FrmStart(s.mode, s.account) /\ frmNet' = FrmNetStart(s.mode)
    BY <1>4 DEF OpenForm
  <2>2. s.mode \in {"new", "edit", "copy"} /\ s.account \in Defaults
    BY DEF FrmStarts
  <2>3. frmBook' = FrmBooks
    BY <1>4 DEF OpenForm, FormWaits
  <2>4. FrmStarting'
    BY <2>1, <2>2, <2>3 DEF FrmStarting
  <2>5. UNCHANGED <<regVars, recVars, txn, snap, datVars, bankVars, pick, dash>>
    BY <1>4 DEF OpenForm
  <2>6. QED
    BY <2>4, <2>5 DEF datVars
<1>5. CASE OpenDashboard
  <2>1. DashStarting'
    BY <1>5 DEF OpenDashboard, DashStarting
  <2>2. UNCHANGED <<regVars, recVars, txn, snap, datVars, bankVars, frmVars, pick>>
    BY <1>5 DEF OpenDashboard
  <2>3. QED
    BY <2>1, <2>2 DEF datVars
<1>6. CASE OpenOther \/ ComeBack \/ UNCHANGED clientVars
  <2>1. UNCHANGED <<regVars, recVars, txn, snap, datVars, bankVars, frmVars, pick, dash>>
    BY <1>6 DEF OpenOther, ComeBack, clientVars, pageVars
  <2>2. QED
    BY <2>1
<1>7. QED
  BY <1>1, <1>2, <1>3, <1>4, <1>5, <1>6 DEF ClientNext

THEOREM FormWaitsAlways == ClientSpec => []FormWaits
BY FormWaitsOn, PTL DEF ClientSpec

(* While nothing raced, the reconcile marks that are shown are the ones    *)
(* the server has, wherever the user has been before. *)
THEOREM ClientMarks == ClientSpec => []RegMarksTrue
<1>1. RegStarting => MarksInv
  BY StartMarks DEF RegStarting
<1>2. ClientInv => RegInv
  BY DEF ClientInv
<1>3. FormWaits /\ [ClientNext]_clientVars => RegStarting' \/ [RegNext]_regVars
  BY ViewMoves
<1>4. QED
  BY <1>1, <1>2, <1>3, ClientStarts, FormWaitsAlways, ClientAlways, StepMarks, MarksShown,
     PTL DEF ClientSpec

(* While nothing raced and nothing changed since the load, no row that     *)
(* ties with no other is left out between two rows shown, in the order of  *)
(* the server, and the register ends where it says so (loadMore over the   *)
(* offsets of getRegisterPage). *)
THEOREM ClientWindow == ASSUME PageSize > 1 PROVE ClientSpec => []RegWindow
<1>1. RegStarting /\ RegInv => PlaceInv
  BY StartPlaces DEF RegStarting, RegInv, Book
<1>2. ClientInv => RegInv
  BY DEF ClientInv
<1>3. FormWaits /\ [ClientNext]_clientVars => RegStarting' \/ [RegNext]_regVars
  BY ViewMoves
<1>4. RegInv /\ SavesInv /\ PlaceInv /\ [RegNext]_regVars => PlaceInv'
  BY StepPlaces
<1>5. RegStarting => SavesInv
  BY StartSaves DEF RegStarting
<1>6. QED
  BY <1>1, <1>2, <1>3, <1>4, <1>5, ClientStarts, FormWaitsAlways, ClientAlways, StepSaves,
     WindowShown, PTL DEF ClientSpec

(* Deletes and saves that end in loadData leave no row behind in the list  *)
(* of transactions, which is one that getTransactions may answer now: as   *)
(* many rows as its limit and the books allow and none newer left out,     *)
(* unless a load overlapped another request or an answer was lost. *)
THEOREM ClientTransactions == ClientSpec => []TxnListTrue
<1>1. txn = TxnStart => TxnInv
  BY TxnStartGood DEF TxnInv
<1>2. FormWaits /\ [ClientNext]_clientVars => (txn = TxnStart)' \/ [TxnNext]_txn
  BY ViewMoves
<1>3. TxnInv => TxnListTrue
  BY DEF TxnInv, TxnGood, TxnTrue, TxnListTrue
<1>4. QED
  BY <1>1, <1>2, <1>3, ClientStarts, FormWaitsAlways, TxnStepKeeps, PTL DEF ClientSpec

(* The list of snapshots is the server's, newest first, although the page  *)
(* only patches it after handleTake and handleDelete, in whatever order    *)
(* the answers come, unless a restore or a lost answer came between. *)
THEOREM ClientSnapshots == ClientSpec => []SnapListTrue
<1>1. FormWaits /\ [ClientNext]_clientVars => (snap = SnapStart)' \/ [SnapNext]_snap
  BY ViewMoves
<1>2. QED
  BY <1>1, ClientStarts, FormWaitsAlways, SnapStartKeeps, SnapStepKeeps, ListsAgree,
     PTL DEF ClientSpec

LEMMA ClientBanksKept == ClientSpec => []BankInv
<1>1. BankStarting => BankInv
  <2> SUFFICES ASSUME BankStarting PROVE BankInv
    OBVIOUS
  <2>1. PICK net : net = SendList(Quiet)
    OBVIOUS
  <2>2. BankGood(BankStart, net, BankBooks)
    BY <2>1, BankStartGood
  <2>3. QED
    BY <2>1, <2>2 DEF BankStarting, BankInv
<1>2. FormWaits /\ [ClientNext]_clientVars => BankStarting' \/ [BanksNext]_bankVars
  BY ViewMoves
<1>3. QED
  BY <1>1, <1>2, ClientStarts, FormWaitsAlways, BankStepKeeps, PTL DEF ClientSpec

(* The data page is well typed, and a button is busy exactly while its     *)
(* request is out (the finally blocks of DataManagement). *)
THEOREM ClientDataTypes == ClientSpec => []DatTypeOK
<1>1. FormWaits /\ [ClientNext]_clientVars => (dat = DatStart)' \/ [FilesNext]_datVars
  BY ViewMoves
<1>2. QED
  BY <1>1, ClientStarts, FormWaitsAlways, ClientBanksKept, DatStartShape, FilesStepKeeps,
     BankTypes, PTL DEF ClientSpec

(* Once everything is answered the list of banks is the server's again,    *)
(* unless two list requests overlapped or something failed (loadPlaidItems *)
(* after each handler). *)
THEOREM ClientBanks == ClientSpec => []DatListFresh
BY ClientBanksKept, QuietFresh, PTL

(* The wizard's fields have their types, what is ticked is listed, and a   *)
(* statement that was finished undisturbed is the balance of the splits    *)
(* that are reconciled then (handleFinish over BatchReconcile). *)
THEOREM ClientStatements == ClientSpec => [](RecTypeOK /\ RecStatementHolds)
<1>1. FormWaits /\ [ClientNext]_clientVars => RecStarting' \/ [RecNext]_recVars
  BY ViewMoves
<1>2. QED
  BY <1>1, ClientStarts, FormWaitsAlways, RecStartKeeps, RecStepKeeps, RecTypes, RecStatement,
     PTL DEF ClientSpec

LEMMA ClientFormKept == ClientSpec => [](FrmInv /\ PickInv)
<1>1. FormWaits /\ [ClientNext]_clientVars =>
        /\ FrmStarting' \/ [FrmNext]_frmVars
        /\ (pick = PickStart)' \/ [PickNext]_pick
  BY ViewMoves
<1>2. QED
  BY <1>1, ClientStarts, FormWaitsAlways, FrmStartKeeps, FrmStepKeeps, PickStartKeeps,
     PickStepKeeps, PTL DEF ClientSpec

(* In the entry form every field has its type, a spinner has a request to  *)
(* wait for, and the picker highlights an account it shows. *)
THEOREM ClientFormTypes == ClientSpec => []FrmTypeOK
BY ClientFormKept, FormTypes, PTL

(* The two amounts of a new entry of which the user typed one add up to    *)
(* zero or are both open (updateSplit of TransactionForm). *)
THEOREM ClientMirrors == ClientSpec => []FrmMirrored
BY ClientFormKept, FormMirrored, PTL

(* The balance projected under a row is the account's once the entry is    *)
(* saved, if it was loaded and sent once, but for the account Imbalance,   *)
(* which has what the rows did not add up to less (projectedBalanceStr and *)
(* handleSubmit of TransactionForm, CreateTransaction).  An edited entry   *)
(* that is saved adds up (UpdateTransaction). *)
THEOREM ClientProjects == ClientSpec => []FrmProjected
BY ClientFormKept, FormProjected, PTL

(* The dashboard's net worth of all time is what was earned less what was  *)
(* spent and what stands on accounts of the types it does not count,       *)
(* whatever the types, the entries and the range chosen before             *)
(* (computeDashboard over GetAccounts). *)
THEOREM ClientNetWorth == ClientSpec => []DashNetWorth
<1>1. FormWaits /\ [ClientNext]_clientVars => DashStarting' \/ [DashNext]_dash
  BY ViewMoves
<1>2. QED
  BY <1>1, ClientStarts, FormWaitsAlways, DashStartKeeps, DashStepKeeps, WorthShown, PTL
  DEF ClientSpec
=============================================================================
