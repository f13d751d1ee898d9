------------------------------- MODULE Client -------------------------------
(***************************************************************************)
(* The web client as one system: a tab signs in (App.tsx shows the login   *)
(* page or the pages) and then shows one page at a time, whose component   *)
(* is mounted when it is opened and gone when it is left.                  *)
(*                                                                         *)
(* The components share no state in the browser: each keeps its own, and   *)
(* what they have in common is the server, of which every module keeps the *)
(* part its component reads and writes.  So a view is followed from where  *)
(* it starts, over books as they may be then, and the others wait at their *)
(* start.  The modals (the form, its picker, the wizard, the matcher) are  *)
(* views of their own, as the modules of the pages that open them have     *)
(* what they answer.                                                       *)
(***************************************************************************)
EXTENDS RegisterView, ClientSession, Reconcile, ImportMatcher, DataPage, EntryForm,
        AccountsPage, OverviewPages

VARIABLE view       \* "session", "menu" or the view that is followed
pageVars == <<regVars, recVars, matVars, datVars, bankVars, frmVars, pick, accVars,
              dash, txn, snap>>
clientVars == <<view, ses, pageVars>>

(* The views, and the starts of those that have several. *)
Views == {"register", "wizard", "matcher", "files", "banks", "form", "picker",
          "accounts", "dashboard", "transactions", "snapshots"}
SesStarts == [cache : User \cup {NoUser}, cookie : {0, 1}, live : SUBSET {1}, owner : User]
RegStarts == [account : Account, date : Dates]
FrmStarts == [mode : {"new", "edit", "copy"}, account : Defaults]

(* A view that is not followed waits at one of its starts. *)
AnyOf(S) == CHOOSE s \in S : TRUE
Waiting ==
    LET r == AnyOf(RegStarts)
        f == AnyOf(FrmStarts)
        s == AnyOf(SesStarts)
    IN  [ses |-> SesStart(s.cache, s.cookie, s.live, s.owner),
         reg |-> RegStart(r.account, r.date), regNet |-> RegNetStart(r.account, r.date),
         frm |-> FrmStart(f.mode, f.account), frmNet |-> FrmNetStart(f.mode),
         dash |-> DashStart({})]

ClientInit ==
    /\ view = "session" /\ SesInit
    /\ reg = Waiting.reg /\ regNet = Waiting.regNet /\ regBook = RegBooks
    /\ frm = Waiting.frm /\ frmNet = Waiting.frmNet /\ frmBook = FrmBooks
    /\ dash = Waiting.dash /\ txn = TxnStart /\ snap = SnapStart
    /\ RecInit /\ MatInit /\ DatInit /\ BankInit /\ PickInit /\ AccInit

-----------------------------------------------------------------------------
(* A step of the component that is mounted. *)
Turn(v, A, vars) == IF view = v THEN A ELSE UNCHANGED vars
Step ==
    /\ view # "menu" /\ UNCHANGED view
    /\ Turn("session", SesNext, ses)
    /\ Turn("files", FilesNext, datVars)
    /\ Turn("banks", BanksNext, bankVars)
    /\ Turn("picker", PickNext, pick)
    /\ Turn("form", FrmNext, frmVars)
    /\ Turn("dashboard", DashNext, dash)
    /\ Turn("transactions", TxnNext, txn)
    /\ Turn("snapshots", SnapNext, snap)
    /\ Turn("accounts", AccNext, accVars)
    /\ Turn("matcher", MatNext, matVars)
    /\ Turn("wizard", RecNext, recVars)
    /\ Turn("register", RegNext, regVars)

(* The routes: signed in, a page is opened, and left at any time, with     *)
(* whatever it asked for under way.  A link from one page to another is a  *)
(* Leave and an Open.  Who is signed in makes no difference to a page. *)
Unmount ==
    /\ view' = "menu" /\ ses' = Waiting.ses
    /\ reg' = Waiting.reg /\ regNet' = Waiting.regNet /\ regBook' = RegBooks
    /\ frm' = Waiting.frm /\ frmNet' = Waiting.frmNet /\ frmBook' = FrmBooks
    /\ rec' = Closed /\ recNet' = NoAsk /\ recBook' = RecBooks
    /\ mat' = MatPage /\ matNet' = MatIdle /\ matBook' = MatBooks
    /\ dat' = DatStart /\ bank' = BankStart /\ bankNet' = SendList(Quiet)
    /\ bankBook' = BankBooks
    /\ pick' = PickStart /\ acc' = AccPage /\ accNet' = AccSent /\ accBook' = FirstBook
    /\ dash' = Waiting.dash /\ txn' = TxnStart /\ snap' = SnapStart
SignedIn == view = "session" /\ PagesShown(ses) /\ Unmount
Leave == view \in Views /\ Unmount

OpenRegister ==
    /\ view = "menu" /\ view' = "register"
    /\ \E s \in RegStarts :
         /\ reg' = RegStart(s.account, s.date) /\ regNet' = RegNetStart(s.account, s.date)
    /\ UNCHANGED <<ses, regBook, recVars, matVars, datVars, bankVars, frmVars, pick,
                   accVars, dash, txn, snap>>
OpenForm ==
    /\ view = "menu" /\ view' = "form"
    /\ \E s \in FrmStarts :
         frm' = FrmStart(s.mode, s.account) /\ frmNet' = FrmNetStart(s.mode)
    /\ UNCHANGED <<ses, frmBook, regVars, recVars, matVars, datVars, bankVars, pick,
                   accVars, dash, txn, snap>>
OpenDashboard ==
    /\ view = "menu" /\ view' = "dashboard"
    /\ \E book \in SUBSET DashEntries : dash' = DashStart(book)
    /\ UNCHANGED <<ses, regVars, recVars, matVars, datVars, bankVars, frmVars, pick,
                   accVars, txn, snap>>
OpenOther ==
    /\ view = "menu" /\ view' \in Views \ {"register", "form", "dashboard"}
    /\ UNCHANGED <<ses, pageVars>>

(* The browser comes back later, to whatever is left of a session. *)
ComeBack ==
    /\ view = "menu" /\ view' = "session"
    /\ \E s \in SesStarts : ses' = SesStart(s.cache, s.cookie, s.live, s.owner)
    /\ UNCHANGED pageVars

ClientNext ==
    \/ Step \/ SignedIn \/ Leave \/ ComeBack
    \/ OpenRegister \/ OpenForm \/ OpenDashboard \/ OpenOther
ClientSpec == ClientInit /\ [][ClientNext]_clientVars
=============================================================================
