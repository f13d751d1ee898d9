SPECIFICATION ClientSpec
VIEW Followed
CONSTANTS
  Account = {"a", "b"}
  NoAccount = "none"
  Split = {1, 2, 3, 4, 5}
  Home <- MCHome
  Place <- MCPlace
  Routes <- MCRoutes
  PageSize = 2
  Dates = {3}
  Matches = {2, 5}
  Touched = {2}
  MaxFlight = 2
  MaxChange = 1
  User = {"u1", "u2"}
  NoUser = "nouser"
  MaxSessions = 3
  RecAccount = {"a", "l", "m"}
  ServerDebit = {"a", "m"}
  ClientCredit = {"l"}
  RecSplit = {1, 2, 3, 4}
  RecHome <- MCRecHome
  Amounts <- MCAmounts
  Marks <- MCMarks
  Edits <- MCEdits
  Typed <- MCTyped
  RecDates = {2, 4}
  RecWizards <- MCWizards
  RecMaxEvents = 2
  MatAccount = {"x", "y"}
  Item = {"b1"}
  NoItem = "noitem"
  Link <- MCLink
  Txn = {1, 2}
  BankOf <- MCBankOf
  Category = {"food"}
  NoCategory = "nocat"
  Suggestion <- MCSuggestion
  File = {"f"}
  NoFile = "nofile"
  Bank = {"b1"}
  NoBank = "nobank"
  Known = {}
  FrmAccount = {"a", "b"}
  NoAcct = "noacct"
  NaN = NaN
  Texts <- MCTexts
  Defaults = {"a"}
  OldRows <- MCOld
  Balance <- MCBalance
  Imbalance = "b"
  MaxRows = 3
  MaxEdits = 2
  Query = {"q", "z"}
  NoQuery = ""
  Hits <- MCHits
  AccAccount = {"r", "p", "c"}
  AccRoot = "r"
  NoOne = "noone"
  FirstTree <- MCTree
  AccBalance <- MCAccBalance
  Fixed = {}
  AccMaxOps = 3
  DashType = {"ASSET", "BANK", "CASH", "CREDIT", "LIABILITY", "INCOME", "EXPENSE", "EQUITY",
              "RECEIVABLE"}
  DashEntries <- MCEntries
  DashNow = 25
  Entry = {"t1", "t2"}
  NoEntry = "noentry"
  FirstEntries = {"t1"}
  TxnDay = {1, 2}
  FirstDay <- MCFirstDay
  TxnLimit = 1
  Snap = {"s1", "s2", "s3"}
  NoSnap = "nosnap"
  FirstSnaps <- MCSnaps
INVARIANTS
  RegTypeOK RegRowsDistinct RegWindow RegMarksTrue RegSearchOfAccount
  SesTypeOK SesShowsOwner
  RecTypeOK RecStatementHolds
  MatTypeOK MatImportedBooked
  DatTypeOK DatListFresh
  FrmTypeOK FrmMirrored FrmProjected
  AccTreeWhole
  DashNetWorth TxnListTrue SnapListTrue
PROPERTIES AccEditBased
