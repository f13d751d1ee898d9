# A verification development for antimoney

TLA+ models of the parts of this repository whose correctness depends on the
order of things (concurrent requests, failures, restarts, the order in which a
bank reports, answers that reach a page late or in another order), TLC configurations that check them on small instances, and
theorems about them that TLAPS checks for every instance. Paths below are
relative to `src/`.

* [1. The system](#1-the-system)
* [2. The modules and the code](#2-the-modules-and-the-code)
* [3. The runs](#3-the-runs)
* [4. Fairness and deadlock](#4-fairness-and-deadlock)
* [5. The theorems](#5-the-theorems)
* [6. Disagreements between code and documentation](#6-disagreements-between-code-and-documentation)
* [7. What is abstracted and what is not modelled](#7-what-is-abstracted-and-what-is-not-modelled)
* [8. Plan](#8-plan)

Run a configuration with `tlc -config PlaidSync_race.cfg MCPlaidSync`, check the
proofs with `tlapm` on `PlaidSyncProofs.tla`, `PlaidLinkProofs.tla`,
`LedgerProofs.tla`, `RegisterViewProofs.tla`, `PageProofs.tla`, `ModalProofs.tla`,
`ClientProofs.tla` and `Sums.tla`, whose lemmas the others use.
`PROJECT.json` lists, for every definition, the source lines it models; for every
property, a mutation of a definition that makes its run fail; and every hazard
with the properties that guard it.

## 1. The system

antimoney is a double-entry bookkeeping program: a Go server over PostgreSQL
(and Redis for rate limits), a React client, and Plaid for bank feeds. Each user
owns one *book*. Every request is a goroutine; nothing but the database is
shared between requests, so all coordination is done by SQL: unique indexes,
foreign keys, row locks, `version` columns, one advisory lock. Transactions run
under READ COMMITTED. The client is a single-page application: each page is a
component that keeps its own state, sends requests and patches itself when
their answers come; nothing orders the answers but the code of the page.

| component | code | state | operations | what is hard | correct when |
|---|---|---|---|---|---|
| Bank synchronisation | `backend/internal/plaid/service.go` (Sync, fetchAndStage, stageDelta, DismissStaged, Import) | `plaid_items.sync_cursor`, `plaid_staged_transactions`, the dedupe key in `transactions.metadata`, the per-item advisory lock | sync, dismiss, import | the cursor is read before the lock; pages are applied statement by statement without a transaction; imports race with each other and with a sync; pending transactions are replaced by posted ones with another id; crashes between any two statements | no bank transaction is lost or booked twice; a dismissal lasts; the cursor catches up; the lock is given back |
| Bank connection | `service.go` (Exchange, LinkAccounts, Disconnect, loadAndDecryptToken), `plaid/crypto.go` | `plaid_items` rows, `accounts.metadata->'plaid'`, `plaid_migration_audit`, the configured keys, Plaid's own view of the item | exchange, link, disconnect, re-seal | row read outside the transaction that uses it; Plaid calls whose answer is lost; keys rotated across restarts; row-lock cycles | a bank account has one ledger account; the newest token is never destroyed; no link to an item that is gone |
| Ledger | `backend/internal/services/transaction_service.go`, `account_service.go` | `accounts`, `transactions`, `splits` | create, update and delete of transactions and accounts; toggle; batch and account reconciliation | concurrent updates that delete and re-insert splits; count-then-delete; auto-balancing; batches that lock splits in any order | transactions balance; splits of a transaction stem from one request; nothing is orphaned; stale account edits are refused; a reconciliation is all or nothing |
| Register page, paging | `frontend/src/pages/AccountRegister.tsx`, `components/Register.tsx`, `utils/registerSort.ts`, `registerSearch.ts`; `transaction_service.go:474-814` | a window of rows with two offsets and two flags, the search cache | load, pages both ways, search, toggle a mark, delete, another account | pages on both sides at once; answers of an account that was left; the cache is patched and not read again; offsets clamped at zero | no gap and no row twice; marks are the server's; a search is of this account |
| Client session | `auth/AuthContext.tsx`, `App.tsx`, `pages/LoginPage.tsx`, `api/client.ts` | user, loading, the cached user, the cookie | mount, login, logout, a request that finds the session expired | the cache is shown on trust until `/auth/me` answers; late 401s | the pages are those of the cookie's owner |
| Reconcile wizard | `components/ReconcileWizard.tsx` | starting and ending balance, rows, ticks | open, suggest, start, tick, finish | one request per account; sign conventions of wizard and server; books change under it | what is reconciled adds up to the statement |
| Entry form, picker | `components/TransactionForm.tsx`, `AccountPicker.tsx`, `hooks/useShortcuts.ts` | rows, original splits, highlight | type, add, remove, save, search | mirrored amounts, expressions, two ways to send | amounts balance; the projected balance comes true |
| Import matcher, auto-sync | `components/ImportMatcher.tsx`, `utils/plaidSync.ts` | suggested rows, ticks, the day of the last sync | sync, categorise, dismiss, import | closed while it imports; partial imports | what is reported as imported is booked |
| Data page | `pages/DataManagement.tsx` | busy flags, file inputs, the list of banks | export, import, reset, connect, link, sync, disconnect | list reloaded after each | spinners end; the list is the server's |
| Accounts page | `pages/Accounts.tsx`, `components/AccountTree.tsx`, `AccountForm.tsx` | the list for a range, the form, the wizard's accounts | list, create, edit, delete, reconcile a subtree | the list is reloaded under an open form; parents move | sums lose and repeat nothing; edits replace what was shown |
| Overview pages | `pages/Dashboard.tsx`, `Transactions.tsx`, `Snapshots.tsx` | sums of a range, two lists | range, delete, duplicate, take, restore | signs; reloads and patches in any order | net worth adds up; lists are the server's |
| Rational arithmetic | `backend/internal/gnc/numeric.go` | none | add, sum, reduce, compare | int64 overflow, the sign of the smallest integer | exact within the width |
| Snapshots and scheduler | `services/snapshot_service.go`, `scheduler/snapshot_scheduler.go` | `book_snapshots`, a ticker | take, rotate, expire, restore | quota counted before insertion; tables read in separate statements; books that are always active | quotas kept; a snapshot can be restored; due books get one |
| Import, export, reset | `handlers/import_export.go`, `handlers/gnucash_parser.go` | the whole book | import, factory reset | deletion committed before the new seed | a book is never left without accounts |
| Authentication, registration | `auth/auth.go`, `cmd/server/main.go` | `users`, `books`, tokens | register, login, refresh, logout | several statements, then a seed | a user always has a usable book |
| Rate limits, revocation | `ratelimit/ratelimit.go` | Redis counters | check | counter and expiry are two calls; Redis away | limits hold while Redis answers |
| Categoriser | `plaid/categorizer.go` | none | suggest | – | only a suggestion |
| Seed data | `seed/seed.go` | default accounts | seed | – | the initial state of Ledger |
| Database, config, migrations | `database/`, `config/`, `migrations/` | schema | – | – | the constraints the modules rely on |
| HTTP server | `cmd/server/main.go`, `handlers/helpers.go` | – | routing | – | each route is one service call |
| Client texts and presentation | `i18n.ts`, `utils/date.ts`, sidebar, breadcrumbs | the language | – | – | – |
| Deployment, scripts | `infra/`, `deploy.sh`, `scripts/` | – | – | – | – |

Interactions. Import of a staged row calls `CreateTransaction` of the ledger with
the dedupe key in the metadata; the user's transaction editor changes what was
imported; Exchange creates the item that Sync and LinkAccounts read; Disconnect
deletes it; a sync's cursor write increments the item's version, which the
re-seal of a token and a forced Disconnect compare. In the client, App.tsx shows
the login page or the pages; the register page opens the form, the wizard and
the matcher, the accounts page its form and the wizard, the data page the
matcher; each calls `api/client.ts`, which is the only way to the server.

## 2. The modules and the code

**PlaidSync** - one Plaid item and one book. `sync[s]` is one in-flight Sync
request (its local cursor, page count, the page it is staging, the entry in
hand), `imp[i]` one row of an Import request. Each SQL statement is an action:
`ReadItem` and `TryLock`/`SkipFetch` (Sync, 362-400), `FetchPage`/`FetchNothing`
(the `/transactions/sync` loop), `StageFresh`, `CheckPredecessor`,
`DropReplaced`, `ReadDismissed`, `StageSuccessor`, `DropZeroed`, `ApplyRemoved`
(stageDelta, in its three passes), `PersistCursor`, `Unlock`,
`ServeSuggestions`; `ReadStaged` to `DeleteStaged` (Import); `Dismiss`.
`SyncFault`, `FailRow`, `DeleteStagedFails` are the error paths at every
statement, `Crash` a restart of the server. `Publish` and `EditBook` are the
environment: the bank adds a page to the feed, the user deletes or edits what was
imported. Four variables are history: `everBooked` and `everDismissed`, the furthest
cursor that was ever persisted (`furthest`) and the pages that were fetched again from
behind it (`replayed`).

**OfferPromise** - the abstract specification of synchronisation: reported
transactions are offered, an offer goes away only for a reason, an import books
once an amount the bank reported. It knows no staging, cursor, lock or request.
**PlaidSyncPromise** maps PlaidSync to it: the offers are the rows the
suggestions query would return (`Visible`), the bookings the ledger transactions
with a plaid id; `Successions`, `Reports` and `Withdrawals` are what the bank will
replace, and has reported and taken back. It needs of the bank what PlaidSync names
`PendingFirst`, a pending transaction replaces nothing (a dismissal is inherited by the
direct successor), and, where the item does not import pending ones, `StatusKept`, an
id does not change between pending and posted (the suggestions would hide it again).

**PlaidLink** - items, tokens, links and keys. A plaid_items row is identified by
the item and the count of rows that item has had, so a re-created row is another
one. Statements inside a database transaction see it through `View`; its writes
are the request's `wr` until the commit, and `WaitsFor` says whose uncommitted
rows and index entries a write waits for. `Restart` changes the keys as an operator
can: rotate, drop a retired key, bring it back. A seal that no key opens is
distinguished from the old format without AAD, since the code treats them
differently in Disconnect.

**Ledger** - accounts, transactions and splits of one book. A posting maps
positions to lines (account, value); the auto-balancing line has position 0.
`StartCreate`, `AutoBalance`, `CheckAccounts`, `InsertSplits` are
CreateTransaction; `OpenForm` (the client loads the transaction),
`LookUpTransaction`, `CheckAccounts`, `BumpVersion`, `ScanSplits`,
`DeleteSplits`, `InsertSplits` are UpdateTransaction. `BumpVersion` takes the
row lock; a DELETE is two steps (the rows its snapshot shows, then their removal
once they are free) because in READ COMMITTED the rows may change in between.
The uncommitted deletions and reconciliations of a request are its `del` and
`wr`. DeleteTransaction, ToggleSplitAcknowledge and ReconcileAccountSplits are
one statement, hence one action; BatchReconcileSplits is `StartBatch`,
`MarkSplit` for each split and `CommitBatch`. `CountUses` and `DropAccount` are
the two statements of DeleteAccount. The foreign keys are `AccountsThere` and
`Unreferenced`. `base` in account and transaction rows is history: the version
the last edit was made on.

The server's modules share no state. What one needs of another is an action of its
environment: CreateTransaction appears in PlaidSync as the one commit that the
partial unique index allows or refuses, its inside is the subject of Ledger.

The modules of the client hold, each, a component's state, its outstanding requests
and the part of the server's books it reads and writes. A request is sent, run by
the server when it gets to it (what it reads is fixed from then on) and answered at
any later time; or it fails, before or after the server ran it. A request whose
component is gone is followed if its answer still acts on something, else
dropped. Names of actions are those of the handlers.

**RegisterView** - `reg` is the component, `regNet` its request slots, `regBook` the
registers. `Place` is the key the server sorts splits by (date, custom id as text, enter
date). Splits may share a place, as those of one transaction in one account do; a query
puts them in any order, and the next query in another, so a page is any of `PagesAt`. The
page sorts what it has got by the number in the custom id (`registerSort.ts`), hence rows
are kept as a set, with `copies` counting how often the window holds a split.
`Around`, `Before`, `After` are the three branches of
GetAccountRegisterPaged, clamp and shortened limit included; `LoadMore` is
handleScroll, which may ask on both sides at once; `MoreAnswered` drops rows that
are there; `SearchEffect` is the effect with its cancelled flag;
`ToggleClick`/`ToggleAnswered` patch both lists; `DataChanged` drops the cache and
reloads. `ver` and `calm` are history: the state of the books a window or cache
saw, and that no write overlapped it.

**ClientSession** - sessions are numbers, 0 is no cookie. `SesInit` lets the browser
hold any cached user with any cookie. `CallExpired` is the 401 branch of fetchJSON,
whose event logs the page out.

**Reconcile** - a wizard over one account whose type it knows, or over an account and
its descendants without a type (`Accounts.tsx:185-192`). `ServerDebit` and
`ClientCredit` are the two classifications of accounts, the server's and the
wizard's. A Promise.all is answered when each account has been read.

**ImportMatcher** - `MatVisit` decides on the first sync of a day; `ImportRow` books,
skips or fails one row, `ImportBroken` ends an import between rows, `Complete` is the
client's test for success. An import goes on when its matcher is closed.

**DataPage** - two halves, files (`dat`) and banks (`bank`), that share no state.
**EntryForm** - the form, and one picker by itself (`pick`). The text of an amount
is told by what parseFloat and evaluateMath make of it: the number it begins with and
the number it is worth, each an integer or `NaN`, a value that is none. `SaveRuns` is the
server: it refuses an edit that does not add up and books what a new or copied entry
lacks (`LeftOver`) to the account `Imbalance`, which may be one of the form's rows
(`transaction_service.go:92-132, 264-273`).

**AccountsPage** - a list as
loaded for a range, with the rows' versions, and the form that was filled from one.
**OverviewPages** - the dashboard (`dash`), the transactions (`txn`) and the snapshots
(`snap`). `DashType` is any finite set: the client's form offers eight types, but an import
stores whatever a file says (`import_export.go:166-170`), and the dashboard has no case
for any other (`Uncounted`, with EQUITY). The transactions are dated, since the server answers the
newest up to a limit (`TxnLimit`; 50 in `client.ts:74-75`), and of those of one day
any (`Newest`).

**Client** - the tab: `view` is the login, a page or modal, or the menu between them.
`Step` is a step of the view that is followed; `Leave` unmounts it at any time, with its requests
under way; `OpenRegister`, `OpenForm`, `OpenDashboard`, `OpenOther` mount one,
over any of its starting books; `ComeBack` is a later visit of the browser. Components share no state in the
browser, so the others wait at their start. A link from one page to another, or a
page that opens a modal, is a Leave and an Open; what a modal reports to its page is
in the module of the page (`Save` in RegisterView, `WizardFinished` in
AccountsPage, `TxnFormCreated` in OverviewPages).

## 3. The runs

Deadlock is checked in every run (see section 4).

| run | question | bounds |
|---|---|---|
| `PlaidSync_race` | `NothingLost`, `ImportedOnce`, `SingleFetcher`, `DismissalDurable` under all interleavings | 2 syncs, 2 imports, a purchase that is pending and then posted (2 pages), 1 page per sync, 1 fault or crash; 1.89 M states |
| `PlaidSync_single` | `NoDoubleMovementOneTab`: pending and posted are not both booked with one value | 1 sync, 1 import, 3 pages (pending, posted, corrected), 2 faults; 30 k states |
| `PlaidSync_live` | `LockReleased`, `CatchesUp` under `FairSpec` | 2 syncs, 3 pages (an amount, zero, another amount), 1 page per sync, 1 fault or crash; 12 k states |
| `PlaidSync_promise` | `KeepsPromise`: PlaidSync implements OfferPromise | 2 syncs, 1 import, a tip (the posted amount differs), 1 fault, 1 edit of the book; 495 k states |
| `PlaidSync_regress` | *violated:* `CursorNeverRegresses` | 2 syncs, no fault |
| `PlaidSync_double` | *violated:* `NoDoubleMovement` | 1 sync, 2 imports, no fault |
| `PlaidSync_inherit` | *violated:* `SuccessorInherits` | 1 sync, no import, no fault |
| `PlaidLink_races` | `OneAccountPerBank`, `TokenKept`, `ArchivedUnreadable` | 4 requests, 2 at a time, 1 item with 2 bank accounts, 2 ledger accounts, 2 restarts, 1 fault; 126 k states |
| `PlaidLink_dangling` | *violated:* `NoDanglingLink` | the same instance, no restart, no fault |
| `Ledger` | `Balanced`, `SingleAuthor`, `NoOrphan`, `AccountEditsSerial`, `ReconcileAtomic` | 3 requests, 2 at a time, 3 seeded accounts and a free guid, 4 drafts, 1 fault; 735 k states |
| `Ledger_lostupdate` | *violated:* `NoLostUpdate` | 3 requests, 2 drafts, no fault |
| `Client` | the 21 properties of the client, below | one tab; see the list below; 1.93 M states |

Why the bounds are enough to be interesting. Two requests of a kind are what the
races need: each decision reads one row or takes one lock, and one competitor can
change it. One page per sync makes the page cap bite on every feed and lets the
cursor be behind. The feeds hold the cases stageDelta distinguishes: an entry
without and with a predecessor, the same and another amount, zero, a removal of
the id on the page that names it as predecessor. One fault at any statement
reaches each error path in each state; the crash also ends the other requests.
The drafts of Ledger are: balanced with a zero split, not balanced with two
splits, not balanced with one non-zero split, and one that becomes empty; the
account edit makes an account a placeholder named Imbalance, so auto-balance
finds it and the placeholder check refuses it, as it can be in the code. In
PlaidLink two mapping lists name the same rows in opposite orders (the deadlock)
and a third competes for one bank account. Two restarts let a key be retired and
then lost; with two more bank accounts or a second item nothing new can happen,
as items share no row but the ledger accounts.

Requests are symmetric (Syncer, Importer, Request), and the safety runs use that;
the liveness run does not.

The bounds of `Client`:

| view | bounds | why they are enough |
|---|---|---|
| register | 5 splits (4 of one account, two of them tied), pages of 2, 2 requests at a time, 1 change of the books, 1 route, 1 toggled split | a window is in the middle with something on both sides; both sides are loaded at once; a page is shortened by the clamp; a request is left over when the account changes; a page's edge falls between tied rows |
| session | 2 users, 3 sessions | the cached user, the cookie's and the one who signs in differ |
| wizard | 3 accounts, 4 splits, two of them reconciled, 1 typed balance, 2 dates, 2 openings or edits elsewhere | a subtree without a type, a liability with one; a wizard is opened while an older one's answer is out |
| matcher | 2 accounts, one bank, 2 transactions, one without category | an import with one row booked and one failed; closed and opened anew |
| data page | 1 file, 1 bank, 2 overlapping lists | the same file again after a failure; connect, link, sync, disconnect, connect again |
| form | 3 rows, 2 edits, 5 texts, sent at most twice, one of the accounts named Imbalance; a picker with 3, 1 or no matches | numbers, a minus sign, nothing, an expression and what is no number, alone and after each other; entries that add up and that do not |
| accounts | 3 accounts, one of them not there yet, 3 operations | an edit raced by a move elsewhere and a reload; a cycle needs two moves |
| dashboard | 7 entries in seven months, over all types of accounts the client offers and RECEIVABLE, which only an import brings in | every subset of them, in every range |
| transactions | 2 entries, one there at first, 2 days, a limit of 1 | create, delete and reload overlap; the list is full, and what was left out moves up after a delete or a new date |
| snapshots | 3 snapshots, two there at first | takes and deletes answered in any order |

The configuration has a VIEW: the variables of the views that are not followed
have one value, that of `Waiting`, so the variables of the followed one tell
states apart. Nothing else is identified.

In `Client`, `RegWindow` says that no row is missing between two that are shown, in the
order the server pages by, unless it ties with another, and
that the ends of the register are said only where they are; `RegRowsDistinct` that no row is shown twice;
`RegMarksTrue` that both lists show the server's marks; `RegSearchOfAccount` that a search
is never another account's. `SesShowsOwner`: the pages are never under one user's
name with another's cookie. `RecStatementHolds`: what was finished adds
up to the ending balance. `MatImportedBooked`: what was reported as imported is
booked. `DatListFresh`, `SnapListTrue`: once everything is answered a list is
the server's; `TxnListTrue`: it is one the server may answer now, that is, the newest
entries up to the limit. `FrmMirrored`: the second amount follows the first. `FrmProjected`:
the balance projected when the form was sent is the one after it was saved, but for
the account Imbalance, which lacks exactly what the rows did not add up to; an edit that was
saved added up. `AccTreeWhole`:
sums, subtrees and wizard agree, nothing is lost but cycles. `AccEditBased`: an
accepted edit replaces the row the form showed. `DashNetWorth`: net worth is income less
expenses and what stands on accounts of the types the dashboard does not count. `RecTypeOK`, `MatTypeOK`, `DatTypeOK`, `FrmTypeOK` add to the types what keeps
a page from being stuck or from sending what it does not show.

The conditions under which they hold are part of the statements, since the code
keeps no more. What it does outside of them was met while modelling, and no line of the repository
says otherwise:

* the register's window is right while no write overlapped the loads (`calm`);
* rows that tie in the server's order may be skipped or shown by two pages at the edge of
  one (the second copy is dropped), since LIMIT and OFFSET are applied to another order each time; and as
  the server sorts the custom id as text and the page as a number, the rows of one
  day that are not loaded yet may belong in the middle of those of it that are;
* the projected balance of the account Imbalance leaves out what the server adds
  to it, and an edit that does not add up is sent and refused;
* the Transactions page never shows more than the newest 50 entries: there is no next page;
* accounts of an imported type (RECEIVABLE, PAYABLE, STOCK, ...) are in no sum of the
  dashboard;
* the wizard's ending balance is overwritten by a suggestion that comes late; its
  starting balance is 0 until it comes; opened from the accounts page it is told no
  type, so a liability is treated as an asset (`SignsAgree`); the answer of a closed
  wizard or matcher closes the one opened since;
* a late answer of a logout clears the cookie of a newer login; tabs share cookie and cache;
* lists that are loaded twice at once end as the one answered last; a failed upload
  cannot be retried with the same file; the snapshots page has one slot for the row
  that is being deleted;
* a blank form whose entry did not load can be sent, and Ctrl+Enter sends twice;
* Escape closes the form even when a picker is open: the shortcut listens in the
  capture phase, before the picker's handler (`AccountPicker.tsx:84`);
* an account that becomes its own ancestor vanishes from the tree;
* overpaid debts and negative income are shown as their opposite on the dashboard.

The properties in short. `NothingLost` is the reason for staging before the cursor:
an id the bank reported behind the furthest cursor that was persisted, and took back
neither on a later page nor on a page that a late sync applied again, is staged or
settled by an import. `DismissalDurable`: only an import ends a dismissal.
`TokenKept`: while Plaid's item lives, the token of the last Exchange is in the
row or in the audit table. `ArchivedUnreadable`: a token a configured key still opens is never
archived. `SingleAuthor`: the splits of a transaction are those of one request, and
a transaction has splits exactly while it exists.
`ReconcileAtomic`: no step shows a part of a batch.

## 4. Fairness and deadlock

`FairSpec` (PlaidSync) assumes weak fairness of the steps of every request that was
received (the Go runtime runs its goroutines; Plaid and PostgreSQL answer, or fail,
and faults are bounded), of `ReadItem` (the client syncs on visits of the register and
once a day) and of `Publish`. Nothing is assumed of the user's clicks: no
fairness on Dismiss, ReadStaged or EditBook. `CatchesUp` is `<>[]`, so it covers the
stale cursor writes of finding 1: the feed is read to its end although a cursor may go
back.

`Client` states no fairness and no liveness: what a page waits for is an answer
that may never come. A page or modal can be left at any time, so a deadlock
could only be at the login: there is none.

PlaidLink and Ledger stop when the bound on started requests is used up. Their
`Quiet` step stands for a server without requests; any other state without a
step would be requests that wait for each other for ever, which TLC reports as
a deadlock. Cycles between row locks occur (two lists in opposite orders) and
PostgreSQL ends one of the two (`DeadlockVictim`); the checks show there is no
other kind of cycle.

## 5. The theorems

Every theorem holds for all values of the constants that satisfy the named assumptions
of its module. The arguments, module by module.

**Synchronisation.** `PlaidSyncProofs` is about `Spec` of PlaidSync, from
`ConstantsAssumption` (the feed is a sequence of pages, the page cap is positive, zero is
an amount) and `SentinelAssumption` (the three "nothing" values are no ids, rows or
syncers).

* `TypeCorrect`: `[]TypeOK`. The type invariant is not inductive by itself: that a
  cursor stays within what was published depends on where the program counter
  is. `TypeInv` adds `SyncBounds` (behind the fetch there is a page after the
  local cursor, outside of staging there is room under the cap, an entry in hand
  is an entry) and `ImportHolds` (a running import has an id and a row).
* `LockProtects`: `[]SingleFetcher`. Everybody between lock and unlock, error path
  included, is the holder.
* `ImportsOnce`: `[]ImportedOnce`, for any number of imports, from the partial
  unique index alone; the dedupe check in front of it is not used.
* `DismissalsLast`: `[]DismissalDurable`. `SourceInv` says where things come from: every
  staged row, row in an import's hand and entry in a sync's hand was published, what is
  booked was once booked, and an import that cleans up has settled its id. So the two
  deletions of a tombstone (an import's cleanup, and a successor that takes the
  tombstone over from a settled predecessor) happen for settled ids only.
* `NoneLost`: `[]NothingLost`. `KeptInv` has two halves. `Behind(furthest)`: every page up
  to the furthest persisted cursor is secured, that is, what it reported and nothing took
  back is staged or settled. `Following`: what a sync owes in the middle of its work - its
  local cursor is secured behind it, the part of the page it has already applied is
  staged, and a page it has in hand is either new or recorded as replayed. The second
  half is what makes the cursor write safe although it is written from a copy.
* `OneSyncNeverReplays`: with a single syncer, `[](furthest = cursor /\ replayed = {})`
  and a cursor that never decreases, so that the exception in `NothingLost` is empty:
  racing syncs are the only cause of a replay.
* `OneTabNoDouble`: with one syncer and one importer `[](edits = 0 =>
  NoDoubleMovementOneTab)`, for every feed with `PendingFirst`, `PendingNamed` (every report
  of a posted transaction names the pending one) and `PendingWithdrawn` (no report of it
  comes before the page that withdraws the pending one for good). `TabInv` says how far the
  rows have got: whatever is staged was reported at most a page cap behind the cursor and,
  when a sync serves suggestions, behind the cursor itself; a transaction withdrawn behind
  the cursor is not staged any more, unless as a tombstone. So once the posted one has been
  shown, the pending one can no longer be chosen, and an import that began before is over:
  `NoneTwice` keeps, for each step of an import, which of the two is still to be compared
  with which. Of the hypotheses, TLC refutes the property without `PendingNamed`, without
  `PendingWithdrawn` (`removed` a page later), and after one edit of an imported amount;
  `PendingFirst` ties a tombstone to the user's own dismissal. `MCPlaidSync` assumes all
  three of its feeds, so every run evaluates them.
* `SyncImplementsPromise`: `Spec => KeepsPromise`, under `PendingFirst` and
  (`ImportPending` or `StatusKept`). The initial states map to initial states; for each
  step of the code one lemma says which step of OfferPromise it is, or that it is a
  stutter. `KnownInv` carries what the mapping needs: a row that is dismissed belongs to
  an id that was, or whose predecessor was, dismissed. Both hypotheses are needed: without
  `PendingFirst` a dismissal travels over two successions while the promise speaks of
  one; without `StatusKept` an offer vanishes when its id turns pending on an item that
  does not import pending transactions.

**Connections.** `PlaidLinkProofs` is about `Spec` of PlaidLink, from
`LinkConstantsAssumption` and `LinkSentinelAssumption`, for any number of items, bank
accounts, ledger accounts, requests, restarts and keys.

* `LinkTypes`: `[]LinkTypeOK`.
* `OnlyUnreadableArchived`: `[]ArchivedUnreadable`. `HeldInv`: whatever row a request has
  read is the stored one, or older by its version (`ReadBefore`), since every statement
  that writes the row counts the version up. The guard of the DELETE therefore compares
  the very row the archive was made of.
* `NewestTokenKept`: `[]TokenKept`, with `TokenInv`: Plaid knows every item that has or had
  a row, and a Disconnect that archived nothing deletes a row only when Plaid has removed
  the item.
* `OneHolder`: `[]OneAccountPerBank`. `IndexInv` is about open transactions: no two have
  written one account row, and a bank account written into one row is named by no other
  row its transaction sees or anyone has written. This is what the unique index on the
  link together with the row locks gives; a commit publishes rows for which it holds.

**Ledger.** `LedgerProofs` is about `Spec` of Ledger, from `LedgerConstantsAssumption`
and `LedgerSentinelAssumption`.

* `OneAuthor`: `[]SingleAuthor`. The invariant `AuthorInv` says why it holds.
  `Numbered`: a running request's number is its own and on no row yet.
  `LocksApart`: two updates never hold one transaction. `Claims`: an update that has scanned
  (or deleted) a transaction's splits has all of them - the step that could break this is
  another writer's INSERT or a DELETE, and both need the row lock. `Owned`: a
  number is the author of one transaction. With these, the INSERTs of an update
  replace exactly what was there (`InsertKeepsAuthor`), and a delete takes
  everything (`DeleteKeepsAuthor`). Without the row lock of the UPDATE statement
  `Claims` is lost at once; the run's mutant `TxRowFree_unlocked` shows it.
* `NothingOrphaned`: `[]NoOrphan`, with the root account kept (`OrphanInv`).
* `EditsSerial`: `[]AccountEditsSerial`, from the version clause.
* `ReconcilesAtOnce`: `ReconcileAtomic`, an action property: a batch that has
  started changes splits in its commit only (`BatchWritesOnce`).
* `ZeroSum`: `[]Balanced`, every transaction in the books adds up to zero. `MoneyInv` has
  the values of splits and lines, one split per line, and what a program counter says of a
  draft: behind the auto-balance its lines add up to zero. The INSERT writes one split for
  each line (`SumFollows`: a sum follows its summands through a bijection), an update
  leaves none of the old ones (`AuthorInv`), and toggles and reconciliations do not touch
  values.
* `LedgerTypes`: `[]LedgerTypeOK`, from `Shapes` and `MoneyInv`.

The first four rest on `Shapes`: the types of the rows and requests without the values
of splits, and what a program counter says of the other fields.

**Sums.** The models add over sets of splits, rows and entries with MapThenSumSet, whose
definition chooses an order. An induction theorem with a predicate as its parameter
cannot be instantiated by the provers, so `SubsetInduction` takes the predicate as a set
and is proved by the least cardinality of a counterexample. From it: a sum of
integers is an integer, one element may be taken out or put in, sums follow a bijection,
add over disjoint sets, over opposites and differences, and class by class.

**The register page.** `RegisterViewProofs` is about `RegSpec`, from `RegAssumption`.

* `RegisterTypes`, `RowsDistinct`, `SearchOfAccount`: `[]RegTypeOK`, `[]RegRowsDistinct`,
  `[]RegSearchOfAccount`, for every page size, register, route and number of overlapping
  requests. The types alone are not inductive: that a fetch of the search brings this
  account's rows depends on the requests. `RegInv` adds what the requests are for
  (`Own`): a fetch of the search that is out is of the account shown, since
  `SearchEffect` cancels the older ones; an answer that is there has the types and, for
  a search, the rows of its account (`Meant`). That no row is shown twice needs nothing
  of the books: each answer adds only rows that are not there (`NewRows`).
* `MarksTrue`: `[]RegMarksTrue`. While `calm`, a write is never out together with another
  request (`AloneAt`), so every answer that is waiting has the marks of the books, and a
  toggle that ran carries the mark it set (`MarksInv`).
* `WindowGapless`: `[]RegWindow`, provided `PageSize > 1`. A query may give a row any number
  from the count of rows that must come before it (`Low`) to the count of those that
  may (`High`): the two differ where rows tie. `StretchPlaces` says where the first and the
  last row of a page stand, whichever order of the ties it was cut from.
  `PlaceInv` says of the window, and of each page that waits, that it misses no untied row
  between two of its own (`Gapless`), that some row of it may have the number of each of its
  offsets (`HasRank`), and that it reaches the end of the register on a side where it claims
  no more rows (`Placed`). A page asked for at an offset has, together with the row at that
  offset, no gap (`Joins`), and so has its union with the window (`WindowJoined`). `SavesInv`
  adds that a save that is out while calm was sent from the account shown, which is the one
  its answer reloads. With a page size
  of 1 the first page begins at the anchor and can be empty in a register that has rows,
  so the property is false in the model; the code's page size is 50
  (`AccountRegister.tsx:16`).

**Other pages.** `PageProofs` is about the session, from `SesAssumption`, the accounts page,
from `AccAssumption`, the data page, from `DatAssumption`, and the overview pages, from
`OverviewAssumption`.

* `SessionTypes`, `PagesOfOwner`: `[]SesTypeOK`, `[]SesShowsOwner`, for any number of users
  and sessions. `SesShape` adds which sessions have an owner and that the cookie is
  one of them.
* `EditBased`: `AccEditBased`, for every first tree and any number of operations. The
  invariant `AccInv` is about copies: whatever row of an account the page, a list under way,
  the form or a save holds, the server's row is that very row, or has a later
  version, or is gone (`Copy`); every write of the books keeps this
  (`CopiesLater`). A save that finds the version it was sent thus finds the form's
  row (`MatchIsCopy`). It rests on a version never being used again: an account
  that is created gets an id of its own, which is why `RunCreate` takes one that
  never was in the books.
* `TreeAlwaysWhole`: `[]AccTreeWhole`, for trees of every shape and depth over finitely many
  ids (`AccAssumption`). The subtree, the ancestors and the sums of the page are functions
  of a level. A predicate cannot be handed to an induction theorem here, a set can: what
  holds at level 0 and passes on holds at every level, since the least level where it does
  not hold does not exist (`LevelInduction` in `Sums`). A set that grows from level to level
  and has no more members than there are levels stops growing (`ReachesClosed`), so
  `Under(a)` is the least set with `a` that is closed under children and `Ancestors(a)`
  the least one closed under parents, and each is the other turned round (`UnderIsBelow`).
  Of two ancestors of one account one is above the other (`InLine`), and who has no
  parent among its ancestors is on no circle (`NoCircle`); so the trees of two siblings
  share no account (`SiblingsApart`). The balance shown is then the sum over the tree, by the
  number of accounts in it: a smaller tree under every child (`TreeSums`). That
  the roots miss nothing needs the one invariant, `TreeInv`: in the books and in every list
  sent, shown or under way, a parent is listed too (`ParentsListed`). An account with children
  is not deleted, a parent that is not there is not taken, and the page has no button to
  delete the root account that `MovedElsewhere` moves accounts under. What becomes a root
  in `buildTree` for want of its parent thus has none.
* Banks (`BankInv`), for any set of banks: while calm at most one list request is out
  (`OneList`), and unless a handler that will ask for the list is still under way
  (`ListDue`), the list shown, or the one on its way, is the server's (`Brought`).
* Transactions (`TxnInv`): while calm a load is alone and has what the server may answer from
  the books as they are, with the dates they have.
* Snapshots (`SnapInv`): while calm and loaded, a snapshot is on the server exactly if it is
  listed, or was just taken, and no delete of it ran (`SnapFollows`); of two that are on
  the server, the first is the one just taken or is listed before the other. When nothing
  is asked both lists have the same members, each once, in the same order, hence are
  equal (`SameList`). `PushedKeeps` and `DroppedKeeps` say what putting a row in front and
  dropping one do to members and order, in whatever order the answers come.
* Dashboard (`DashInv`): the balances it holds are those of its book in the range they
  were asked for. Over all time every entry is counted once for the account it comes from
  and once for the one it goes to, so all balances add up to zero (`AllAddUp`: both sums,
  taken account by account, are the sum over all entries). Every type falls into one of the
  dashboard's four figures or into none (`TypesApart`), which gives the net worth; the
  set of types is not restricted.

**Modals.** `ModalProofs` is about the matcher, from `MatAssumption`, the wizard, from
`RecAssumption`, and the entry form with its picker, from `FrmAssumption`.

* `MatcherTypes`, `ImportedBooked`: `[]MatTypeOK`, `[]MatImportedBooked`, for every set of
  accounts, banks and transactions. `MatInv` adds what an import under way has
  done (`ImportSound`): a row it was sent is still to do, has failed, or is booked,
  unless the import broke off. So an answer that is `Complete` speaks of booked
  rows only, whether the matcher that sent them is still there or not.
* `WizardTypes`, `StatementHolds`: `[]RecTypeOK`, `[]RecStatementHolds`. `RecInv` follows the
  numbers: while calm, what was answered is what the server has; the starting balance is
  the sum of the reconciled splits of the accounts that have been read; the rows are the
  open splits with their amounts; a batch that is out has the ticked rows and, before it
  runs, none of them is reconciled. Finishing needs the ticked amounts to make up the
  difference, and the reconciled sum after the batch is the sum over the two disjoint
  sets.
* Form (`FrmInv`): of two rows of which the user typed in at most one (`hand`), the other
  is exactly the opposite of the number it begins with, or blank (`Mirrors`). Until the
  form is sent, books and known balances agree (`Unsent`); then the balance shown under a row
  is the server's less the entry's own splits plus the rows sent, and it is the server's once
  the save ran, less `OfImbalance` (`Sent`); an edit is accepted only if its rows add up to
  zero. Rows of one account are added up by a sum over their positions.
* Picker (`PickInv`): the highlight stays on what is listed.

**The client.** `ClientProofs` carries all of these over to `ClientSpec`. Between two states
of the client a view takes a step of its own module, stays as it is, or is at one of its
starts (`ViewMoves`); an invariant that the starts have and the steps keep holds throughout.
The theorems are `ClientRegister`, `ClientMarks`, `ClientWindow`, `ClientSessions`,
`ClientImports`, `ClientEdits`, `ClientStatements`, `ClientDataTypes`, `ClientBanks`,
`ClientTransactions`, `ClientSnapshots`, `ClientFormTypes`, `ClientMirrors`,
`ClientTree`, `ClientProjects` and `ClientNetWorth`: every property of the `Client` run.

Only model-checked: liveness (`LockReleased`, `CatchesUp`), since ENABLED and fairness are
out of the prover's reach. Every invariant and every action property of a passing run is
stated by a theorem.

## 6. Disagreements between code and documentation

1. `CursorNeverRegresses` (`service.go:362`). Sync reads the cursor before it tries the
   lock and fetches from that copy. The comment at 379-383 gives the lock as what prevents a
   regressed cursor. `CatchesUp` holds nevertheless. What a regressed cursor costs is the
   exception in `NothingLost`: pages are applied again, and if such a page takes back an
   id that a later, already applied page reported anew, the row is gone until that later
   page is applied once more; should the sync fail before, it is missing until the next
   one. This depends on the bank repeating its pages as they were, as the model of the
   feed does. With one sync at a time nothing is ever replayed (`OneSyncNeverReplays`).
2. `NoDoubleMovement` (`service.go:928`). Imports of the pending and of the posted
   transaction may pass each other's check; the comment at 923-925 calls the check reliable.
   With one tab it is (`NoDoubleMovementOneTab`).
3. `SuccessorInherits` (`service.go:687`). A dismissal between the read of the flag
   and the upsert is not inherited, against 695-697 and the design document.
4. `NoDanglingLink` (`service.go:235`). A Disconnect between LinkAccounts' read of
   the item and its commit leaves links to a deleted item, against 1009-1010.
5. `NoLostUpdate` (`transaction_service.go:301`). The version of a transaction is
   incremented but never compared, against `README.md:47` and
   `docs/designing-gnuCash-web-architecture.md:172`. For accounts the clause is there
   (`AccountEditsSerial`).

## 7. What is abstracted and what is not modelled

* A statement is a step, a commit publishes at once. The INSERTs that end a
  transaction are one step with its commit, since no other request sees them
  before and their locks conflict with nothing but what the step checks.
* Values are integers over one denominator in Ledger and small numbers in PlaidSync.
  `gnc.Numeric` is planned as a module of its own.
* Steps that stand for several statements. `CheckAccounts` is one SELECT per split in the
  code, `CountUses` two COUNTs whose scan errors are ignored there, `ReconcileAccountS`
  the snapshot of its UPDATE and the wait for the rows. `LoadToken` leaves out that a re-seal
  may fail, which the code only logs (the row stays as it was), and `TouchItem` is the
  version bump without `last_synced_at`. `CreateAccount` always names a parent, although the
  column may be NULL. In DataPage the exchange of a token is run and answered in one step,
  and no item is exchanged twice. No property depends on any of these.
* An import deletes whatever row is staged when it cleans up, also one a sync has
  corrected since (`service.go:994`). Both are steps of PlaidSync, but no property
  forbids it: `KeepsPromise` asks that an import books an amount the bank reported, not the last
  one. In Ledger a reconciliation skips splits that an update has replaced
  (`transaction_service.go:943`) and no property forbids that either: `ReconcileAtomic` is
  about splits that are there. Both are in the plan.
* Forms are loaded in one step; the code reads a transaction and its splits in
  two statements (a hazard without a property yet).
* ReconcileAccountSplits is modelled for one account at a time; the code accepts a
  list, which is one statement as well. A batch names two splits.
* The reconcile state an import sets ("c"), and account metadata written by
  PlaidService, are in PlaidSync and PlaidLink only.
* The advisory unlock succeeds while the server lives. A failed unlock leaves the
  session lock on a pooled connection; the code only logs it.
* Dates, descriptions, memos, commodities and currencies are left out: no
  property is about them. Encryption is a seal that opens or does not.
* In the client: amounts are cents and the tolerance of half a cent is equality;
  running balances, transfer names, dates as text, memos, wording and layout are left out;
  a tab is alone in the browser, while what other tabs and devices do to the books is
  an action (`ChangedElsewhere`, `RecEdit`, `MovedElsewhere`). A read is one step,
  although the paged register counts, sums and lists in three statements (a hazard
  without a property). Bounds that cut behaviours (a second batch or import of a
  wizard or matcher that was closed waits for the first) are named where they are.
* An open matcher survives in ImportMatcher when the register page goes to another
  account. In the code the page's spinner (`AccountRegister.tsx:79, 259-261`) unmounts it
  and mounts it anew, its rows, categories and `importing` reset, and does so on each
  `handleDataChanged` too. No property depends on it: `MatImportedBooked` is about what an answer
  reports, whichever mount it comes to.
* Not modelled in the client: charts, the schedule form of the snapshots page, the folding of
  rows, the scroll position, `i18n.ts`, `utils/date.ts`, sidebar and breadcrumbs: they show
  or send what they hold and wait for nothing.
* Not modelled on the server: the rows of section 1 on arithmetic, snapshots, import and
  reset, registration, rate limits, categoriser, seed, database and HTTP, with the
  reasons in `PROJECT.json`. Pure conversion (CSV, GnuCash XML, JSON), routing and
  infrastructure have no state of their own to get wrong. To the server's
  modules the client is the freedom of the environment: any request at any time,
  from a form of any age.

## 8. Plan

1. PlaidSync, OfferPromise, PlaidSyncPromise, PlaidSyncProofs - done; next `CorrectionKept`
   (a corrected row is not cleaned up unread, `service.go:994`).
2. PlaidLink, PlaidLinkProofs - done; next `NoSilentRelink` (two LinkAccounts of different bank accounts on one ledger
   account, `service.go:294`).
3. Ledger, LedgerProofs - writes done; next `PlaceholderEmpty`
   (`docs/designing-gnuCash-web-architecture.md:75`) and `FormConsistent`
   (`README.md:45` against the two statements of GetTransaction) and `ReconciledAsNamed` (a
   batch that succeeds has reconciled every split it named, `transaction_service.go:943`).
4. Snapshots, with the scheduler: `QuotaKept`, `RotationKeepsNewest`,
   `SnapshotRestorable`, `EveryDueBookIsSnapshot` (liveness).
5. BookImport: import, factory reset, registration and seed, with crashes: a
   user always has a usable book.
6. GncNumeric: int64 arithmetic on a small width against exact fractions.
7. The client - done: RegisterView, ClientSession, Reconcile, ImportMatcher, DataPage,
   EntryForm, AccountsPage, OverviewPages, Client and their proofs. Next: two tabs with
   one cookie, the register read in three statements, the schedule form with Snapshots.
8. Limits.

Theorems to come: snapshot quotas, and the algebra of fractions where no fold is needed.
