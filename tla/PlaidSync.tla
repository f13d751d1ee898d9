----------------------------- MODULE PlaidSync -----------------------------
(***************************************************************************)
(* Synchronisation of one Plaid item with one book: Sync, fetchAndStage,   *)
(* stageDelta, DismissStaged and Import of PlaidService                    *)
(* (backend/internal/plaid/service.go), run by any number of concurrent    *)
(* HTTP requests against one PostgreSQL database.                          *)
(*                                                                         *)
(* Every statement of this code runs on the pool by itself (READ           *)
(* COMMITTED), so one statement is one step.  Two consecutive reads that   *)
(* are only combined with each other are one step.  A syncer is one        *)
(* in-flight Sync request, an importer one in-flight row of an Import      *)
(* request: Import carries nothing from one row to the next.               *)
(***************************************************************************)
EXTENDS Naturals, Sequences

CONSTANTS
    Txn,           \* Plaid transaction ids
    Amount,        \* transaction amounts, zero included
    Feed,          \* the pages of /transactions/sync, in cursor order
    Syncer,        \* concurrent Sync requests
    Importer,      \* concurrent Import rows
    MaxSyncPages,  \* pages one Sync may fetch
    ImportPending, \* the item's import_pending setting
    NoTxn, NoRow, NoSyncer,
    MaxFaults,     \* bound on failed statements, failed fetches and crashes
    MaxBookEdits   \* bound on the user's own edits of imported transactions

(* An entry of a page's Added or Modified list, and a page.  The order of  *)
(* a page's entries is the bank's, hence any order.                        *)
Entry == [id : Txn, amt : Amount, pend : Txn \cup {NoTxn}, pending : BOOLEAN]
Page == [updated : SUBSET Entry, removed : SUBSET Txn]

(* A row of plaid_staged_transactions. *)
Row == [amt : Amount, pend : Txn \cup {NoTxn}, pending : BOOLEAN,
        dismissed : BOOLEAN]

ASSUME ConstantsAssumption ==
    /\ 0 \in Amount
    /\ Feed \in Seq(Page)
    /\ MaxSyncPages \in Nat \ {0}
    /\ ImportPending \in BOOLEAN
    /\ MaxFaults \in Nat
    /\ MaxBookEdits \in Nat

ASSUME SentinelAssumption ==
    /\ NoTxn \notin Txn
    /\ NoRow \notin Row
    /\ NoSyncer \notin Syncer

VARIABLES
    published,     \* pages the bank has published so far
    cursor,        \* plaid_items.sync_cursor: pages behind the cursor
    staged,        \* plaid_staged_transactions, by transaction_id
    book,          \* amounts of the ledger transactions carrying each plaid id
    lock,          \* holder of the per-item advisory lock
    sync,          \* the state of each Sync request
    imp,           \* the state of each Import row
    shown,         \* ids some response has shown to the user
    everBooked,    \* history: ids imported at some time
    everDismissed, \* history: ids the user dismissed at some time
    furthest,      \* history: the furthest cursor that was ever persisted
    replayed,      \* history: pages fetched again from behind that cursor
    faults, edits  \* counters for the bounds

hist     == <<everBooked, everDismissed>>
progress == <<cursor, furthest, replayed>>
bounds   == <<faults, edits>>
vars     == <<published, progress, staged, book, lock, sync, imp, shown, hist, bounds>>

(* Between a failed fetchAndStage and its deferred unlock a Sync is in     *)
(* "fail".  In "unlock" the cursor is persisted and the write of the       *)
(* accounts' last_synced_at, which may fail too, is still to come.         *)
Fetching == {"fetch", "stage", "drop", "inherit", "upsert", "persist", "unlock"}
Holding  == Fetching \cup {"fail"}

NoEntry == [id |-> NoTxn, amt |-> 0, pend |-> NoTxn, pending |-> FALSE]

(* A Sync: its own copy of the cursor, the pages it fetched, has_more of   *)
(* the last one, what is left of it, the entry in hand and the dismissed   *)
(* flag read for that entry.                                               *)
SyncState ==
    [pc : Holding \cup {"idle", "lock", "suggest"}, cur : Nat,
     pages : 0..MaxSyncPages, more : BOOLEAN, todo : SUBSET Entry,
     ent : Entry \cup {NoEntry}, inherit : BOOLEAN]

Emptied(l) == [pc |-> l, cur |-> 0, pages |-> 0, more |-> FALSE, todo |-> {},
               ent |-> NoEntry, inherit |-> FALSE]
NoSync == Emptied("idle")

(* An Import row: the id asked for and the staged row read for it. *)
ImportState ==
    [pc : {"idle", "dedupe", "pending", "create", "cleanup"},
     id : Txn \cup {NoTxn}, row : Row \cup {NoRow}]

NoImport == [pc |-> "idle", id |-> NoTxn, row |-> NoRow]

TypeOK ==
    /\ published \in 0..Len(Feed)
    /\ cursor \in 0..published
    /\ staged \in [Txn -> Row \cup {NoRow}]
    /\ book \in [Txn -> Seq(Amount)]
    /\ lock \in Syncer \cup {NoSyncer}
    /\ sync \in [Syncer -> SyncState]
    /\ imp \in [Importer -> ImportState]
    /\ shown \subseteq Txn
    /\ everBooked \subseteq Txn
    /\ everDismissed \subseteq Txn
    /\ furthest \in cursor..published
    /\ replayed \subseteq 1..published
    /\ faults \in 0..MaxFaults
    /\ edits \in 0..MaxBookEdits

Init ==
    /\ published = 0
    /\ cursor = 0
    /\ staged = [id \in Txn |-> NoRow]
    /\ book = [id \in Txn |-> <<>>]
    /\ lock = NoSyncer
    /\ sync = [s \in Syncer |-> NoSync]
    /\ imp = [i \in Importer |-> NoImport]
    /\ shown = {}
    /\ everBooked = {}
    /\ everDismissed = {}
    /\ furthest = 0
    /\ replayed = {}
    /\ faults = 0
    /\ edits = 0
-----------------------------------------------------------------------------
(* What the statements compute. *)

(* transactionExists *)
Imported(id) == book[id] # <<>>

(* importedValueMatches: the bank split of the imported transaction still  *)
(* carries this amount.                                                    *)
ValueMatches(id, a) == \E k \in DOMAIN book[id] : book[id][k] = a

Dismissed(id) == staged[id] # NoRow /\ staged[id].dismissed

(* DELETE ... WHERE transaction_id = ANY(ids), and with AND NOT dismissed *)
Without(ids) == [id \in Txn |-> IF id \in ids THEN NoRow ELSE staged[id]]

WithoutUndismissed_any(ids) == Without(ids)
WithoutUndismissed(ids) == Without({id \in ids \cap Txn : ~Dismissed(id)})

(* INSERT ... ON CONFLICT DO UPDATE: a bank update never undoes a          *)
(* dismissal.                                                              *)
Upserted(e, d) ==
    [staged EXCEPT ![e.id] = [amt |-> e.amt, pend |-> e.pend,
                              pending |-> e.pending,
                              dismissed |-> Dismissed(e.id) \/ d]]

(* The suggestions query. *)
Visible_noDedupe(id) ==
    /\ staged[id] # NoRow
    /\ ~staged[id].dismissed
    /\ ImportPending \/ ~staged[id].pending

Visible(id) ==
    /\ staged[id] # NoRow
    /\ ~staged[id].dismissed
    /\ ImportPending \/ ~staged[id].pending
    /\ ~Imported(id)
    /\ staged[id].pend # NoTxn => ~ValueMatches(staged[id].pend, staged[id].amt)

(* The try-lock's answer, the page cap, the cursor a Sync persists, where   *)
(* an error leads and the partial unique index, each with the mutants that *)
(* show the properties depend on it (named ..._).                          *)
LockFree_ignored == TRUE
LockFree == lock = NoSyncer

UnderCap_offByOne(s) == sync[s].pages <= MaxSyncPages
UnderCap(s) == sync[s].pages < MaxSyncPages

NextCursor_atEndOnly(s) == IF sync[s].more THEN cursor ELSE sync[s].cur
NextCursor(s) == sync[s].cur

AfterFault_logged(s) == IF sync[s].pc = "stage" THEN [sync[s] EXCEPT !.todo = {}]
                        ELSE [sync[s] EXCEPT !.pc = "fail"]
AfterFault_notDeferred(s) == NoSync
AfterFault(s) == IF sync[s].pc \in Fetching THEN [sync[s] EXCEPT !.pc = "fail"]
                 ELSE NoSync

IndexAllows_dropped(id) == TRUE
IndexAllows(id) == ~Imported(id)
-----------------------------------------------------------------------------
(* External: the bank publishes the next page of changes. *)
Publish ==
    /\ published < Len(Feed)
    /\ published' = published + 1
    /\ UNCHANGED <<progress, staged, book, lock, sync, imp, shown, hist, bounds>>

(* What the steps of a Sync leave alone. *)
SyncFrame == UNCHANGED <<published, book, imp, shown, hist, edits>>

(* Sync reads the item row, its cursor included, before it tries the lock. *)
ReadItem(s) ==
    /\ sync[s].pc = "idle"
    /\ sync' = [sync EXCEPT ![s].pc = "lock", ![s].cur = cursor]
    /\ UNCHANGED <<progress, staged, lock, faults>> /\ SyncFrame

(* pg_try_advisory_lock succeeds: fetchAndStage starts from the copy of    *)
(* the cursor that was read before.                                        *)
TryLock(s) ==
    /\ sync[s].pc = "lock"
    /\ LockFree
    /\ lock' = s
    /\ sync' = [sync EXCEPT ![s].pc = "fetch"]
    /\ UNCHANGED <<progress, staged, faults>> /\ SyncFrame

(* It fails: the request serves what is staged (in_progress). *)
SkipFetch(s) ==
    /\ sync[s].pc = "lock"
    /\ lock # NoSyncer
    /\ sync' = [sync EXCEPT ![s].pc = "suggest"]
    /\ UNCHANGED <<progress, staged, lock, faults>> /\ SyncFrame

(* One /transactions/sync call with changes behind the cursor, *)
FetchPage(s) ==
    /\ sync[s].pc = "fetch"
    /\ sync[s].cur < published
    /\ sync' = [sync EXCEPT ![s].pc = "stage",
                            ![s].todo = Feed[sync[s].cur + 1].updated,
                            ![s].more = sync[s].cur + 1 < published,
                            ![s].pages = @ + 1]
    /\ replayed' = IF sync[s].cur < furthest THEN replayed \cup {sync[s].cur + 1}
                   ELSE replayed
    /\ UNCHANGED <<cursor, furthest, staged, lock, faults>> /\ SyncFrame

(* and with nothing new: an empty delta, the same cursor. *)
FetchNothing(s) ==
    /\ sync[s].pc = "fetch"
    /\ sync[s].cur = published
    /\ sync' = [sync EXCEPT ![s].pc = "persist"]
    /\ UNCHANGED <<progress, staged, lock, faults>> /\ SyncFrame

(* First pass of stageDelta, an entry without a pending predecessor. *)
StageFresh(s) ==
    /\ sync[s].pc = "stage"
    /\ \E e \in sync[s].todo :
          /\ e.amt # 0
          /\ e.pend = NoTxn
          /\ staged' = Upserted(e, FALSE)
          /\ sync' = [sync EXCEPT ![s].todo = @ \ {e}]
    /\ UNCHANGED <<progress, lock, faults>> /\ SyncFrame

(* An entry that replaces a pending one: was the pending one imported with *)
(* this value?                                                             *)
CheckPredecessor(s) ==
    /\ sync[s].pc = "stage"
    /\ \E e \in sync[s].todo :
          /\ e.amt # 0
          /\ e.pend # NoTxn
          /\ sync' = [sync EXCEPT ![s].ent = e,
                                  ![s].pc = IF ValueMatches(e.pend, e.amt)
                                            THEN "drop" ELSE "inherit"]
    /\ UNCHANGED <<progress, staged, lock, faults>> /\ SyncFrame

(* The entry in hand is done. *)
Treated(s) ==
    [sync EXCEPT ![s].pc = "stage", ![s].todo = @ \ {sync[s].ent},
                 ![s].ent = NoEntry, ![s].inherit = FALSE]

(* It was: both staged copies go, dismissed or not. *)
DropReplaced(s) ==
    /\ sync[s].pc = "drop"
    /\ staged' = Without({sync[s].ent.id, sync[s].ent.pend})
    /\ sync' = Treated(s)
    /\ UNCHANGED <<progress, lock, faults>> /\ SyncFrame

(* It was not: read whether the user dismissed the pending one, *)
ReadDismissed(s) ==
    /\ sync[s].pc = "inherit"
    /\ sync' = [sync EXCEPT ![s].pc = "upsert",
                            ![s].inherit = Dismissed(sync[s].ent.pend)]
    /\ UNCHANGED <<progress, staged, lock, faults>> /\ SyncFrame

(* and upsert the posted one with what was read. *)
StageSuccessor(s) ==
    /\ sync[s].pc = "upsert"
    /\ staged' = Upserted(sync[s].ent, sync[s].inherit)
    /\ sync' = Treated(s)
    /\ UNCHANGED <<progress, lock, faults>> /\ SyncFrame

(* Second pass: a zero amount drops what is staged for it and for its      *)
(* predecessor.                                                            *)
DropZeroed(s) ==
    /\ sync[s].pc = "stage"
    /\ \A e \in sync[s].todo : e.amt = 0
    /\ \E e \in sync[s].todo :
          /\ staged' = WithoutUndismissed({e.id, e.pend})
          /\ sync' = [sync EXCEPT ![s].todo = @ \ {e}]
    /\ UNCHANGED <<progress, lock, faults>> /\ SyncFrame

(* Last, the removed ids; then the next page, or the cursor. *)
ApplyRemoved(s) ==
    /\ sync[s].pc = "stage"
    /\ sync[s].todo = {}
    /\ staged' = WithoutUndismissed(Feed[sync[s].cur + 1].removed)
    /\ sync' = [sync EXCEPT ![s].cur = @ + 1,
                            ![s].pc = IF sync[s].more /\ UnderCap(s)
                                      THEN "fetch" ELSE "persist"]
    /\ UNCHANGED <<progress, lock, faults>> /\ SyncFrame

(* UPDATE plaid_items SET sync_cursor, whatever it holds by now. *)
PersistCursor(s) ==
    /\ sync[s].pc = "persist"
    /\ cursor' = NextCursor(s)
    /\ furthest' = IF cursor' > furthest THEN cursor' ELSE furthest
    /\ sync' = [sync EXCEPT ![s].pc = "unlock"]
    /\ UNCHANGED <<replayed, staged, lock, faults>> /\ SyncFrame

(* The deferred unlock, on success and on error. *)
Unlock(s) ==
    /\ sync[s].pc \in {"unlock", "fail"}
    /\ lock' = NoSyncer
    /\ sync' = [sync EXCEPT ![s] = Emptied(IF sync[s].pc = "unlock"
                                           THEN "suggest" ELSE "idle")]
    /\ UNCHANGED <<progress, staged, faults>> /\ SyncFrame

(* The suggestions query and the response. *)
ServeSuggestions(s) ==
    /\ sync[s].pc = "suggest"
    /\ shown' = shown \cup {id \in Txn : Visible(id)}
    /\ sync' = [sync EXCEPT ![s] = NoSync]
    /\ UNCHANGED <<published, progress, staged, book, lock, imp, hist, bounds>>

(* A fetch or a statement fails: the error is returned, through the        *)
(* deferred unlock when the lock is held.                                  *)
SyncFault(s) ==
    /\ sync[s].pc \in Fetching \cup {"lock", "suggest"}
    /\ faults < MaxFaults
    /\ faults' = faults + 1
    /\ sync' = [sync EXCEPT ![s] = AfterFault(s)]
    /\ UNCHANGED <<progress, staged, lock>> /\ SyncFrame

(***************************************************************************)
(* Import of one row, DismissStaged, and the user's edits of the book      *)
(***************************************************************************)

(* What the steps of an Import leave alone. *)
ImportFrame == UNCHANGED <<published, progress, lock, sync, shown, everDismissed,
                           edits>>

(* Read the staged row of an id some response has shown.  With no row the  *)
(* import ends without a change.                                           *)
ReadStaged(i) ==
    /\ imp[i].pc = "idle"
    /\ \E id \in shown :
          /\ staged[id] # NoRow
          /\ imp' = [imp EXCEPT ![i] = [pc |-> "dedupe", id |-> id,
                                       row |-> staged[id]]]
    /\ UNCHANGED <<staged, book, everBooked, faults>> /\ ImportFrame

(* Already imported: benign. *)
SkipImported(i) ==
    /\ imp[i].pc = "dedupe"
    /\ Imported(imp[i].id)
    /\ imp' = [imp EXCEPT ![i] = NoImport]
    /\ UNCHANGED <<staged, book, everBooked, faults>> /\ ImportFrame

PassDedupe(i) ==
    /\ imp[i].pc = "dedupe"
    /\ ~Imported(imp[i].id)
    /\ imp' = [imp EXCEPT ![i].pc = IF imp[i].row.pend = NoTxn
                                   THEN "create" ELSE "pending"]
    /\ UNCHANGED <<staged, book, everBooked, faults>> /\ ImportFrame

(* Was the pending predecessor imported with the same value?  Then the     *)
(* row is only cleaned up.                                                 *)
PendingCovers_never(r) == FALSE
PendingCovers(r) == ValueMatches(r.pend, r.amt)

CheckPending(i) ==
    /\ imp[i].pc = "pending"
    /\ imp' = [imp EXCEPT ![i].pc = IF PendingCovers(imp[i].row)
                                   THEN "cleanup" ELSE "create"]
    /\ UNCHANGED <<staged, book, everBooked, faults>> /\ ImportFrame

(* CreateTransaction commits; the partial unique index on the plaid        *)
(* transaction id lets it.                                                 *)
CreateTransaction(i) ==
    /\ imp[i].pc = "create"
    /\ IndexAllows(imp[i].id)
    /\ book' = [book EXCEPT ![imp[i].id] = Append(@, imp[i].row.amt)]
    /\ everBooked' = everBooked \cup {imp[i].id}
    /\ imp' = [imp EXCEPT ![i].pc = "cleanup"]
    /\ UNCHANGED <<staged, faults>> /\ ImportFrame

(* It does not: a concurrent import was first. *)
DuplicateViolation(i) ==
    /\ imp[i].pc = "create"
    /\ ~IndexAllows(imp[i].id)
    /\ imp' = [imp EXCEPT ![i].pc = "cleanup"]
    /\ UNCHANGED <<staged, book, everBooked, faults>> /\ ImportFrame

(* Any other failure of the row: the bank account is no longer linked, the *)
(* category is refused, a statement fails.                                 *)
FailRow(i) ==
    /\ imp[i].pc \in {"dedupe", "pending", "create"}
    /\ imp' = [imp EXCEPT ![i] = NoImport]
    /\ UNCHANGED <<staged, book, everBooked, faults>> /\ ImportFrame

(* deleteStaged, and its failure, which is ignored. *)
DeleteStaged(i) ==
    /\ imp[i].pc = "cleanup"
    /\ staged' = Without({imp[i].id})
    /\ imp' = [imp EXCEPT ![i] = NoImport]
    /\ UNCHANGED <<book, everBooked, faults>> /\ ImportFrame

DeleteStagedFails(i) ==
    /\ imp[i].pc = "cleanup"
    /\ faults < MaxFaults
    /\ faults' = faults + 1
    /\ imp' = [imp EXCEPT ![i] = NoImport]
    /\ UNCHANGED <<staged, book, everBooked>> /\ ImportFrame

(* DismissStaged: one UPDATE.  Ids without a row are passed over. *)
Dismiss(id) ==
    /\ id \in shown
    /\ staged[id] # NoRow
    /\ staged' = [staged EXCEPT ![id].dismissed = TRUE]
    /\ everDismissed' = everDismissed \cup {id}
    /\ UNCHANGED <<published, progress, book, lock, sync, imp, shown, everBooked,
                   bounds>>

(* External: the user deletes an imported transaction, or edits its        *)
(* amount, through the transaction editor.                                 *)
EditBook(id, amounts) ==
    /\ Imported(id)
    /\ edits < MaxBookEdits
    /\ edits' = edits + 1
    /\ book' = [book EXCEPT ![id] = amounts]
    /\ UNCHANGED <<published, progress, staged, lock, sync, imp, shown, hist, faults>>

(* The server dies: its requests are gone, and with their sessions the     *)
(* advisory lock.  The database and what the client has seen stay.         *)
Crash ==
    /\ faults < MaxFaults
    /\ faults' = faults + 1
    /\ lock' = NoSyncer
    /\ sync' = [s \in Syncer |-> NoSync]
    /\ imp' = [i \in Importer |-> NoImport]
    /\ UNCHANGED <<published, progress, staged, book, shown, hist, edits>>

(* The steps of a request that has been received. *)
SyncStep(s) ==
    \/ TryLock(s) \/ SkipFetch(s)
    \/ FetchPage(s) \/ FetchNothing(s)
    \/ StageFresh(s) \/ CheckPredecessor(s) \/ DropReplaced(s)
    \/ ReadDismissed(s) \/ StageSuccessor(s) \/ DropZeroed(s) \/ ApplyRemoved(s)
    \/ PersistCursor(s) \/ Unlock(s) \/ ServeSuggestions(s)

ImportStep(i) ==
    \/ SkipImported(i) \/ PassDedupe(i) \/ CheckPending(i)
    \/ CreateTransaction(i) \/ DuplicateViolation(i) \/ FailRow(i)
    \/ DeleteStaged(i) \/ DeleteStagedFails(i)

UserStep(id) ==
    \/ Dismiss(id)
    \/ EditBook(id, <<>>)
    \/ \E a \in Amount \ {0} : EditBook(id, <<a>>)

Next ==
    \/ Publish
    \/ \E s \in Syncer : ReadItem(s) \/ SyncStep(s) \/ SyncFault(s)
    \/ \E i \in Importer : ReadStaged(i) \/ ImportStep(i)
    \/ \E id \in Txn : UserStep(id)
    \/ Crash

Spec == Init /\ [][Next]_vars

(* The server runs the requests it has received, and the client keeps      *)
(* asking: it syncs on visits of the register and daily.  Nothing is       *)
(* assumed of the user's clicks.                                           *)
Fairness ==
    /\ \A s \in Syncer : WF_vars(SyncStep(s)) /\ WF_vars(ReadItem(s))
    /\ \A i \in Importer : WF_vars(ImportStep(i))
    /\ WF_vars(Publish)

FairSpec == Spec /\ Fairness
-----------------------------------------------------------------------------
(* Everything the bank will ever report. *)
Entries == UNION {Feed[k].updated : k \in 1..Len(Feed)}

(* What the bank has told about an id in a page. *)
Reported(k, id) == \E e \in Feed[k].updated : e.id = id /\ e.amt # 0
Retracted(k, id) ==
    \/ id \in Feed[k].removed
    \/ \E e \in Feed[k].updated : e.amt = 0 /\ id \in {e.id, e.pend}

(* The entries the bank has published, and the ids it has named in them as *)
(* the pending predecessor of an id.                                       *)
Published == UNION {Feed[k].updated : k \in 1..published}
Predecessors(id) == {e.pend : e \in {f \in Published : f.id = id}} \ {NoTxn}

(* The ids the book owes the user: reported behind the persisted cursor    *)
(* (Plaid will not send them again) and not taken back since, neither by a *)
(* later page nor by one that a late Sync applied again.                   *)
Standing(k, id) ==
    Reported(k, id) /\ \A j \in (k..published) \cup replayed : ~Retracted(j, id)

Owed == {id \in Txn : \E k \in 1..cursor : Standing(k, id)}

SettledByImport(id) == ({id} \cup Predecessors(id)) \cap everBooked # {}

(* No bank transaction is lost: what lies behind the persisted cursor is   *)
(* still staged, or it or the pending transaction it replaces was          *)
(* imported -- whatever failed, crashed or ran at the same time            *)
(* (fetchAndStage's "staging each page durably BEFORE the cursor").        *)
Kept(id) == staged[id] # NoRow \/ SettledByImport(id)

NothingLost == \A id \in Owed : Kept(id)

(* The partial unique index is the idempotency guarantee of Import: two    *)
(* importers that both pass the dedupe check still leave one transaction   *)
(* per bank transaction, and one that names an id they were asked for.     *)
ImportedOnce == \A id \in Txn : Len(book[id]) <= 1

(* At most one Sync runs between the lock and the unlock of stageDelta's   *)
(* pages, and nobody else's lock is released by its unlock.                *)
SingleFetcher == \A s \in Syncer : sync[s].pc \in Holding => lock = s

(* A dismissal is kept as long as it can matter: neither a bank removal,   *)
(* a zeroed amount, an update nor another sync makes the tombstone go,     *)
(* only the import of the id or of the pending one it replaces.            *)
DismissalDurable ==
    \A id \in everDismissed : Dismissed(id) \/ SettledByImport(id)

(* A pending transaction and the posted one that replaces it are the same  *)
(* movement of money: they are not both imported with the same value.      *)
(* With one Sync and one Import at a time this holds for every pending     *)
(* transaction the user did not dismiss (Import does not look at the       *)
(* dismissed flag).                                                        *)
DoubleMovement(id, pre) ==
    \E k \in DOMAIN book[id] : ValueMatches(pre, book[id][k])

NoDoubleMovementOneTab ==
    \A id \in Txn : \A pre \in Predecessors(id) \ everDismissed :
        ~DoubleMovement(id, pre)

(* What it needs of the bank: a pending transaction replaces nothing, the  *)
(* posted one names it in every report, and no report of the posted one    *)
(* comes before the pending one is withdrawn for good (in the same page or *)
(* in an earlier one).                                                     *)
PendingFirst == \A e, f \in Entries : e.pend = f.id => f.pend = NoTxn
PendingNamed == \A e, f \in Entries : e.id = f.id => e.pend = f.pend
WithdrawnFor(k, pre) ==
    /\ pre \in Feed[k].removed
    /\ \A j \in (k + 1)..Len(Feed) : ~Reported(j, pre)
PendingWithdrawn ==
    \A k \in 1..Len(Feed) : \A e \in Feed[k].updated :
        e.amt # 0 /\ e.pend # NoTxn => \E j \in 1..k : WithdrawnFor(j, e.pend)

(* Every request that takes the lock gives it back, on every path.         *)
LockReleased == \A s \in Syncer : (lock = s) ~> (lock # s)

(* With the page cap, faults, restarts and racing syncs, the persisted     *)
(* cursor reaches the end of the feed for good.                            *)
CatchesUp == <>[](cursor = Len(Feed))
-----------------------------------------------------------------------------
(* What the code's comments say and racing requests break. *)

(* service.go:379-383: the lock keeps a sync from persisting a regressed   *)
(* cursor.                                                                 *)
CursorNeverRegresses == [][cursor' >= cursor]_vars

(* service.go:923-925: "by now any concurrent import of the pending        *)
(* predecessor has committed, so this check is reliable".                  *)
NoDoubleMovement ==
    \A id \in Txn : \A pre \in Predecessors(id) : ~DoubleMovement(id, pre)

(* service.go:695-697: a dismissed transaction is never un-dismissed, and  *)
(* its successor inherits the dismissal.                                   *)
SuccessorInherits ==
    \A id \in Txn :
        Visible(id) => ~\E pre \in Predecessors(id) : Dismissed(pre)
=============================================================================
