------------------------------- MODULE Ledger -------------------------------
(***************************************************************************)
(* The double-entry ledger of one book: TransactionService and             *)
(* AccountService (backend/internal/services), by concurrent requests on   *)
(* the tables of migrations/000001 under READ COMMITTED.                   *)
(*                                                                         *)
(* A statement is one step; the INSERTs that end a transaction are one     *)
(* step with its commit, since nobody else sees them before.  A request's  *)
(* uncommitted row changes are its del and wr, which lock those rows.      *)
(* A posting maps the positions of its splits to accounts and values; the  *)
(* auto-balancing split has position 0.  Values are integers over one      *)
(* denominator: the arithmetic of gnc.Numeric is not this module's         *)
(* subject.                                                                *)
(***************************************************************************)
EXTENDS Integers, Sequences, FiniteSets, FiniteSetsExt

CONSTANTS
    Account,        \* account ids
    Root,           \* the book's root account
    Seeded,         \* the accounts registration creates
    Request,        \* concurrent requests
    Drafts,         \* the postings a client may send
    AccountEdits,   \* the account changes a client may send
    Unborn, Gone,   \* a guid not in use yet, or not any more
    None,
    MaxSplits,      \* bound on the splits of a draft
    MaxStarts,      \* bound on the requests that are started
    MaxFaults       \* bound on failed statements

Line == [account : Account, value : Int]
Position == 0..MaxSplits
Posting == [Position -> Line \cup {None}]
Edit == [parent : Account, placeholder : BOOLEAN, imbalance : BOOLEAN]

ASSUME LedgerConstantsAssumption ==
    /\ Root \in Seeded /\ Seeded \subseteq Account
    /\ MaxSplits \in Nat
    /\ Drafts \subseteq Posting /\ \A d \in Drafts : d[0] = None
    /\ AccountEdits \subseteq Edit
    /\ MaxStarts \in Nat /\ MaxFaults \in Nat

VARIABLES
    accounts,  \* accounts; base is history: the version the last edit was made on
    txs,       \* transactions, by the number of the request that created them; base likewise
    splits,    \* splits; a guid is the number of the request and the position
    req,       \* the requests
    started, faults

vars == <<accounts, txs, splits, req, started, faults>>

Number == 1..MaxStarts
AccountRow == [parent : Account \cup {None}, placeholder : BOOLEAN, imbalance : BOOLEAN,
               ver : Nat, base : Nat]
TxRow == [ver : Nat, base : Nat]

ASSUME LedgerSentinelAssumption ==
    /\ None \notin Account /\ None \notin Line /\ Unborn # Gone
    /\ Unborn \notin AccountRow /\ Gone \notin AccountRow
    /\ Unborn \notin TxRow /\ Gone \notin TxRow

Split == [tx : Number, by : Number, pos : Position, account : Account, value : Int \ {0},
          state : {"n", "c", "y"}]
Guid == [by : Number, pos : Position]

RequestState ==
    [pc : {"idle", "balance", "check", "insert", "lookup", "bump", "clear", "wait",
           "mark", "edit", "drop"},
     kind : {"none", "create", "update", "batch", "account"},
     by : 0..MaxStarts,                     \* its number
     tx : 0..MaxStarts, seen : Nat,         \* the row it edits, the version its client saw
     lines : Posting,                       \* the splits it will insert
     pend : Account \cup {None},            \* the Imbalance account it inserts
     account : Account \cup {None}, edit : Edit \cup {None},
     todo : Seq(Guid), list : SUBSET Guid,  \* a batch: splits left, splits asked for
     del : SUBSET Guid, wr : SUBSET Guid]   \* rows it deleted, rows it reconciled

NoLines == [k \in Position |-> None]
NoRequest == [pc |-> "idle", kind |-> "none", by |-> 0, tx |-> 0, seen |-> 0, lines |-> NoLines,
              pend |-> None, account |-> None, edit |-> None, todo |-> <<>>, list |-> {},
              del |-> {}, wr |-> {}]

LedgerTypeOK ==
    /\ accounts \in [Account -> AccountRow \cup {Unborn, Gone}]
    /\ txs \in [Number -> TxRow \cup {Unborn, Gone}]
    /\ splits \subseteq Split
    /\ req \in [Request -> RequestState]
    /\ started \in 0..MaxStarts /\ faults \in 0..MaxFaults

Init ==
    /\ accounts = [a \in Account |->
                     IF a \in Seeded
                     THEN [parent |-> IF a = Root THEN None ELSE Root,
                           placeholder |-> a = Root, imbalance |-> FALSE, ver |-> 1, base |-> 0]
                     ELSE Unborn]
    /\ txs = [t \in Number |-> Unborn]
    /\ splits = {}
    /\ req = [r \in Request |-> NoRequest]
    /\ started = 0 /\ faults = 0
-----------------------------------------------------------------------------
Stored(row) == row \notin {Unborn, Gone}
Existing == {a \in Account : Stored(accounts[a])}
SplitsOf(t) == {s \in splits : s.tx = t}
GuidOf(s) == [by |-> s.by, pos |-> s.pos]
Guids(S) == {GuidOf(s) : s \in S}

Used(lines) == {k \in Position : lines[k] # None}
Sum(lines) == MapThenSumSet(LAMBDA k : lines[k].value, Used(lines))
NonZero_kept(lines) == lines
NonZero(lines) ==
    [k \in Position |-> IF k \in Used(lines) /\ lines[k].value = 0 THEN None ELSE lines[k]]
TwoOrMore(lines) == Cardinality(Used(lines)) >= 2
Total(S) == MapThenSumSet(LAMBDA s : s.value, S)

(* Row locks: none of these requests holds the transaction, which an       *)
(* update locks with its UPDATE of transactions, or the splits, which an   *)
(* update deletes and a batch reconciles.                                  *)
HoldsTx(q) == req[q].kind = "update" /\ req[q].pc \in {"clear", "wait", "insert"}
TxRowFree_unlocked(others, t) == TRUE
TxRowFree(others, t) == \A q \in others : HoldsTx(q) => req[q].tx # t
SplitsFree(others, G) == \A q \in others : G \cap (req[q].del \cup req[q].wr) = {}
Others(r) == Request \ {r}

(* The foreign keys: of splits on accounts, and on accounts from splits,   *)
(* children and the book. *)
AccountsThere(r) ==
    \A k \in Used(req[r].lines) :
        req[r].lines[k].account \in Existing \cup {req[r].pend}
Unreferenced_countOnly(a) == TRUE
Unreferenced(a) ==
    /\ a # Root
    /\ \A s \in splits : s.account # a
    /\ \A b \in Existing : accounts[b].parent # a

(* The request's form was loaded when the row had this version. *)
Current_ignored(r) == TRUE
Current(r) == accounts[req[r].account].ver = req[r].seen

Balances_unchecked(lines) == TRUE
Balances(lines) == Sum(lines) = 0

Ended(r) == [req EXCEPT ![r] = NoRequest]
At(r, l) == [req EXCEPT ![r].pc = l]

Start(r, fields) ==
    /\ req[r].pc = "idle" /\ started < MaxStarts
    /\ started' = started + 1
    /\ req' = [req EXCEPT ![r] = [fields EXCEPT !.by = started + 1]]
    /\ UNCHANGED <<accounts, txs, splits, faults>>
ReadOnly == UNCHANGED <<accounts, txs, splits, started, faults>>
Stays == UNCHANGED <<req, started, faults>>
-----------------------------------------------------------------------------
(* CreateTransaction: the zero splits are dropped. *)
StartCreate(r) ==
    \E d \in Drafts :
        Start(r, [NoRequest EXCEPT !.pc = "balance", !.kind = "create", !.lines = NonZero(d)])

(* A sum that is not zero is put on any account named Imbalance, or on one *)
(* this transaction inserts.  With fewer than two splits it fails.         *)
AutoBalance(r) ==
    /\ req[r].pc = "balance"
    /\ LET lines == req[r].lines
           found == {a \in Existing : accounts[a].imbalance}
           free == {a \in Account : accounts[a] = Unborn /\ \A q \in Request : req[q].pend # a}
           Checked(l, pend) ==
              IF TwoOrMore(l)
              THEN [req EXCEPT ![r].pc = "check", ![r].lines = l, ![r].pend = pend]
              ELSE Ended(r)
       IN \/ /\ Balances(lines)
             /\ req' = Checked(lines, None)
          \/ /\ ~Balances(lines)
             /\ \E a \in IF found # {} THEN found ELSE free :
                  req' = Checked([lines EXCEPT ![0] = [account |-> a, value |-> -Sum(lines)]],
                                 IF found # {} THEN None ELSE a)
          \/ \* the instance has no guid left: the INSERT fails
             /\ ~Balances(lines) /\ found = {} /\ free = {}
             /\ req' = Ended(r)
    /\ ReadOnly

(* No split may name an account that is not in the book, or a placeholder. *)
CheckAccounts(r) ==
    /\ req[r].pc = "check"
    /\ LET Postable(a) == a \in Existing /\ ~accounts[a].placeholder
           ok == \A k \in Used(req[r].lines) :
                    \/ req[r].lines[k].account = req[r].pend
                    \/ Postable(req[r].lines[k].account)
       IN req' = IF ~ok THEN Ended(r)
                 ELSE At(r, IF req[r].kind = "create" THEN "insert" ELSE "bump")
    /\ ReadOnly

(* UpdateTransaction: the client's form shows a version, which the request *)
(* does not carry. *)
OpenForm(r, t) ==
    /\ Stored(txs[t])
    /\ \E d \in Drafts :
          Start(r, [NoRequest EXCEPT !.pc = "lookup", !.kind = "update", !.tx = t,
                                     !.seen = txs[t].ver, !.lines = NonZero(d)])

LookUpTransaction(r) ==
    /\ req[r].pc = "lookup"
    /\ req' = IF /\ Stored(txs[req[r].tx])
                 /\ Balances(req[r].lines) /\ TwoOrMore(req[r].lines)
              THEN At(r, "check") ELSE Ended(r)
    /\ ReadOnly

(* UPDATE transactions waits for the row and locks it; a row that is gone  *)
(* is not noticed yet. *)
BumpVersion(r) ==
    /\ req[r].pc = "bump"
    /\ TxRowFree(Others(r), req[r].tx)
    /\ req' = At(r, "clear")
    /\ ReadOnly

(* DELETE FROM splits: the rows its snapshot shows, once they are free. *)
ScanSplits(r) ==
    /\ req[r].pc = "clear"
    /\ req' = [req EXCEPT ![r].pc = "wait", ![r].list = Guids(SplitsOf(req[r].tx))]
    /\ ReadOnly
DeleteSplits(r) ==
    /\ req[r].pc = "wait"
    /\ SplitsFree(Others(r), req[r].list)
    /\ req' = [req EXCEPT ![r].pc = "insert", ![r].del = req[r].list]
    /\ ReadOnly

(* The new splits and the commit, if every foreign key holds. *)
Written(r, t) ==
    {[tx |-> t, by |-> req[r].by, pos |-> k, account |-> req[r].lines[k].account,
      value |-> req[r].lines[k].value, state |-> "n"] : k \in Used(req[r].lines)}

InsertSplits(r) ==
    /\ req[r].pc = "insert"
    /\ LET new == req[r].kind = "create"
           t == IF new THEN req[r].by ELSE req[r].tx
       IN IF (new \/ Stored(txs[t])) /\ AccountsThere(r)
          THEN /\ txs' = [txs EXCEPT ![t] = IF new THEN [ver |-> 1, base |-> 0]
                                            ELSE [ver |-> @.ver + 1, base |-> req[r].seen]]
               /\ splits' = {s \in splits : GuidOf(s) \notin req[r].del} \cup Written(r, t)
               /\ accounts' = IF req[r].pend = None THEN accounts
                              ELSE [accounts EXCEPT ![req[r].pend] =
                                      [parent |-> Root, placeholder |-> FALSE, imbalance |-> TRUE,
                                       ver |-> 1, base |-> 0]]
          ELSE UNCHANGED <<accounts, txs, splits>>
    /\ req' = Ended(r)
    /\ UNCHANGED <<started, faults>>

(* DeleteTransaction, with the cascade to the splits. *)
DeleteTransaction(t) ==
    /\ Stored(txs[t])
    /\ TxRowFree(Request, t) /\ SplitsFree(Request, Guids(SplitsOf(t)))
    /\ txs' = [txs EXCEPT ![t] = Gone]
    /\ splits' = splits \ SplitsOf(t)
    /\ Stays /\ UNCHANGED accounts

(* ToggleSplitAcknowledge; BatchReconcileSplits, which locks its splits    *)
(* one after the other and skips those that are gone; and                  *)
(* ReconcileAccountSplits, in one statement. *)
InState(S, state) == {[s EXCEPT !.state = state] : s \in S}

ToggleSplitAcknowledge(s, state) ==
    /\ SplitsFree(Request, {GuidOf(s)})
    /\ splits' = (splits \ {s}) \cup InState({s}, state)
    /\ Stays /\ UNCHANGED <<accounts, txs>>

StartBatch(r) ==
    \E s1, s2 \in splits :
        /\ s1 # s2
        /\ Start(r, [NoRequest EXCEPT !.pc = "mark", !.kind = "batch",
                        !.todo = <<GuidOf(s1), GuidOf(s2)>>, !.list = {GuidOf(s1), GuidOf(s2)}])

Marked_each(r) ==
    LET S == {s \in splits : GuidOf(s) \in req[r].wr \cup {Head(req[r].todo)}}
    IN (splits \ S) \cup InState(S, "y")
Marked(r) == splits

MarkSplit(r) ==
    /\ req[r].pc = "mark" /\ req[r].todo # <<>>
    /\ SplitsFree(Others(r), {Head(req[r].todo)})
    /\ splits' = Marked(r)
    /\ req' = [req EXCEPT ![r].todo = Tail(@),
                          ![r].wr = @ \cup ({Head(req[r].todo)} \cap
                                            Guids({s \in splits : s.state # "y"}))]
    /\ UNCHANGED <<accounts, txs, started, faults>>

CommitBatch(r) ==
    /\ req[r].pc = "mark" /\ req[r].todo = <<>>
    /\ LET S == {s \in splits : GuidOf(s) \in req[r].wr}
       IN splits' = (splits \ S) \cup InState(S, "y")
    /\ req' = Ended(r)
    /\ UNCHANGED <<accounts, txs, started, faults>>

ReconcileAccountSplits(A) ==
    LET S == {s \in splits : s.account \in A /\ s.state # "y"} IN
    /\ S # {}
    /\ SplitsFree(Request, Guids(S))
    /\ splits' = (splits \ S) \cup InState(S, "y")
    /\ Stays /\ UNCHANGED <<accounts, txs>>
-----------------------------------------------------------------------------
(* CreateAccount: the parent must exist. *)
CreateAccount(a) ==
    /\ accounts[a] = Unborn /\ \A q \in Request : req[q].pend # a
    /\ \E e \in AccountEdits :
          /\ e.parent \in Existing
          /\ accounts' = [accounts EXCEPT ![a] =
                            [parent |-> e.parent, placeholder |-> e.placeholder,
                             imbalance |-> e.imbalance, ver |-> 1, base |-> 0]]
    /\ Stays /\ UNCHANGED <<txs, splits>>

(* UpdateAccount carries the version its form showed. *)
OpenAccountForm(r, a) ==
    /\ a \in Existing
    /\ \E e \in AccountEdits :
          Start(r, [NoRequest EXCEPT !.pc = "edit", !.kind = "account", !.account = a,
                                     !.seen = accounts[a].ver, !.edit = e])

UpdateAccount(r) ==
    /\ req[r].pc = "edit"
    /\ LET a == req[r].account
           e == req[r].edit
       IN accounts' = IF a \in Existing /\ Current(r) /\ e.parent \in Existing
                      THEN [accounts EXCEPT ![a] =
                              [parent |-> e.parent, placeholder |-> e.placeholder,
                               imbalance |-> e.imbalance, ver |-> @.ver + 1, base |-> req[r].seen]]
                      ELSE accounts
    /\ req' = Ended(r)
    /\ UNCHANGED <<txs, splits, started, faults>>

(* DeleteAccount: count the splits and children, then delete if the        *)
(* foreign keys still allow it. *)
CountUses(r, a) ==
    /\ a \in Existing
    /\ \A s \in splits : s.account # a
    /\ \A b \in Existing : accounts[b].parent # a
    /\ Start(r, [NoRequest EXCEPT !.pc = "drop", !.kind = "account", !.account = a])

DropAccount(r) ==
    /\ req[r].pc = "drop"
    /\ accounts' = IF req[r].account \in Existing /\ Unreferenced(req[r].account)
                   THEN [accounts EXCEPT ![req[r].account] = Gone] ELSE accounts
    /\ req' = Ended(r)
    /\ UNCHANGED <<txs, splits, started, faults>>

(* A statement fails: the deferred rollback.  The server dying is the same *)
(* for every request at once.                                              *)
RequestFault(r) ==
    /\ req[r].pc # "idle" /\ faults < MaxFaults
    /\ faults' = faults + 1
    /\ req' = Ended(r)
    /\ UNCHANGED <<accounts, txs, splits, started>>

(* Two batches wait for each other's splits; PostgreSQL ends one. *)
WaitsFor(r) ==
    {q \in Others(r) : /\ req[r].pc = "mark" /\ req[r].todo # <<>>
                        /\ Head(req[r].todo) \in req[q].wr \cup req[q].del}
DeadlockVictim(r) ==
    /\ \E q \in WaitsFor(r) : r \in WaitsFor(q)
    /\ req' = Ended(r)
    /\ ReadOnly

(* No request is running.  In any other state without a step, requests     *)
(* would wait for each other for ever.                                     *)
Quiet ==
    /\ \A r \in Request : req[r].pc = "idle"
    /\ UNCHANGED vars

RequestStep(r) ==
    \/ AutoBalance(r) \/ CheckAccounts(r) \/ LookUpTransaction(r)
    \/ BumpVersion(r) \/ ScanSplits(r) \/ DeleteSplits(r) \/ InsertSplits(r)
    \/ MarkSplit(r) \/ CommitBatch(r)
    \/ UpdateAccount(r) \/ DropAccount(r)
    \/ DeadlockVictim(r)

Next ==
    \/ \E r \in Request :
          StartCreate(r) \/ StartBatch(r) \/ RequestStep(r) \/ RequestFault(r)
    \/ \E r \in Request, t \in Number : OpenForm(r, t)
    \/ \E r \in Request, a \in Account : OpenAccountForm(r, a) \/ CountUses(r, a)
    \/ \E t \in Number : DeleteTransaction(t)
    \/ \E s \in splits, state \in {"n", "c"} : ToggleSplitAcknowledge(s, state)
    \/ \E a \in Account : ReconcileAccountSplits({a}) \/ CreateAccount(a)
    \/ Quiet

Spec == Init /\ [][Next]_vars
-----------------------------------------------------------------------------
(* The zero-sum invariant of transaction_service.go: whatever requests     *)
(* race, the splits of a transaction sum to zero.  Each update replaces    *)
(* exactly what an earlier one wrote, and what auto-balance adds is what   *)
(* was missing. *)
Balanced == \A t \in Number : Total(SplitsOf(t)) = 0

(* Aggregate root: the splits of a transaction are those of one request,   *)
(* all of them or none; concurrent updates never mix their splits, and a   *)
(* delete never leaves some behind.                                        *)
SingleAuthor ==
    /\ \A s1, s2 \in splits : s1.tx = s2.tx => s1.by = s2.by
    /\ \A t \in Number : Stored(txs[t]) <=> SplitsOf(t) # {}

(* DeleteAccount counts before it deletes: no split and no child account   *)
(* that was written in between is left without its account.                *)
NoOrphan ==
    /\ \A s \in splits : s.account \in Existing
    /\ \A a \in Existing : accounts[a].parent \in Existing \cup {None}

(* UpdateAccount's version clause: an edit is never stored over one its    *)
(* form did not show. *)
AccountEditsSerial == \A a \in Existing : accounts[a].ver = accounts[a].base + 1

(* A reconciliation is all or nothing: the splits a batch turns to y turn  *)
(* in the step that ends it, all of them that are still there.             *)
ReconcileAtomic ==
    [][\A r \in Request :
         /\ req[r].kind = "batch" /\ req'[r] # req[r]
         /\ \E s \in splits' : GuidOf(s) \in req[r].list /\ s.state = "y" /\ s \notin splits
         => /\ req'[r] = NoRequest
            /\ \A s \in splits' : GuidOf(s) \in req[r].wr => s.state = "y"]_vars

(* Stale updates of a transaction are rejected                             *)
(* (docs/designing-gnuCash-web-architecture.md:172): the version an update *)
(* was made on is the one it replaces.                                     *)
NoLostUpdate == \A t \in Number : Stored(txs[t]) => txs[t].ver = txs[t].base + 1
=============================================================================
