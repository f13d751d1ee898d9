---------------------------- MODULE LedgerProofs ----------------------------
(***************************************************************************)
(* Invariance proofs for Ledger, for every set of accounts, requests and   *)
(* drafts and every bound.  What a posting sums to matters in the last     *)
(* part only, which takes the sums apart with the lemmas of Sums.          *)
(***************************************************************************)
EXTENDS Ledger, Sums

-----------------------------------------------------------------------------
(* Shapes: LedgerTypeOK without the values of splits, and what the program *)
(* counter of a request says of its other fields.                          *)

Filled(lines) ==
    /\ lines = [k \in Position |-> lines[k]]
    /\ \A k \in Used(lines) : lines[k].account \in Account

Formed(t) ==
    /\ t \in [pc : {"idle", "balance", "check", "insert", "lookup", "bump", "clear", "wait",
                    "mark", "edit", "drop"},
              kind : {"none", "create", "update", "batch", "account"},
              by : 0..MaxStarts, tx : 0..MaxStarts, seen : Nat, lines : {t.lines},
              pend : Account \cup {None}, account : Account \cup {None},
              edit : Edit \cup {None}, todo : {t.todo}, list : {t.list},
              del : {t.del}, wr : {t.wr}]
    /\ Filled(t.lines)

Staged(t) ==
    /\ t.pc = "idle" <=> t.kind = "none"
    /\ t.pc # "idle" => t.by \in Number
    /\ t.pc = "mark" <=> t.kind = "batch"
    /\ t.pc = "balance" => t.kind = "create"
    /\ t.pc \in {"lookup", "bump", "clear", "wait"} => t.kind = "update"
    /\ t.pc \in {"check", "insert"} => t.kind \in {"create", "update"}
    /\ t.pc \in {"check", "bump", "clear", "wait", "insert"} => Used(t.lines) # {}
    /\ t.pc \in {"edit", "drop"} => t.account \in Account
    /\ t.pc = "edit" => t.edit \in Edit
    /\ t.kind = "update" => t.tx \in Number

SplitFormed(s) ==
    s \in [tx : Number, by : Number, pos : Position, account : Account,
           value : {s.value}, state : {"n", "c", "y"}]

Shapes ==
    /\ accounts \in [Account -> AccountRow \cup {Unborn, Gone}]
    /\ txs \in [Number -> TxRow \cup {Unborn, Gone}]
    /\ \A s \in splits : SplitFormed(s)
    /\ req = [r \in Request |-> req[r]]
    /\ \A r \in Request : Formed(req[r]) /\ Staged(req[r])
    /\ started \in 0..MaxStarts

LEMMA NothingPosted == Filled(NoLines)
BY DEF Filled, Used, NoLines

LEMMA NoRequestFormed == Formed(NoRequest) /\ Staged(NoRequest)
<1>1. MaxStarts \in Nat /\ 0 \in 0..MaxStarts
  BY LedgerConstantsAssumption
<1>2. QED
  BY <1>1, NothingPosted DEF Formed, Staged, NoRequest

(* A posting loses its zero splits and nothing else. *)
LEMMA DraftFilled ==
    ASSUME NEW d \in Drafts
    PROVE  Filled(NonZero(d))
<1>1. d \in [Position -> Line \cup {None}]
  BY LedgerConstantsAssumption DEF Posting
<1>2. QED
  BY <1>1 DEF Filled, NonZero, Used, Line

LEMMA TwoAreSome ==
    ASSUME NEW lines, TwoOrMore(lines)
    PROVE  Used(lines) # {}
BY FS_EmptySet DEF TwoOrMore

(* What a step has to establish about the request that takes it. *)
LEMMA ShapesMove ==
    ASSUME Shapes, NEW r \in Request, NEW u, Formed(u), Staged(u),
           req' = [req EXCEPT ![r] = u],
           accounts' \in [Account -> AccountRow \cup {Unborn, Gone}],
           txs' \in [Number -> TxRow \cup {Unborn, Gone}],
           \A s \in splits' : SplitFormed(s),
           started' \in 0..MaxStarts
    PROVE  Shapes'
<1>1. req' = [q \in Request |-> req'[q]]
  BY DEF Shapes
<1>2. ASSUME NEW q \in Request
      PROVE  Formed(req'[q]) /\ Staged(req'[q])
  BY DEF Shapes
<1>3. QED
  BY <1>1, <1>2 DEF Shapes, Formed, Staged, SplitFormed, Filled, Used

LEMMA RestShapes ==
    ASSUME Shapes, NEW r \in Request, req' = Ended(r),
           accounts' \in [Account -> AccountRow \cup {Unborn, Gone}],
           UNCHANGED <<txs, splits, started>>
    PROVE  Shapes'
BY ShapesMove, NoRequestFormed DEF Ended, Shapes, SplitFormed

(* A new request. *)
LEMMA StartShapes ==
    ASSUME Shapes, NEW r \in Request, NEW f, Start(r, f),
           Formed([f EXCEPT !.by = started + 1]), Staged([f EXCEPT !.by = started + 1])
    PROVE  Shapes'
<1>1. /\ req' = [req EXCEPT ![r] = [f EXCEPT !.by = started + 1]]
      /\ started' = started + 1 /\ started < MaxStarts
      /\ UNCHANGED <<accounts, txs, splits>>
  BY DEF Start
<1>2. started' \in 0..MaxStarts
  BY <1>1, LedgerConstantsAssumption DEF Shapes
<1>3. QED
  BY <1>1, <1>2, ShapesMove DEF Shapes, SplitFormed

LEMMA StartsKeepShapes ==
    ASSUME Shapes, NEW r \in Request
    PROVE  /\ StartCreate(r) \/ StartBatch(r) => Shapes'
           /\ \A t \in Number : OpenForm(r, t) => Shapes'
           /\ \A a \in Account : OpenAccountForm(r, a) \/ CountUses(r, a) => Shapes'
<1> DEFINE n == started + 1
<1>0. started < MaxStarts => n \in 0..MaxStarts /\ n \in Number
  BY LedgerConstantsAssumption DEF Shapes, Number
<1>1. ASSUME NEW d \in Drafts,
             Start(r, [NoRequest EXCEPT !.pc = "balance", !.kind = "create", !.lines = NonZero(d)])
      PROVE  Shapes'
  <2> DEFINE f == [NoRequest EXCEPT !.pc = "balance", !.kind = "create", !.lines = NonZero(d)]
  <2>1. Formed([f EXCEPT !.by = n]) /\ Staged([f EXCEPT !.by = n])
    BY <1>0, <1>1, NoRequestFormed, DraftFilled DEF Formed, Staged, Start, NoRequest
  <2>2. QED
    BY <2>1, <1>1, StartShapes
<1>2. ASSUME NEW g1, NEW g2,
             Start(r, [NoRequest EXCEPT !.pc = "mark", !.kind = "batch",
                         !.todo = <<g1, g2>>, !.list = {g1, g2}])
      PROVE  Shapes'
  <2> DEFINE f == [NoRequest EXCEPT !.pc = "mark", !.kind = "batch",
                     !.todo = <<g1, g2>>, !.list = {g1, g2}]
  <2>1. Formed([f EXCEPT !.by = n]) /\ Staged([f EXCEPT !.by = n])
    BY <1>0, <1>2, NoRequestFormed DEF Formed, Staged, Start, NoRequest
  <2>2. QED
    BY <2>1, <1>2, StartShapes
<1>3. ASSUME NEW t \in Number, Stored(txs[t]), NEW d \in Drafts,
             Start(r, [NoRequest EXCEPT !.pc = "lookup", !.kind = "update", !.tx = t,
                         !.seen = txs[t].ver, !.lines = NonZero(d)])
      PROVE  Shapes'
  <2> DEFINE f == [NoRequest EXCEPT !.pc = "lookup", !.kind = "update", !.tx = t,
                     !.seen = txs[t].ver, !.lines = NonZero(d)]
  <2>1. txs[t].ver \in Nat /\ t \in 0..MaxStarts
    BY <1>3, LedgerConstantsAssumption DEF Shapes, Stored, TxRow, Number
  <2>2. Formed([f EXCEPT !.by = n]) /\ Staged([f EXCEPT !.by = n])
    BY <1>0, <1>3, <2>1, NoRequestFormed, DraftFilled DEF Formed, Staged, Start, NoRequest
  <2>3. QED
    BY <2>2, <1>3, StartShapes
<1>4. ASSUME NEW a \in Account, a \in Existing, NEW e \in AccountEdits,
             Start(r, [NoRequest EXCEPT !.pc = "edit", !.kind = "account", !.account = a,
                         !.seen = accounts[a].ver, !.edit = e])
      PROVE  Shapes'
  <2> DEFINE f == [NoRequest EXCEPT !.pc = "edit", !.kind = "account", !.account = a,
                     !.seen = accounts[a].ver, !.edit = e]
  <2>1. accounts[a].ver \in Nat /\ e \in Edit
    BY <1>4, LedgerConstantsAssumption DEF Shapes, Existing, Stored, AccountRow
  <2>2. Formed([f EXCEPT !.by = n]) /\ Staged([f EXCEPT !.by = n])
    BY <1>0, <1>4, <2>1, NoRequestFormed DEF Formed, Staged, Start, NoRequest
  <2>3. QED
    BY <2>2, <1>4, StartShapes
<1>5. ASSUME NEW a \in Account,
             Start(r, [NoRequest EXCEPT !.pc = "drop", !.kind = "account", !.account = a])
      PROVE  Shapes'
  <2> DEFINE f == [NoRequest EXCEPT !.pc = "drop", !.kind = "account", !.account = a]
  <2>1. Formed([f EXCEPT !.by = n]) /\ Staged([f EXCEPT !.by = n])
    BY <1>0, <1>5, NoRequestFormed DEF Formed, Staged, Start, NoRequest
  <2>2. QED
    BY <2>1, <1>5, StartShapes
<1>6. QED
  BY <1>1, <1>2, <1>3, <1>4, <1>5
  DEF StartCreate, StartBatch, OpenForm, OpenAccountForm, CountUses

LEMMA AutoBalanceShapes ==
    ASSUME Shapes, NEW r \in Request, AutoBalance(r)
    PROVE  Shapes'
<1> DEFINE t == req[r]
           Checked(l, p) == IF TwoOrMore(l)
                            THEN [req EXCEPT ![r].pc = "check", ![r].lines = l, ![r].pend = p]
                            ELSE Ended(r)
<1>0. Formed(t) /\ Staged(t) /\ t.pc = "balance" /\ t.kind = "create"
  BY DEF AutoBalance, Shapes, Staged
<1>1. ASSUME NEW l, Filled(l), NEW p \in Account \cup {None}, req' = Checked(l, p)
      PROVE  Shapes'
  <2>1. CASE TwoOrMore(l)
    <3> DEFINE u == [t EXCEPT !.pc = "check", !.lines = l, !.pend = p]
    <3>1. Used(l) # {}
      BY <2>1, TwoAreSome
    <3>2. Formed(u) /\ Staged(u)
      BY <1>0, <1>1, <3>1 DEF Formed, Staged
    <3>3. req' = [req EXCEPT ![r] = u]
      BY <1>1, <2>1 DEF Shapes
    <3>4. QED
      BY <3>2, <3>3, ShapesMove DEF AutoBalance, ReadOnly, Shapes, SplitFormed
  <2>2. CASE ~TwoOrMore(l)
    BY <1>1, <2>2, RestShapes DEF AutoBalance, ReadOnly, Shapes
  <2>3. QED
    BY <2>1, <2>2
<1>2. ASSUME NEW a \in Account, NEW v
      PROVE  Filled([t.lines EXCEPT ![0] = [account |-> a, value |-> v]])
  BY <1>0, LedgerConstantsAssumption DEF Formed, Filled, Used, Position
<1>3. CASE req' = Checked(t.lines, None)
  BY <1>0, <1>1, <1>3 DEF Formed
<1>4. CASE \E a \in Account, p \in Account \cup {None} :
             req' = Checked([t.lines EXCEPT ![0] = [account |-> a, value |-> -Sum(t.lines)]], p)
  BY <1>1, <1>2, <1>4
<1>5. CASE req' = Ended(r)
  BY <1>5, RestShapes DEF AutoBalance, ReadOnly, Shapes
<1>6. QED
  BY <1>3, <1>4, <1>5 DEF AutoBalance, Existing

(* The steps of a request that write no account and no split. *)
LEMMA ReadOnlyShapes ==
    ASSUME Shapes, NEW r \in Request,
           \/ CheckAccounts(r) \/ LookUpTransaction(r) \/ BumpVersion(r)
           \/ ScanSplits(r) \/ DeleteSplits(r)
           \/ DeadlockVictim(r) \/ RequestFault(r)
    PROVE  Shapes'
<1> DEFINE t == req[r]
<1>0. Formed(t) /\ Staged(t)
  BY DEF Shapes
<1>1. UNCHANGED <<accounts, txs, splits, started>>
  BY DEF CheckAccounts, LookUpTransaction, BumpVersion, ScanSplits, DeleteSplits,
         DeadlockVictim, RequestFault, ReadOnly
<1>2. ASSUME NEW u, Formed(u), Staged(u), req' = [req EXCEPT ![r] = u]
      PROVE  Shapes'
  BY <1>1, <1>2, ShapesMove DEF Shapes, SplitFormed
<1>3. ASSUME req' = Ended(r)
      PROVE  Shapes'
  BY <1>1, <1>3, RestShapes DEF Shapes
<1>4. ASSUME NEW l \in {"check", "insert", "bump", "clear"}, req' = At(r, l),
             l = "check" => t.kind = "update" /\ Used(t.lines) # {},
             l = "insert" => t.pc = "check", l = "bump" => t.pc = "check" /\ t.kind # "create",
             l = "clear" => t.pc = "bump"
      PROVE  Shapes'
  <2> DEFINE u == [t EXCEPT !.pc = l]
  <2>1. Formed(u) /\ Staged(u)
    BY <1>0, <1>4 DEF Formed, Staged
  <2>2. req' = [req EXCEPT ![r] = u]
    BY <1>4 DEF At, Shapes
  <2>3. QED
    BY <2>1, <2>2, <1>2
<1>5. CASE CheckAccounts(r)
  BY <1>3, <1>4, <1>5 DEF CheckAccounts
<1>6. CASE LookUpTransaction(r)
  BY <1>0, <1>3, <1>4, <1>6, TwoAreSome DEF LookUpTransaction, Staged
<1>7. CASE BumpVersion(r)
  BY <1>4, <1>7 DEF BumpVersion
<1>8. CASE ScanSplits(r)
  <2> DEFINE u == [t EXCEPT !.pc = "wait", !.list = Guids(SplitsOf(t.tx))]
  <2>1. Formed(u) /\ Staged(u)
    BY <1>0, <1>8 DEF ScanSplits, Formed, Staged
  <2>2. req' = [req EXCEPT ![r] = u]
    BY <1>8 DEF ScanSplits, Shapes
  <2>3. QED
    BY <2>1, <2>2, <1>2
<1>9. CASE DeleteSplits(r)
  <2> DEFINE u == [t EXCEPT !.pc = "insert", !.del = t.list]
  <2>1. Formed(u) /\ Staged(u)
    BY <1>0, <1>9 DEF DeleteSplits, Formed, Staged
  <2>2. req' = [req EXCEPT ![r] = u]
    BY <1>9 DEF DeleteSplits, Shapes
  <2>3. QED
    BY <2>1, <2>2, <1>2
<1>10. CASE DeadlockVictim(r) \/ RequestFault(r)
  BY <1>3, <1>10 DEF DeadlockVictim, RequestFault
<1>11. QED
  BY <1>5, <1>6, <1>7, <1>8, <1>9, <1>10

LEMMA InStateFormed ==
    ASSUME NEW S, \A s \in S : SplitFormed(s), NEW state \in {"n", "c", "y"}
    PROVE  \A s \in InState(S, state) : SplitFormed(s)
BY DEF InState, SplitFormed

LEMMA InsertSplitsShapes ==
    ASSUME Shapes, NEW r \in Request, InsertSplits(r)
    PROVE  Shapes'
<1> DEFINE t == req[r]
           new == t.kind = "create"
           n == IF new THEN t.by ELSE t.tx
           row == [parent |-> Root, placeholder |-> FALSE, imbalance |-> TRUE,
                   ver |-> 1, base |-> 0]
<1>0. /\ Formed(t) /\ Staged(t) /\ t.pc = "insert"
      /\ req' = Ended(r) /\ UNCHANGED started
      /\ n \in Number /\ t.by \in Number
  BY DEF InsertSplits, Shapes, Staged
<1>1. CASE UNCHANGED <<accounts, txs, splits>>
  BY <1>0, <1>1, RestShapes DEF Shapes
<1>2. CASE /\ new \/ Stored(txs[n])
           /\ txs' = [txs EXCEPT ![n] = IF new THEN [ver |-> 1, base |-> 0]
                                        ELSE [ver |-> @.ver + 1, base |-> t.seen]]
           /\ splits' = {s \in splits : GuidOf(s) \notin t.del} \cup Written(r, n)
           /\ accounts' = IF t.pend = None THEN accounts
                          ELSE [accounts EXCEPT ![t.pend] = row]
  <2>1. accounts' \in [Account -> AccountRow \cup {Unborn, Gone}]
    <3>1. row \in AccountRow
      BY LedgerConstantsAssumption DEF AccountRow
    <3>2. QED
      BY <1>2, <3>1 DEF Shapes
  <2>2. txs' \in [Number -> TxRow \cup {Unborn, Gone}]
    <3>1. (IF new THEN [ver |-> 1, base |-> 0]
           ELSE [ver |-> txs[n].ver + 1, base |-> t.seen]) \in TxRow
      BY <1>0, <1>2 DEF TxRow, Shapes, Stored, Formed
    <3>2. QED
      BY <1>2, <3>1 DEF Shapes
  <2>3. \A s \in Written(r, n) : SplitFormed(s)
    BY <1>0 DEF Written, SplitFormed, Formed, Filled, Used
  <2>4. \A s \in splits' : SplitFormed(s)
    BY <1>2, <2>3 DEF Shapes
  <2>5. QED
    BY <1>0, <2>1, <2>2, <2>4, ShapesMove, NoRequestFormed DEF Ended, Shapes
<1>3. QED
  BY <1>1, <1>2 DEF InsertSplits

LEMMA AccountStepShapes ==
    ASSUME Shapes, NEW r \in Request, UpdateAccount(r) \/ DropAccount(r)
    PROVE  Shapes'
<1> DEFINE t == req[r]
<1>0. Formed(t) /\ Staged(t) /\ req' = Ended(r) /\ UNCHANGED <<txs, splits, started>>
  BY DEF UpdateAccount, DropAccount, Shapes
<1>1. CASE UpdateAccount(r)
  <2> DEFINE a == t.account
             e == t.edit
             row == [parent |-> e.parent, placeholder |-> e.placeholder,
                     imbalance |-> e.imbalance, ver |-> accounts[a].ver + 1, base |-> t.seen]
  <2>1. a \in Existing => row \in AccountRow
    BY <1>0, <1>1 DEF UpdateAccount, Shapes, Existing, Stored, AccountRow, Staged, Formed, Edit
  <2>2. accounts' \in [Account -> AccountRow \cup {Unborn, Gone}]
    BY <1>1, <2>1 DEF UpdateAccount, Shapes
  <2>3. QED
    BY <1>0, <2>2, RestShapes
<1>2. CASE DropAccount(r)
  <2>1. accounts' \in [Account -> AccountRow \cup {Unborn, Gone}]
    BY <1>2 DEF DropAccount, Shapes
  <2>2. QED
    BY <1>0, <2>1, RestShapes
<1>3. QED
  BY <1>1, <1>2

LEMMA BatchShapes ==
    ASSUME Shapes, NEW r \in Request, MarkSplit(r) \/ CommitBatch(r)
    PROVE  Shapes'
<1> DEFINE t == req[r]
<1>0. Formed(t) /\ Staged(t) /\ UNCHANGED <<accounts, txs, started>>
  BY DEF MarkSplit, CommitBatch, Shapes
<1>1. CASE MarkSplit(r)
  <2> DEFINE u == [t EXCEPT !.todo = Tail(t.todo),
                            !.wr = @ \cup ({Head(t.todo)} \cap
                                           Guids({s \in splits : s.state # "y"}))]
  <2>1. Formed(u) /\ Staged(u)
    BY <1>0, <1>1 DEF MarkSplit, Formed, Staged
  <2>2. req' = [req EXCEPT ![r] = u] /\ splits' = splits
    BY <1>1 DEF MarkSplit, Marked, Shapes
  <2>3. QED
    BY <1>0, <2>1, <2>2, ShapesMove DEF Shapes, SplitFormed
<1>2. CASE CommitBatch(r)
  <2>1. \A s \in splits' : SplitFormed(s)
    BY <1>2, InStateFormed DEF CommitBatch, Shapes
  <2>2. QED
    BY <1>0, <1>2, <2>1, ShapesMove, NoRequestFormed DEF CommitBatch, Ended, Shapes
<1>3. QED
  BY <1>1, <1>2

(* The steps that are a request by themselves.                             *)
LEMMA OneStepShapes ==
    ASSUME Shapes,
           \/ \E t \in Number : DeleteTransaction(t)
           \/ \E s \in splits, state \in {"n", "c"} : ToggleSplitAcknowledge(s, state)
           \/ \E a \in Account : ReconcileAccountSplits({a}) \/ CreateAccount(a)
           \/ UNCHANGED vars
    PROVE  Shapes'
<1>0. ASSUME UNCHANGED <<req, started>>,
             accounts' \in [Account -> AccountRow \cup {Unborn, Gone}],
             txs' \in [Number -> TxRow \cup {Unborn, Gone}],
             \A s \in splits' : SplitFormed(s)
      PROVE  Shapes'
  BY <1>0 DEF Shapes, Formed, Staged, Filled, Used, SplitFormed
<1>1. ASSUME NEW t \in Number, DeleteTransaction(t)
      PROVE  Shapes'
  BY <1>0, <1>1 DEF DeleteTransaction, Stays, Shapes, SplitFormed
<1>2. ASSUME NEW s \in splits, NEW state \in {"n", "c"}, ToggleSplitAcknowledge(s, state)
      PROVE  Shapes'
  <2>1. \A s1 \in InState({s}, state) : SplitFormed(s1)
    BY InStateFormed DEF Shapes
  <2>2. QED
    BY <1>0, <1>2, <2>1 DEF ToggleSplitAcknowledge, Stays, Shapes
<1>3. ASSUME NEW a \in Account, ReconcileAccountSplits({a})
      PROVE  Shapes'
  <2> DEFINE S == {s \in splits : s.account \in {a} /\ s.state # "y"}
  <2>1. \A s1 \in InState(S, "y") : SplitFormed(s1)
    BY InStateFormed DEF Shapes
  <2>2. QED
    BY <1>0, <1>3, <2>1 DEF ReconcileAccountSplits, Stays, Shapes
<1>4. ASSUME NEW a \in Account, CreateAccount(a)
      PROVE  Shapes'
  <2>1. PICK e \in AccountEdits :
            accounts' = [accounts EXCEPT ![a] =
                           [parent |-> e.parent, placeholder |-> e.placeholder,
                            imbalance |-> e.imbalance, ver |-> 1, base |-> 0]]
    BY <1>4 DEF CreateAccount
  <2>2. e \in Edit
    BY LedgerConstantsAssumption
  <2>3. accounts' \in [Account -> AccountRow \cup {Unborn, Gone}]
    BY <2>1, <2>2 DEF Shapes, AccountRow, Edit
  <2>4. QED
    BY <1>0, <1>4, <2>3 DEF CreateAccount, Stays, Shapes
<1>5. CASE UNCHANGED vars
  BY <1>0, <1>5 DEF vars, Shapes, SplitFormed
<1>6. QED
  BY <1>1, <1>2, <1>3, <1>4, <1>5

LEMMA InitShapes == Init => Shapes
<1> SUFFICES ASSUME Init PROVE Shapes
  OBVIOUS
<1>1. accounts \in [Account -> AccountRow \cup {Unborn, Gone}]
  BY LedgerConstantsAssumption DEF Init, AccountRow
<1>2. txs \in [Number -> TxRow \cup {Unborn, Gone}] /\ started \in 0..MaxStarts
  BY LedgerConstantsAssumption DEF Init
<1>3. QED
  BY <1>1, <1>2, NoRequestFormed DEF Init, Shapes

LEMMA StepShapes == Shapes /\ [Next]_vars => Shapes'
BY StartsKeepShapes, AutoBalanceShapes, ReadOnlyShapes, InsertSplitsShapes,
   AccountStepShapes, BatchShapes, OneStepShapes
DEF Next, RequestStep, Quiet

LEMMA ShapesAlways == Spec => []Shapes
BY InitShapes, StepShapes, PTL DEF Spec
-----------------------------------------------------------------------------
(* SingleAuthor: why the splits of a transaction are those of one request. *)

(* The number of a running request is its own, and nothing carries it yet. *)
Fresh(n) ==
    /\ n \in 1..started /\ txs[n] = Unborn
    /\ \A s \in splits : s.by # n

Numbered ==
    /\ \A r \in Request : req[r].pc # "idle" => Fresh(req[r].by)
    /\ \A q, r \in Request :
          q # r /\ req[q].pc # "idle" /\ req[r].pc # "idle" => req[q].by # req[r].by
    /\ \A n \in Number : n > started => txs[n] = Unborn /\ \A s \in splits : s.by # n

(* Two updates never hold one transaction's row. *)
LocksApart ==
    \A q, r \in Request : q # r /\ HoldsTx(q) /\ HoldsTx(r) => req[q].tx # req[r].tx

(* An update that has scanned or deleted has all the splits there are: the *)
(* row lock kept everybody else from writing in between. *)
Claims(t) ==
    /\ t.kind = "update" => txs[t.tx] # Unborn
    /\ t.pc = "wait" => t.list = Guids(SplitsOf(t.tx))
    /\ t.pc = "insert" /\ t.kind = "update" => t.del = Guids(SplitsOf(t.tx))
    /\ t.kind = "create" => t.del = {}

(* A number is the author of one transaction. *)
Owned == \A s1, s2 \in splits : s1.tx = s2.tx <=> s1.by = s2.by
NoneEmpty == \A t \in Number : Stored(txs[t]) <=> SplitsOf(t) # {}

AuthorInv ==
    /\ Numbered
    /\ LocksApart
    /\ \A r \in Request : Claims(req[r])
    /\ Owned
    /\ NoneEmpty

(* Changes of the states of splits are no changes to AuthorInv.            *)
SameKey(s1, s2) ==
    s1.tx = s2.tx /\ s1.by = s2.by /\ s1.pos = s2.pos /\ s1.account = s2.account
SameKeys ==
    /\ \A s1 \in splits' : \E s2 \in splits : SameKey(s1, s2)
    /\ \A s2 \in splits : \E s1 \in splits' : SameKey(s1, s2)

LEMMA KeysDecide ==
    ASSUME SameKeys
    PROVE  /\ \A t : Guids(SplitsOf(t))' = Guids(SplitsOf(t))
           /\ \A t : SplitsOf(t)' = {} <=> SplitsOf(t) = {}
           /\ \A n : (\A s \in splits' : s.by # n) <=> (\A s \in splits : s.by # n)
           /\ Owned => Owned'
<1>1. ASSUME NEW t
      PROVE  /\ Guids(SplitsOf(t))' = Guids(SplitsOf(t))
             /\ SplitsOf(t)' = {} <=> SplitsOf(t) = {}
  BY DEF SameKeys, SameKey, Guids, GuidOf, SplitsOf
<1>2. ASSUME NEW n
      PROVE  (\A s \in splits' : s.by # n) <=> (\A s \in splits : s.by # n)
  BY DEF SameKeys, SameKey
<1>3. Owned => Owned'
  BY DEF SameKeys, SameKey, Owned
<1>4. QED
  BY <1>1, <1>2, <1>3

LEMMA SameSplits == splits' = splits => SameKeys
BY DEF SameKeys, SameKey

LEMMA InStateKeys ==
    ASSUME Shapes, NEW S \in SUBSET splits, NEW state,
           splits' = (splits \ S) \cup InState(S, state)
    PROVE  SameKeys
<1>1. ASSUME NEW s \in S
      PROVE  SameKey([s EXCEPT !.state = state], s)
  BY DEF Shapes, SplitFormed, SameKey
<1>2. ASSUME NEW s1 \in splits'
      PROVE  \E s2 \in splits : SameKey(s1, s2)
  <2>1. CASE s1 \in splits
    BY <2>1 DEF SameKey
  <2>2. CASE s1 \in InState(S, state)
    <3>1. PICK s \in S : s1 = [s EXCEPT !.state = state]
      BY <2>2 DEF InState
    <3>2. QED
      BY <1>1, <3>1
  <2>3. QED
    BY <2>1, <2>2
<1>3. ASSUME NEW s2 \in splits
      PROVE  \E s1 \in splits' : SameKey(s1, s2)
  <2>1. CASE s2 \in S
    <3>1. [s2 EXCEPT !.state = state] \in splits'
      BY <2>1 DEF InState
    <3>2. QED
      BY <1>1, <2>1, <3>1
  <2>2. CASE s2 \notin S
    BY <2>2 DEF SameKey
  <2>3. QED
    BY <2>1, <2>2
<1>4. QED
  BY <1>2, <1>3 DEF SameKeys

Holds(t) == t.kind = "update" /\ t.pc \in {"clear", "wait", "insert"}

(* A request moves on, by a step that inserts and deletes nothing. *)
LEMMA AuthorMoves ==
    ASSUME Shapes, AuthorInv, NEW r \in Request, NEW u, req' = [req EXCEPT ![r] = u],
           SameKeys, UNCHANGED <<txs, started>>,
           Claims(u),
           u.pc # "idle" => req[r].pc # "idle" /\ u.by = req[r].by,
           Holds(u) => \/ HoldsTx(r) /\ u.tx = req[r].tx
                       \/ TxRowFree(Others(r), u.tx)
    PROVE  AuthorInv'
<1>1. \A q \in Request : req'[q] = IF q = r THEN u ELSE req[q]
  BY DEF Shapes
<1>2. Numbered'
  BY <1>1, KeysDecide DEF AuthorInv, Numbered, Fresh
<1>3. LocksApart'
  BY <1>1 DEF AuthorInv, LocksApart, HoldsTx, Holds, TxRowFree, Others
<1>4. \A t : Guids(SplitsOf(t))' = Guids(SplitsOf(t))
  BY KeysDecide
<1>5. ASSUME NEW q \in Request
      PROVE  Claims(req[q])'
  <2>1. Claims(req'[q])
    BY <1>1 DEF AuthorInv
  <2>2. QED
    BY <1>4, <2>1 DEF Claims
<1>6. Owned' /\ NoneEmpty'
  BY KeysDecide DEF AuthorInv, NoneEmpty, Stored
<1>7. QED
  BY <1>2, <1>3, <1>5, <1>6 DEF AuthorInv

LEMMA AuthorRests ==
    ASSUME Shapes, AuthorInv, NEW r \in Request, req' = Ended(r),
           SameKeys, UNCHANGED <<txs, started>>
    PROVE  AuthorInv'
<1>1. Claims(NoRequest) /\ ~Holds(NoRequest) /\ NoRequest.pc = "idle"
  BY DEF Claims, Holds, NoRequest
<1>2. QED
  BY <1>1, AuthorMoves DEF Ended

(* A new request gets a number nobody has. *)
LEMMA AuthorStarts ==
    ASSUME Shapes, AuthorInv, NEW r \in Request, NEW f, Start(r, f),
           Claims([f EXCEPT !.by = started + 1]),
           [f EXCEPT !.by = started + 1].by = started + 1,
           ~Holds([f EXCEPT !.by = started + 1])
    PROVE  AuthorInv'
<1> DEFINE u == [f EXCEPT !.by = started + 1]
<1>1. /\ \A q \in Request : req'[q] = IF q = r THEN u ELSE req[q]
      /\ started' = started + 1 /\ started < MaxStarts /\ req[r].pc = "idle"
      /\ UNCHANGED <<txs, splits>>
  BY DEF Start, Shapes
<1>2. /\ started \in Nat /\ started + 1 \in Number /\ started + 1 \in 1..started'
      /\ MaxStarts \in Nat
  BY <1>1, LedgerConstantsAssumption DEF Shapes, Number
<1>3. ASSUME NEW q \in Request, req'[q].pc # "idle", NEW n, n = req'[q].by
      PROVE  Fresh(n)'
  <2>1. CASE q = r
    <3>1. n = started + 1
      BY <1>1, <1>3, <2>1
    <3>2. txs[n] = Unborn /\ \A s \in splits : s.by # n
      BY <1>2, <3>1 DEF AuthorInv, Numbered
    <3>3. QED
      BY <1>1, <1>2, <3>1, <3>2 DEF Fresh
  <2>2. CASE q # r
    <3>1. Fresh(n)
      BY <1>1, <1>3, <2>2 DEF AuthorInv, Numbered
    <3>2. QED
      BY <1>1, <1>2, <3>1 DEF Fresh
  <2>3. QED
    BY <2>1, <2>2
<1>4. ASSUME NEW q \in Request, NEW p \in Request, q # p,
             req'[q].pc # "idle", req'[p].pc # "idle"
      PROVE  req'[q].by # req'[p].by
  <2>1. \A m \in 1..started : m # started + 1
    BY <1>2
  <2>2. \A o \in Request : req[o].pc # "idle" => req[o].by \in 1..started
    BY DEF AuthorInv, Numbered, Fresh
  <2>3. \A o \in Request : o # r => req'[o] = req[o]
    BY <1>1
  <2>4. req'[r].by = started + 1
    BY <1>1
  <2>5. CASE q = r
    BY <1>4, <2>1, <2>2, <2>3, <2>4, <2>5
  <2>6. CASE p = r
    BY <1>4, <2>1, <2>2, <2>3, <2>4, <2>6
  <2>7. CASE q # r /\ p # r
    BY <1>4, <2>3, <2>7 DEF AuthorInv, Numbered
  <2>8. QED
    BY <2>5, <2>6, <2>7
<1>5. \A n \in Number : n > started' => txs'[n] = Unborn /\ \A s \in splits' : s.by # n
  BY <1>1, <1>2 DEF AuthorInv, Numbered, Number
<1>6. Numbered'
  BY <1>3, <1>4, <1>5 DEF Numbered
<1>7. LocksApart'
  BY <1>1 DEF AuthorInv, LocksApart, HoldsTx, Holds
<1>8. ASSUME NEW q \in Request
      PROVE  Claims(req[q])'
  <2>1. Claims(req'[q])
    BY <1>1 DEF AuthorInv
  <2>2. QED
    BY <1>1, <2>1 DEF Claims, Guids, SplitsOf
<1>9. Owned' /\ NoneEmpty'
  BY <1>1 DEF AuthorInv, Owned, NoneEmpty, Stored, SplitsOf
<1>10. QED
  BY <1>6, <1>7, <1>8, <1>9 DEF AuthorInv

LEMMA StartsKeepAuthor ==
    ASSUME Shapes, AuthorInv, NEW r \in Request
    PROVE  /\ StartCreate(r) \/ StartBatch(r) => AuthorInv'
           /\ \A t \in Number : OpenForm(r, t) => AuthorInv'
           /\ \A a \in Account : OpenAccountForm(r, a) \/ CountUses(r, a) => AuthorInv'
<1> DEFINE n == started + 1
<1>1. ASSUME NEW l, Start(r, [NoRequest EXCEPT !.pc = "balance", !.kind = "create", !.lines = l])
      PROVE  AuthorInv'
  <2> DEFINE f == [NoRequest EXCEPT !.pc = "balance", !.kind = "create", !.lines = l]
  <2>1. /\ Claims([f EXCEPT !.by = n]) /\ ~Holds([f EXCEPT !.by = n])
        /\ [f EXCEPT !.by = n].by = n
    BY DEF Claims, Holds, NoRequest
  <2>2. QED
    BY <2>1, <1>1, AuthorStarts
<1>2. ASSUME NEW g1, NEW g2,
             Start(r, [NoRequest EXCEPT !.pc = "mark", !.kind = "batch",
                         !.todo = <<g1, g2>>, !.list = {g1, g2}])
      PROVE  AuthorInv'
  <2> DEFINE f == [NoRequest EXCEPT !.pc = "mark", !.kind = "batch",
                     !.todo = <<g1, g2>>, !.list = {g1, g2}]
  <2>1. /\ Claims([f EXCEPT !.by = n]) /\ ~Holds([f EXCEPT !.by = n])
        /\ [f EXCEPT !.by = n].by = n
    BY DEF Claims, Holds, NoRequest
  <2>2. QED
    BY <2>1, <1>2, AuthorStarts
<1>3. ASSUME NEW t \in Number, Stored(txs[t]), NEW v, NEW l,
             Start(r, [NoRequest EXCEPT !.pc = "lookup", !.kind = "update", !.tx = t,
                         !.seen = v, !.lines = l])
      PROVE  AuthorInv'
  <2> DEFINE f == [NoRequest EXCEPT !.pc = "lookup", !.kind = "update", !.tx = t,
                     !.seen = v, !.lines = l]
  <2>1. /\ Claims([f EXCEPT !.by = n]) /\ ~Holds([f EXCEPT !.by = n])
        /\ [f EXCEPT !.by = n].by = n
    BY <1>3 DEF Claims, Holds, NoRequest, Stored
  <2>2. QED
    BY <2>1, <1>3, AuthorStarts
<1>4. ASSUME NEW a, NEW v, NEW e,
             Start(r, [NoRequest EXCEPT !.pc = "edit", !.kind = "account", !.account = a,
                         !.seen = v, !.edit = e])
      PROVE  AuthorInv'
  <2> DEFINE f == [NoRequest EXCEPT !.pc = "edit", !.kind = "account", !.account = a,
                     !.seen = v, !.edit = e]
  <2>1. /\ Claims([f EXCEPT !.by = n]) /\ ~Holds([f EXCEPT !.by = n])
        /\ [f EXCEPT !.by = n].by = n
    BY DEF Claims, Holds, NoRequest
  <2>2. QED
    BY <2>1, <1>4, AuthorStarts
<1>5. ASSUME NEW a,
             Start(r, [NoRequest EXCEPT !.pc = "drop", !.kind = "account", !.account = a])
      PROVE  AuthorInv'
  <2> DEFINE f == [NoRequest EXCEPT !.pc = "drop", !.kind = "account", !.account = a]
  <2>1. /\ Claims([f EXCEPT !.by = n]) /\ ~Holds([f EXCEPT !.by = n])
        /\ [f EXCEPT !.by = n].by = n
    BY DEF Claims, Holds, NoRequest
  <2>2. QED
    BY <2>1, <1>5, AuthorStarts
<1>6. QED
  BY <1>1, <1>2, <1>3, <1>4, <1>5
  DEF StartCreate, StartBatch, OpenForm, OpenAccountForm, CountUses

(* The steps of a request that insert and delete nothing. *)
LEMMA StepsKeepAuthor ==
    ASSUME Shapes, AuthorInv, NEW r \in Request,
           \/ AutoBalance(r) \/ CheckAccounts(r) \/ LookUpTransaction(r)
           \/ BumpVersion(r) \/ ScanSplits(r) \/ DeleteSplits(r)
           \/ MarkSplit(r) \/ CommitBatch(r) \/ UpdateAccount(r) \/ DropAccount(r)
           \/ DeadlockVictim(r) \/ RequestFault(r)
    PROVE  AuthorInv'
<1> DEFINE t == req[r]
<1>0. Formed(t) /\ Staged(t) /\ Claims(t) /\ Holds(t) = HoldsTx(r)
  BY DEF Shapes, AuthorInv, Holds, HoldsTx
<1>1. UNCHANGED <<txs, started>>
  BY DEF AutoBalance, CheckAccounts, LookUpTransaction, BumpVersion, ScanSplits, DeleteSplits,
         MarkSplit, CommitBatch, UpdateAccount, DropAccount, DeadlockVictim, RequestFault, ReadOnly
<1>2. ~CommitBatch(r) => splits' = splits
  BY DEF AutoBalance, CheckAccounts, LookUpTransaction, BumpVersion, ScanSplits, DeleteSplits,
         MarkSplit, Marked, UpdateAccount, DropAccount, DeadlockVictim, RequestFault, ReadOnly
<1>3. SameKeys
  <2>1. CASE CommitBatch(r)
    BY <2>1, InStateKeys DEF CommitBatch
  <2>2. QED
    BY <1>2, <2>1, SameSplits
<1>4. ASSUME req' = Ended(r)
      PROVE  AuthorInv'
  BY <1>1, <1>3, <1>4, AuthorRests
<1>5. ASSUME NEW u, req' = [req EXCEPT ![r] = u], Claims(u), u.by = t.by, t.pc # "idle",
             Holds(u) => \/ Holds(t) /\ u.tx = t.tx
                         \/ TxRowFree(Others(r), u.tx)
      PROVE  AuthorInv'
  BY <1>0, <1>1, <1>3, <1>5, AuthorMoves
<1>6. ASSUME NEW l \in {"check", "insert", "bump", "clear"}, req' = At(r, l), t.pc # "idle",
             l = "insert" => t.kind = "create",
             l = "clear" => TxRowFree(Others(r), t.tx)
      PROVE  AuthorInv'
  <2> DEFINE u == [t EXCEPT !.pc = l]
  <2>1. Claims(u)
    BY <1>0, <1>6 DEF Claims, Formed
  <2>2. /\ req' = [req EXCEPT ![r] = u] /\ u.by = t.by
        /\ Holds(u) => TxRowFree(Others(r), u.tx)
    BY <1>0, <1>6 DEF At, Shapes, Formed, Holds
  <2>3. QED
    BY <2>1, <2>2, <1>5, <1>6
<1>7. CASE AutoBalance(r)
  <2>1. ASSUME NEW l, NEW p,
               req' = [req EXCEPT ![r].pc = "check", ![r].lines = l, ![r].pend = p]
        PROVE  AuthorInv'
    <3> DEFINE u == [t EXCEPT !.pc = "check", !.lines = l, !.pend = p]
    <3>1. Claims(u) /\ u.by = t.by /\ ~Holds(u)
      BY <1>0, <1>7 DEF AutoBalance, Claims, Formed, Holds
    <3>2. req' = [req EXCEPT ![r] = u] /\ t.pc # "idle"
      BY <1>7, <2>1 DEF AutoBalance, Shapes
    <3>3. QED
      BY <3>1, <3>2, <1>5
  <2>2. QED
    BY <1>4, <1>7, <2>1 DEF AutoBalance
<1>8. CASE CheckAccounts(r)
  BY <1>4, <1>6, <1>8 DEF CheckAccounts
<1>9. CASE LookUpTransaction(r)
  BY <1>4, <1>6, <1>9 DEF LookUpTransaction
<1>10. CASE BumpVersion(r)
  BY <1>6, <1>10 DEF BumpVersion
<1>11. CASE ScanSplits(r)
  <2> DEFINE u == [t EXCEPT !.pc = "wait", !.list = Guids(SplitsOf(t.tx))]
  <2>1. Claims(u) /\ u.by = t.by /\ u.tx = t.tx /\ Holds(t)
    BY <1>0, <1>11 DEF ScanSplits, Claims, Formed, Holds, Staged
  <2>2. req' = [req EXCEPT ![r] = u] /\ t.pc # "idle"
    BY <1>11 DEF ScanSplits, Shapes
  <2>3. QED
    BY <2>1, <2>2, <1>5
<1>12. CASE DeleteSplits(r)
  <2> DEFINE u == [t EXCEPT !.pc = "insert", !.del = t.list]
  <2>1. Claims(u) /\ u.by = t.by /\ u.tx = t.tx /\ Holds(t)
    BY <1>0, <1>12 DEF DeleteSplits, Claims, Formed, Holds, Staged
  <2>2. req' = [req EXCEPT ![r] = u] /\ t.pc # "idle"
    BY <1>12 DEF DeleteSplits, Shapes
  <2>3. QED
    BY <2>1, <2>2, <1>5
<1>13. CASE MarkSplit(r)
  <2> DEFINE u == [t EXCEPT !.todo = Tail(t.todo),
                            !.wr = @ \cup ({Head(t.todo)} \cap
                                           Guids({s \in splits : s.state # "y"}))]
  <2>1. Claims(u) /\ u.by = t.by /\ ~Holds(u)
    BY <1>0, <1>13 DEF MarkSplit, Claims, Formed, Holds
  <2>2. req' = [req EXCEPT ![r] = u] /\ t.pc # "idle"
    BY <1>13 DEF MarkSplit, Shapes
  <2>3. QED
    BY <2>1, <2>2, <1>5
<1>14. CASE CommitBatch(r) \/ UpdateAccount(r) \/ DropAccount(r)
            \/ DeadlockVictim(r) \/ RequestFault(r)
  BY <1>4, <1>14 DEF CommitBatch, UpdateAccount, DropAccount, DeadlockVictim, RequestFault
<1>15. QED
  BY <1>7, <1>8, <1>9, <1>10, <1>11, <1>12, <1>13, <1>14

(* The INSERTs of a create or an update: its splits take the place of all  *)
(* the transaction had. *)
LEMMA ReplacesAll ==
    ASSUME Shapes, AuthorInv, NEW r \in Request, req[r].pc = "insert",
           NEW n, n = IF req[r].kind = "create" THEN req[r].by ELSE req[r].tx
    PROVE  {s \in splits : GuidOf(s) \notin req[r].del} = {s \in splits : s.tx # n}
<1> DEFINE t == req[r]
           new == t.kind = "create"
<1>1. /\ Formed(t) /\ Staged(t) /\ Claims(t) /\ Fresh(t.by)
      /\ t.kind \in {"create", "update"}
  BY DEF Shapes, AuthorInv, Numbered, Staged
<1>2. CASE new
  <2>1. n \in Number /\ txs[n] = Unborn /\ t.del = {}
    BY <1>1, <1>2 DEF Fresh, Claims, Staged
  <2>2. SplitsOf(n) = {}
    BY <2>1 DEF AuthorInv, NoneEmpty, Stored
  <2>3. QED
    BY <2>1, <2>2 DEF SplitsOf
<1>3. CASE ~new
  <2>1. t.del = Guids(SplitsOf(n))
    BY <1>1, <1>3 DEF Claims
  <2>2. ASSUME NEW s \in splits
        PROVE  GuidOf(s) \in t.del <=> s.tx = n
    <3>1. s.tx = n => GuidOf(s) \in t.del
      BY <2>1 DEF Guids, SplitsOf
    <3>2. ASSUME GuidOf(s) \in t.del
          PROVE  s.tx = n
      <4>1. PICK s1 \in splits : s1.tx = n /\ GuidOf(s) = GuidOf(s1)
        BY <2>1, <3>2 DEF Guids, SplitsOf
      <4>2. s.by = s1.by
        BY <4>1 DEF GuidOf
      <4>3. QED
        BY <4>1, <4>2 DEF AuthorInv, Owned
    <3>3. QED
      BY <3>1, <3>2
  <2>3. QED
    BY <2>2
<1>4. QED
  BY <1>2, <1>3

LEMMA InsertKeepsAuthor ==
    ASSUME Shapes, AuthorInv, NEW r \in Request, InsertSplits(r)
    PROVE  AuthorInv'
<1> DEFINE t == req[r]
           new == t.kind = "create"
           n == IF new THEN t.by ELSE t.tx
           row == IF new THEN [ver |-> 1, base |-> 0]
                  ELSE [ver |-> txs[n].ver + 1, base |-> t.seen]
           W == Written(r, n)
<1>0. /\ Formed(t) /\ Staged(t) /\ Claims(t) /\ t.pc = "insert"
      /\ t.kind \in {"create", "update"} /\ Used(t.lines) # {} /\ n \in Number
      /\ req' = Ended(r) /\ UNCHANGED started
  BY DEF InsertSplits, Shapes, AuthorInv, Staged
<1>1. CASE UNCHANGED <<txs, splits>>
  BY <1>0, <1>1, AuthorRests, SameSplits
<1>2. CASE /\ new \/ Stored(txs[n])
           /\ txs' = [txs EXCEPT ![n] = row]
           /\ splits' = {s \in splits : GuidOf(s) \notin t.del} \cup W
  <2>1. Fresh(t.by)
    BY <1>0 DEF AuthorInv, Numbered
  <2>2. row \in TxRow /\ txs' = [m \in Number |-> IF m = n THEN row ELSE txs[m]]
    <3>1. row \in TxRow
      BY <1>0, <1>2 DEF TxRow, Shapes, Stored, Formed
    <3>2. QED
      BY <1>0, <1>2, <3>1 DEF Shapes
  <2>3. row # Unborn /\ Stored(row)
    BY <2>2, LedgerSentinelAssumption DEF Stored
  <2>4. new => n = t.by /\ txs[n] = Unborn /\ SplitsOf(n) = {} /\ t.del = {}
    BY <1>0, <2>1 DEF AuthorInv, NoneEmpty, Stored, Fresh, Claims
  <2>5. ~new => HoldsTx(r) /\ n = t.tx /\ txs[n] # Unborn /\ t.del = Guids(SplitsOf(n))
    BY <1>0 DEF HoldsTx, Claims
  <2>6. {s \in splits : GuidOf(s) \notin t.del} = {s \in splits : s.tx # n}
    <3>1. PICK m : m = n
      OBVIOUS
    <3>2. QED
      BY <1>0, <3>1, ReplacesAll
  <2>7. splits' = {s \in splits : s.tx # n} \cup W
    BY <1>2, <2>6
  <2>8. W # {} /\ \A w \in W : w.tx = n /\ w.by = t.by
    <3>1. PICK k \in Used(t.lines) : TRUE
      BY <1>0
    <3>2. [tx |-> n, by |-> t.by, pos |-> k, account |-> t.lines[k].account,
           value |-> t.lines[k].value, state |-> "n"] \in W
      BY <3>1 DEF Written
    <3>3. \A w \in W : w.tx = n /\ w.by = t.by
      BY DEF Written
    <3>4. QED
      BY <3>2, <3>3
  <2>9. \A q \in Request : req'[q] = IF q = r THEN NoRequest ELSE req[q]
    BY <1>0 DEF Ended, Shapes
  <2>10. NoRequest.pc = "idle" /\ NoRequest.kind = "none" /\ NoRequest.del = {}
    BY DEF NoRequest
  <2>11. ASSUME NEW m, Fresh(m), m # t.by
         PROVE  Fresh(m)'
    <3>1. m # n
      BY <2>4, <2>5, <2>11 DEF Fresh
    <3>2. \A s \in splits' : s.by # m
      BY <2>7, <2>8, <2>11 DEF Fresh
    <3>3. txs'[m] = Unborn
      BY <1>2, <2>11, <3>1 DEF Fresh, Shapes
    <3>4. QED
      BY <1>0, <2>11, <3>2, <3>3 DEF Fresh
  <2>12. Numbered'
    <3>1. ASSUME NEW q \in Request, req'[q].pc # "idle", NEW m, m = req'[q].by
          PROVE  Fresh(m)'
      BY <1>0, <2>9, <2>10, <2>11, <3>1 DEF AuthorInv, Numbered
    <3>2. ASSUME NEW q \in Request, NEW p \in Request, q # p,
                 req'[q].pc # "idle", req'[p].pc # "idle"
          PROVE  req'[q].by # req'[p].by
      BY <2>9, <2>10, <3>2 DEF AuthorInv, Numbered
    <3>3. ASSUME NEW m \in Number, m > started
          PROVE  txs'[m] = Unborn /\ \A s \in splits' : s.by # m
      <4>1. m # t.by
        BY <2>1, <3>3 DEF Fresh, Number, Shapes
      <4>2. m # n
        BY <2>4, <2>5, <3>3, <4>1 DEF AuthorInv, Numbered
      <4>3. txs[m] = Unborn /\ \A s \in splits : s.by # m
        BY <3>3 DEF AuthorInv, Numbered
      <4>4. QED
        BY <2>2, <2>7, <2>8, <4>1, <4>2, <4>3
    <3>4. QED
      BY <1>0, <3>1, <3>2, <3>3 DEF Numbered
  <2>13. LocksApart'
    BY <2>9, <2>10 DEF AuthorInv, LocksApart, HoldsTx
  <2>14. ASSUME NEW q \in Request
         PROVE  Claims(req[q])'
    <3> DEFINE m == req[q].tx
    <3>1. CASE q = r
      BY <2>9, <2>10, <3>1 DEF Claims, NoRequest
    <3>2. CASE q # r
      <4>1. req'[q] = req[q] /\ Claims(req[q]) /\ Staged(req[q])
        BY <2>9, <3>2 DEF AuthorInv, Shapes
      <4>2. req[q].kind = "update" => m \in Number /\ txs'[m] # Unborn
        BY <2>2, <2>3, <4>1 DEF Claims, Staged
      <4>3. ASSUME HoldsTx(q)
            PROVE  m # n
        <5>1. CASE new
          BY <2>4, <4>1, <4>3, <5>1 DEF HoldsTx, Claims
        <5>2. CASE ~new
          BY <2>5, <3>2, <4>3, <5>2 DEF AuthorInv, LocksApart
        <5>3. QED
          BY <5>1, <5>2
      <4>4. ASSUME NEW o, o # n
            PROVE  Guids(SplitsOf(o))' = Guids(SplitsOf(o))
        <5>1. SplitsOf(o)' = SplitsOf(o)
          BY <2>7, <2>8, <4>4 DEF SplitsOf
        <5>2. QED
          BY <5>1 DEF Guids, GuidOf
      <4>5. HoldsTx(q) => Guids(SplitsOf(m))' = Guids(SplitsOf(m))
        <5>1. \A o : o = m /\ o # n => Guids(SplitsOf(o))' = Guids(SplitsOf(o))
          BY <4>4
        <5>2. QED
          BY <4>1, <4>3, <5>1
      <4>6. QED
        BY <4>1, <4>2, <4>5 DEF Claims, HoldsTx, Staged
    <3>3. QED
      BY <3>1, <3>2
  <2>15. Owned'
    <3>1. \A s \in splits : s.by # t.by
      BY <2>1 DEF Fresh
    <3>2. QED
      BY <2>7, <2>8, <3>1 DEF AuthorInv, Owned
  <2>16. NoneEmpty'
    <3>1. ASSUME NEW m \in Number
          PROVE  Stored(txs'[m]) <=> \E s \in splits' : s.tx = m
      <4>1. CASE m = n
        BY <2>2, <2>3, <2>7, <2>8, <4>1
      <4>2. CASE m # n
        BY <2>2, <2>7, <2>8, <4>2 DEF AuthorInv, NoneEmpty, SplitsOf
      <4>3. QED
        BY <4>1, <4>2
    <3>2. QED
      BY <3>1 DEF NoneEmpty, Stored, SplitsOf
  <2>17. QED
    BY <2>12, <2>13, <2>14, <2>15, <2>16 DEF AuthorInv
<1>3. QED
  BY <1>1, <1>2 DEF InsertSplits

(* A delete takes all the splits, and finds no update in its way. *)
LEMMA DeleteKeepsAuthor ==
    ASSUME Shapes, AuthorInv, NEW t \in Number, DeleteTransaction(t)
    PROVE  AuthorInv'
<1>1. /\ Stored(txs[t]) /\ \A q \in Request : HoldsTx(q) => req[q].tx # t
      /\ txs' = [m \in Number |-> IF m = t THEN Gone ELSE txs[m]]
      /\ splits' = {s \in splits : s.tx # t}
      /\ UNCHANGED <<req, started>>
  BY DEF DeleteTransaction, TxRowFree, SplitsOf, Stays, Shapes
<1>2. \A m \in Number : txs[m] = Unborn => m # t
  BY <1>1 DEF Stored
<1>3. ASSUME NEW m, Fresh(m)
      PROVE  Fresh(m)'
  <2>1. m \in Number
    BY <1>3, LedgerConstantsAssumption DEF Fresh, Shapes, Number
  <2>2. QED
    BY <1>1, <1>2, <1>3, <2>1 DEF Fresh
<1>4. Numbered'
  <2>1. ASSUME NEW q \in Request, req'[q].pc # "idle", NEW m, m = req'[q].by
        PROVE  Fresh(m)'
    BY <1>1, <1>3, <2>1 DEF AuthorInv, Numbered
  <2>2. QED
    BY <1>1, <1>2, <2>1 DEF AuthorInv, Numbered
<1>5. LocksApart'
  BY <1>1 DEF AuthorInv, LocksApart, HoldsTx
<1>6. ASSUME NEW q \in Request
      PROVE  Claims(req[q])'
  <2>1. req'[q] = req[q] /\ Claims(req[q]) /\ Staged(req[q])
    BY <1>1 DEF AuthorInv, Shapes
  <2>2. \A o : o # t => Guids(SplitsOf(o))' = Guids(SplitsOf(o))
    <3>1. \A o : o # t => SplitsOf(o)' = SplitsOf(o)
      BY <1>1 DEF SplitsOf
    <3>2. QED
      BY <3>1 DEF Guids, GuidOf
  <2>3. req[q].kind = "update" => txs'[req[q].tx] # Unborn
    BY <1>1, <2>1, LedgerSentinelAssumption DEF Claims, Staged
  <2>4. HoldsTx(q) => req[q].tx # t
    BY <1>1
  <2>5. QED
    BY <2>1, <2>2, <2>3, <2>4 DEF Claims, HoldsTx, Staged
<1>7. Owned'
  BY <1>1 DEF AuthorInv, Owned
<1>8. NoneEmpty'
  BY <1>1 DEF AuthorInv, NoneEmpty, Stored, SplitsOf
<1>9. QED
  BY <1>4, <1>5, <1>6, <1>7, <1>8 DEF AuthorInv

LEMMA OthersKeepAuthor ==
    ASSUME Shapes, AuthorInv,
           \/ \E s \in splits, state \in {"n", "c"} : ToggleSplitAcknowledge(s, state)
           \/ \E a \in Account : ReconcileAccountSplits({a}) \/ CreateAccount(a)
           \/ UNCHANGED vars
    PROVE  AuthorInv'
<1>1. SameKeys
  <2>1. ASSUME NEW s \in splits, NEW state \in {"n", "c"}, ToggleSplitAcknowledge(s, state)
        PROVE  SameKeys
    BY <2>1, InStateKeys DEF ToggleSplitAcknowledge
  <2>2. ASSUME NEW a \in Account, ReconcileAccountSplits({a})
        PROVE  SameKeys
    BY <2>2, InStateKeys DEF ReconcileAccountSplits
  <2>3. ASSUME (\E a \in Account : CreateAccount(a)) \/ UNCHANGED vars
        PROVE  SameKeys
    BY <2>3, SameSplits DEF CreateAccount, vars
  <2>4. QED
    BY <2>1, <2>2, <2>3
<1>2. UNCHANGED <<req, txs, started>>
  BY DEF ToggleSplitAcknowledge, ReconcileAccountSplits, CreateAccount, Stays, vars
<1>3. ASSUME NEW q \in Request
      PROVE  Claims(req[q])'
  <2>1. \A o : Guids(SplitsOf(o))' = Guids(SplitsOf(o))
    BY <1>1, KeysDecide
  <2>2. Claims(req[q])
    BY DEF AuthorInv
  <2>3. QED
    BY <1>2, <2>1, <2>2 DEF Claims
<1>4. Numbered' /\ LocksApart'
  BY <1>1, <1>2, KeysDecide DEF AuthorInv, Numbered, Fresh, LocksApart, HoldsTx
<1>5. Owned' /\ NoneEmpty'
  BY <1>1, <1>2, KeysDecide DEF AuthorInv, NoneEmpty, Stored
<1>6. QED
  BY <1>3, <1>4, <1>5 DEF AuthorInv

LEMMA InitAuthor == Init => AuthorInv
<1> SUFFICES ASSUME Init PROVE AuthorInv
  OBVIOUS
<1>1. /\ \A r \in Request : req[r] = NoRequest
      /\ \A t \in Number : txs[t] = Unborn
      /\ splits = {}
  BY DEF Init
<1>2. Numbered /\ LocksApart
  BY <1>1 DEF Numbered, LocksApart, HoldsTx, NoRequest
<1>3. \A r \in Request : Claims(req[r])
  BY <1>1 DEF Claims, NoRequest
<1>4. Owned /\ NoneEmpty
  BY <1>1 DEF Owned, NoneEmpty, Stored, SplitsOf
<1>5. QED
  BY <1>2, <1>3, <1>4 DEF AuthorInv

LEMMA StepAuthor == Shapes /\ AuthorInv /\ [Next]_vars => AuthorInv'
BY StartsKeepAuthor, StepsKeepAuthor, InsertKeepsAuthor, DeleteKeepsAuthor,
   OthersKeepAuthor
DEF Next, RequestStep, Quiet

(* Whatever creates, updates and deletes race, and wherever they fail: the *)
(* splits of a transaction are all of one request, and a transaction is    *)
(* there exactly while it has splits.                                      *)
THEOREM OneAuthor == Spec => []SingleAuthor
<1>1. AuthorInv => SingleAuthor
  BY DEF AuthorInv, Owned, NoneEmpty, SingleAuthor
<1>2. QED
  BY <1>1, StepAuthor, InitAuthor, ShapesAlways, PTL DEF Spec
-----------------------------------------------------------------------------
(* NoOrphan: the foreign keys, and the deletion that relies on them.       *)

OrphanInv == Root \in Existing /\ NoOrphan

LEMMA RowsAreStored ==
    ASSUME NEW row \in AccountRow
    PROVE  Stored(row)
BY LedgerSentinelAssumption DEF Stored

LEMMA InitOrphan == Init => OrphanInv
<1> SUFFICES ASSUME Init PROVE OrphanInv
  OBVIOUS
<1>1. \A a \in Seeded : accounts[a] \in AccountRow /\ accounts[a].parent \in {Root, None}
  BY LedgerConstantsAssumption DEF Init, AccountRow
<1>2. \A a \in Account : a \in Existing <=> a \in Seeded
  <2>1. \A a \in Account : a \notin Seeded => accounts[a] = Unborn
    BY DEF Init
  <2>2. QED
    BY <1>1, <2>1, RowsAreStored, LedgerConstantsAssumption DEF Existing, Stored
<1>3. splits = {}
  BY DEF Init
<1>4. QED
  BY <1>1, <1>2, <1>3, LedgerConstantsAssumption DEF OrphanInv, NoOrphan, Existing

(* An account row is written: new, or over one that is there. *)
LEMMA WriteAccount ==
    ASSUME Shapes, OrphanInv, NEW a \in Account, NEW row \in AccountRow,
           row.parent \in Existing,
           accounts' = [accounts EXCEPT ![a] = row],
           \A s \in splits' : s.account \in Existing \cup {a}
    PROVE  OrphanInv'
<1>1. /\ \A b \in Account : accounts'[b] = IF b = a THEN row ELSE accounts[b]
      /\ Stored(row)
  BY RowsAreStored DEF Shapes
<1>2. Existing' = Existing \cup {a}
  BY <1>1 DEF Existing, Stored
<1>3. QED
  BY <1>1, <1>2 DEF OrphanInv, NoOrphan

LEMMA SplitsMove ==
    ASSUME OrphanInv, UNCHANGED accounts,
           \A s1 \in splits' : \E s2 \in splits : s1.account = s2.account
    PROVE  OrphanInv'
BY DEF OrphanInv, NoOrphan, Existing, Stored

LEMMA InsertKeepsAccounts ==
    ASSUME Shapes, OrphanInv, NEW r \in Request, InsertSplits(r)
    PROVE  OrphanInv'
<1> DEFINE t == req[r]
           n == IF t.kind = "create" THEN t.by ELSE t.tx
           row == [parent |-> Root, placeholder |-> FALSE, imbalance |-> TRUE,
                   ver |-> 1, base |-> 0]
<1>0. Formed(t)
  BY DEF Shapes
<1>1. CASE UNCHANGED <<accounts, splits>>
  BY <1>1, SplitsMove
<1>2. CASE /\ AccountsThere(r)
           /\ splits' = {s \in splits : GuidOf(s) \notin t.del} \cup Written(r, n)
           /\ accounts' = IF t.pend = None THEN accounts
                          ELSE [accounts EXCEPT ![t.pend] = row]
  <2>1. \A s \in Written(r, n) : s.account \in Account /\ s.account \in Existing \cup {t.pend}
    BY <1>0, <1>2 DEF Written, AccountsThere, Formed, Filled
  <2>2. \A s \in splits' : s.account \in Account /\ s.account \in Existing \cup {t.pend}
    BY <1>2, <2>1 DEF OrphanInv, NoOrphan, Existing
  <2>3. CASE t.pend = None
    <3>1. \A s \in splits' : s.account \in Existing
      BY <2>2, <2>3, LedgerSentinelAssumption
    <3>2. QED
      BY <1>2, <2>3, <3>1 DEF OrphanInv, NoOrphan, Existing, Stored
  <2>4. CASE t.pend # None
    <3>1. row \in AccountRow /\ row.parent \in Existing
      BY LedgerConstantsAssumption DEF AccountRow, OrphanInv
    <3>2. t.pend \in Account
      BY <1>0, <2>4 DEF Formed
    <3>3. QED
      BY <1>2, <2>2, <2>4, <3>1, <3>2, WriteAccount
  <2>5. QED
    BY <2>3, <2>4
<1>3. QED
  BY <1>1, <1>2 DEF InsertSplits

LEMMA AccountStepsKeepAccounts ==
    ASSUME Shapes, OrphanInv
    PROVE  /\ \A a \in Account : CreateAccount(a) => OrphanInv'
           /\ \A r \in Request : UpdateAccount(r) \/ DropAccount(r) => OrphanInv'
<1>0. ASSUME UNCHANGED <<accounts, splits>>
      PROVE  OrphanInv'
  BY <1>0, SplitsMove
<1>1. ASSUME NEW a \in Account, CreateAccount(a)
      PROVE  OrphanInv'
  <2>1. PICK e \in AccountEdits :
            /\ e.parent \in Existing
            /\ accounts' = [accounts EXCEPT ![a] =
                              [parent |-> e.parent, placeholder |-> e.placeholder,
                               imbalance |-> e.imbalance, ver |-> 1, base |-> 0]]
    BY <1>1 DEF CreateAccount
  <2> DEFINE row == [parent |-> e.parent, placeholder |-> e.placeholder,
                     imbalance |-> e.imbalance, ver |-> 1, base |-> 0]
  <2>2. row \in AccountRow /\ row.parent \in Existing
    BY <2>1, LedgerConstantsAssumption DEF AccountRow, Edit
  <2>3. \A s \in splits' : s.account \in Existing \cup {a}
    BY <1>1 DEF CreateAccount, OrphanInv, NoOrphan
  <2>4. QED
    BY <2>1, <2>2, <2>3, WriteAccount
<1>2. ASSUME NEW r \in Request, UpdateAccount(r)
      PROVE  OrphanInv'
  <2> DEFINE t == req[r]
             a == t.account
             e == t.edit
             row == [parent |-> e.parent, placeholder |-> e.placeholder,
                     imbalance |-> e.imbalance, ver |-> accounts[a].ver + 1, base |-> t.seen]
  <2>1. Formed(t) /\ Staged(t) /\ t.pc = "edit" /\ UNCHANGED splits
    BY <1>2 DEF UpdateAccount, Shapes
  <2>2. CASE a \in Existing /\ e.parent \in Existing /\ accounts' = [accounts EXCEPT ![a] = row]
    <3>1. row \in AccountRow /\ row.parent \in Existing /\ a \in Account
      BY <2>1, <2>2 DEF Shapes, Existing, Stored, AccountRow, Staged, Formed, Edit
    <3>2. \A s \in splits' : s.account \in Existing \cup {a}
      BY <2>1 DEF OrphanInv, NoOrphan
    <3>3. QED
      BY <2>2, <3>1, <3>2, WriteAccount
  <2>3. CASE accounts' = accounts
    BY <1>0, <2>1, <2>3
  <2>4. QED
    BY <1>2, <2>2, <2>3 DEF UpdateAccount
<1>3. ASSUME NEW r \in Request, DropAccount(r)
      PROVE  OrphanInv'
  <2> DEFINE a == req[r].account
  <2>1. UNCHANGED splits
    BY <1>3 DEF DropAccount
  <2>2. CASE a \in Existing /\ Unreferenced(a) /\ accounts' = [accounts EXCEPT ![a] = Gone]
    <3>1. \A b \in Account : accounts'[b] = IF b = a THEN Gone ELSE accounts[b]
      BY <2>2 DEF Shapes
    <3>2. Existing' = Existing \ {a}
      BY <3>1 DEF Existing, Stored
    <3>3. QED
      BY <2>1, <2>2, <3>1, <3>2 DEF OrphanInv, NoOrphan, Unreferenced, Existing
  <2>3. CASE accounts' = accounts
    BY <1>0, <2>1, <2>3
  <2>4. QED
    BY <1>3, <2>2, <2>3 DEF DropAccount
<1>4. QED
  BY <1>1, <1>2, <1>3

(* The steps that write no account and add no split.                       *)
LEMMA OthersKeepAccounts ==
    ASSUME Shapes, OrphanInv,
           \/ \E r \in Request :
                 \/ StartCreate(r) \/ StartBatch(r) \/ AutoBalance(r) \/ CheckAccounts(r)
                 \/ LookUpTransaction(r) \/ BumpVersion(r) \/ ScanSplits(r) \/ DeleteSplits(r)
                 \/ MarkSplit(r) \/ CommitBatch(r) \/ DeadlockVictim(r) \/ RequestFault(r)
                 \/ \E t \in Number : OpenForm(r, t)
                 \/ \E a \in Account : OpenAccountForm(r, a) \/ CountUses(r, a)
           \/ \E t \in Number : DeleteTransaction(t)
           \/ \E s \in splits, state \in {"n", "c"} : ToggleSplitAcknowledge(s, state)
           \/ \E a \in Account : ReconcileAccountSplits({a})
           \/ UNCHANGED vars
    PROVE  OrphanInv'
<1>0. UNCHANGED accounts
  BY DEF StartCreate, StartBatch, AutoBalance, CheckAccounts, LookUpTransaction, BumpVersion,
         ScanSplits, DeleteSplits, MarkSplit, CommitBatch, DeadlockVictim, RequestFault, OpenForm,
         OpenAccountForm, CountUses, Start, ReadOnly, DeleteTransaction, ToggleSplitAcknowledge,
         ReconcileAccountSplits, vars
<1>1. ASSUME SameKeys
      PROVE  OrphanInv'
  BY <1>0, <1>1, SplitsMove DEF SameKeys, SameKey
<1>2. ASSUME splits' \subseteq splits
      PROVE  OrphanInv'
  BY <1>0, <1>2, SplitsMove
<1>3. ASSUME NEW r \in Request, CommitBatch(r)
      PROVE  OrphanInv'
  BY <1>1, <1>3, InStateKeys DEF CommitBatch
<1>4. ASSUME NEW s \in splits, NEW state \in {"n", "c"}, ToggleSplitAcknowledge(s, state)
      PROVE  OrphanInv'
  BY <1>1, <1>4, InStateKeys DEF ToggleSplitAcknowledge
<1>5. ASSUME NEW a \in Account, ReconcileAccountSplits({a})
      PROVE  OrphanInv'
  BY <1>1, <1>5, InStateKeys DEF ReconcileAccountSplits
<1>6. QED
  BY <1>2, <1>3, <1>4, <1>5
  DEF StartCreate, StartBatch, AutoBalance, CheckAccounts, LookUpTransaction, BumpVersion,
      ScanSplits, DeleteSplits, MarkSplit, Marked, DeadlockVictim, RequestFault, OpenForm,
      OpenAccountForm, CountUses, Start, ReadOnly, DeleteTransaction, vars

(* Whatever is written between the counts of DeleteAccount and its DELETE, *)
(* no split and no child loses its account.                                *)
THEOREM NothingOrphaned == Spec => []NoOrphan
<1>1. Shapes /\ OrphanInv /\ [Next]_vars => OrphanInv'
  BY InsertKeepsAccounts, AccountStepsKeepAccounts, OthersKeepAccounts
  DEF Next, RequestStep, Quiet
<1>2. OrphanInv => NoOrphan
  BY DEF OrphanInv
<1>3. QED
  BY <1>1, <1>2, InitOrphan, ShapesAlways, PTL DEF Spec
-----------------------------------------------------------------------------
(* The version clause of UpdateAccount.                                    *)

LEMMA RowWritten ==
    ASSUME Shapes, AccountEditsSerial, NEW a, NEW row, row.ver = row.base + 1,
           accounts' = [accounts EXCEPT ![a] = row]
    PROVE  AccountEditsSerial'
BY DEF Shapes, AccountEditsSerial, Existing, Stored

(* An edit is never stored over a version its form did not show.           *)
THEOREM EditsSerial == Spec => []AccountEditsSerial
<1>1. Init => AccountEditsSerial
  <2> SUFFICES ASSUME Init PROVE AccountEditsSerial
    OBVIOUS
  <2>1. \A a \in Account :
            accounts[a] = Unborn \/ (accounts[a].ver = 1 /\ accounts[a].base = 0)
    BY DEF Init
  <2>2. QED
    BY <2>1 DEF AccountEditsSerial, Existing, Stored
<1>2. ASSUME Shapes, AccountEditsSerial, [Next]_vars
      PROVE  AccountEditsSerial'
  <2>1. ASSUME NEW r \in Request, InsertSplits(r)
        PROVE  AccountEditsSerial'
    <3> DEFINE row == [parent |-> Root, placeholder |-> FALSE, imbalance |-> TRUE,
                       ver |-> 1, base |-> 0]
    <3>1. accounts' = accounts \/ accounts' = [accounts EXCEPT ![req[r].pend] = row]
      BY <2>1 DEF InsertSplits
    <3>2. row.ver = row.base + 1
      OBVIOUS
    <3>3. QED
      BY <1>2, <3>1, <3>2, RowWritten DEF AccountEditsSerial, Existing, Stored
  <2>2. ASSUME NEW a \in Account, CreateAccount(a)
        PROVE  AccountEditsSerial'
    <3>1. PICK e \in AccountEdits :
              accounts' = [accounts EXCEPT ![a] =
                             [parent |-> e.parent, placeholder |-> e.placeholder,
                              imbalance |-> e.imbalance, ver |-> 1, base |-> 0]]
      BY <2>2 DEF CreateAccount
    <3> DEFINE row == [parent |-> e.parent, placeholder |-> e.placeholder,
                       imbalance |-> e.imbalance, ver |-> 1, base |-> 0]
    <3>2. row.ver = row.base + 1
      OBVIOUS
    <3>3. QED
      BY <1>2, <3>1, <3>2, RowWritten
  <2>3. ASSUME NEW r \in Request, UpdateAccount(r)
        PROVE  AccountEditsSerial'
    <3> DEFINE t == req[r]
               a == t.account
               e == t.edit
               row == [parent |-> e.parent, placeholder |-> e.placeholder,
                       imbalance |-> e.imbalance, ver |-> accounts[a].ver + 1, base |-> t.seen]
    <3>1. CASE accounts[a].ver = t.seen /\ accounts' = [accounts EXCEPT ![a] = row]
      <4>1. row.ver = row.base + 1
        BY <3>1
      <4>2. QED
        BY <1>2, <3>1, <4>1, RowWritten
    <3>2. CASE accounts' = accounts
      BY <1>2, <3>2 DEF AccountEditsSerial, Existing, Stored
    <3>3. QED
      BY <2>3, <3>1, <3>2 DEF UpdateAccount, Current
  <2>4. ASSUME NEW r \in Request, DropAccount(r)
        PROVE  AccountEditsSerial'
    <3>1. \/ accounts' = accounts
          \/ accounts' = [accounts EXCEPT ![req[r].account] = Gone]
      BY <2>4 DEF DropAccount
    <3>2. QED
      BY <1>2, <3>1 DEF Shapes, AccountEditsSerial, Existing, Stored
  <2>5. \/ UNCHANGED accounts
        \/ \E r \in Request : InsertSplits(r) \/ UpdateAccount(r) \/ DropAccount(r)
        \/ \E a \in Account : CreateAccount(a)
    BY <1>2
    DEF Next, RequestStep, Quiet, StartCreate, StartBatch, AutoBalance, CheckAccounts,
        LookUpTransaction, BumpVersion, ScanSplits, DeleteSplits, MarkSplit, CommitBatch,
        DeadlockVictim, RequestFault, OpenForm, OpenAccountForm, CountUses, Start, ReadOnly,
        DeleteTransaction, ToggleSplitAcknowledge, ReconcileAccountSplits, vars
  <2>6. UNCHANGED accounts => AccountEditsSerial'
    BY <1>2 DEF AccountEditsSerial, Existing, Stored
  <2>7. QED
    BY <2>1, <2>2, <2>3, <2>4, <2>5, <2>6
<1>3. QED
  BY <1>1, <1>2, ShapesAlways, PTL DEF Spec
-----------------------------------------------------------------------------
(* BatchReconcileSplits: its splits turn to y together, in the commit.     *)

(* A batch that has started writes in its commit only. *)
LEMMA BatchWritesOnce ==
    ASSUME Shapes, [Next]_vars, NEW r \in Request,
           req[r].kind = "batch", req'[r] # req[r]
    PROVE  CommitBatch(r) \/ UNCHANGED splits
<1>1. req[r].pc = "mark"
  BY DEF Shapes, Staged
<1>2. ASSUME NEW q \in Request, NEW u, req' = [req EXCEPT ![q] = u]
      PROVE  q = r
  BY <1>2
<1>3. ASSUME NEW q \in Request, InsertSplits(q)
      PROVE  q = r /\ req[q].pc = "insert"
  BY <1>2, <1>3 DEF InsertSplits, Ended
<1>4. ASSUME NEW q \in Request, CommitBatch(q)
      PROVE  q = r
  BY <1>2, <1>4 DEF CommitBatch, Ended
<1>5. ~UNCHANGED req
  OBVIOUS
<1>6. \/ UNCHANGED splits
      \/ UNCHANGED req
      \/ \E q \in Request : InsertSplits(q) \/ CommitBatch(q)
  BY DEF Next, RequestStep, Quiet, StartCreate, StartBatch, AutoBalance, CheckAccounts,
         LookUpTransaction, BumpVersion, ScanSplits, DeleteSplits, MarkSplit, Marked,
         UpdateAccount, DropAccount, CreateAccount, Stays,
         DeadlockVictim, RequestFault, OpenForm, OpenAccountForm, CountUses, Start, ReadOnly,
         DeleteTransaction, ToggleSplitAcknowledge, ReconcileAccountSplits, vars
<1>7. QED
  BY <1>1, <1>3, <1>4, <1>5, <1>6

(* No split of a batch shows as reconciled before all of them do.          *)
THEOREM ReconcilesAtOnce == Spec => ReconcileAtomic
<1>1. ASSUME Shapes, [Next]_vars, NEW r \in Request,
             req[r].kind = "batch", req'[r] # req[r],
             \E s \in splits' : GuidOf(s) \in req[r].list /\ s.state = "y" /\ s \notin splits
      PROVE  /\ req'[r] = NoRequest
             /\ \A s \in splits' : GuidOf(s) \in req[r].wr => s.state = "y"
  <2> DEFINE S == {s \in splits : GuidOf(s) \in req[r].wr}
  <2>1. CommitBatch(r)
    BY <1>1, BatchWritesOnce
  <2>2. splits' = (splits \ S) \cup InState(S, "y") /\ req'[r] = NoRequest
    BY <1>1, <2>1 DEF CommitBatch, Ended, Shapes
  <2>3. \A s \in InState(S, "y") : s.state = "y"
    BY <1>1 DEF InState, Shapes, SplitFormed
  <2>4. QED
    BY <2>2, <2>3
<1>2. Shapes /\ [Next]_vars =>
         [\A r \in Request :
            /\ req[r].kind = "batch" /\ req'[r] # req[r]
            /\ \E s \in splits' : GuidOf(s) \in req[r].list /\ s.state = "y" /\ s \notin splits
            => /\ req'[r] = NoRequest
               /\ \A s \in splits' : GuidOf(s) \in req[r].wr => s.state = "y"]_vars
  BY <1>1
<1>3. QED
  BY <1>2, ShapesAlways, PTL DEF Spec, ReconcileAtomic
-----------------------------------------------------------------------------
(* The zero sum: what a posting and a set of splits sum to. *)

Values(S) == [s \in S |-> s.value]
Amounts(lines) == [k \in Used(lines) |-> lines[k].value]

LEMMA TotalIs ==
    ASSUME NEW S, IsFiniteSet(S)
    PROVE  Total(S) = SumOver(Values(S), S)
<1> DEFINE h == CHOOSE h : h = [A \in SUBSET S |-> IF A = {} THEN 0
                     ELSE (CHOOSE x \in A : TRUE).value + h[A \ {CHOOSE x \in A : TRUE}]]
           e(g, A) == IF A = {} THEN 0 ELSE First(A).value + g[Rest(A)]
           v(g, A) == IF A = {} THEN 0 ELSE Values(S)[First(A)] + g[Rest(A)]
<1>1. Total(S) = h[S]
  BY DEF Total, MapThenSumSet, MapThenFoldSet
<1>2. h = CHOOSE g : g = [A \in SUBSET S |-> e(g, A)]
  BY DEF First, Rest
<1>3. PICK g : Adds(Values(S), S, g)
  BY AddsExists
<1>4. \A k : \A A \in SUBSET S : e(k, A) = v(k, A)
  BY FirstIn DEF Values
<1>5. g = [A \in SUBSET S |-> e(g, A)]
  <2>1. g = [A \in SUBSET S |-> v(g, A)]
    BY <1>3 DEF Adds
  <2> HIDE DEF e, v
  <2>2. QED
    BY <1>4, <2>1
<1> HIDE DEF h, e, v
<1>6. h = [A \in SUBSET S |-> e(h, A)]
  BY <1>2, <1>5
<1>7. h = [A \in SUBSET S |-> v(h, A)]
  BY <1>4, <1>6
<1>8. Adds(Values(S), S, h)
  BY <1>7 DEF v, Adds
<1>9. QED
  BY <1>1, <1>8, SumIs

LEMMA SumOfLines ==
    ASSUME NEW lines
    PROVE  /\ IsFiniteSet(Used(lines))
           /\ Sum(lines) = SumOver(Amounts(lines), Used(lines))
<1> DEFINE S == Used(lines)
           h == CHOOSE h : h = [A \in SUBSET S |-> IF A = {} THEN 0
                   ELSE lines[CHOOSE x \in A : TRUE].value + h[A \ {CHOOSE x \in A : TRUE}]]
           e(g, A) == IF A = {} THEN 0 ELSE lines[First(A)].value + g[Rest(A)]
           v(g, A) == IF A = {} THEN 0 ELSE Amounts(lines)[First(A)] + g[Rest(A)]
<1>0. IsFiniteSet(S)
  <2>1. IsFiniteSet(Position) /\ S \subseteq Position
    BY FS_Interval, LedgerConstantsAssumption DEF Position, Used
  <2>2. QED
    BY <2>1, FS_Subset
<1>1. Sum(lines) = h[S]
  BY DEF Sum, MapThenSumSet, MapThenFoldSet
<1>2. h = CHOOSE g : g = [A \in SUBSET S |-> e(g, A)]
  BY DEF First, Rest
<1>3. PICK g : Adds(Amounts(lines), S, g)
  BY <1>0, AddsExists
<1>4. \A k : \A A \in SUBSET S : e(k, A) = v(k, A)
  BY FirstIn DEF Amounts
<1>5. g = [A \in SUBSET S |-> e(g, A)]
  <2>1. g = [A \in SUBSET S |-> v(g, A)]
    BY <1>3 DEF Adds
  <2> HIDE DEF e, v
  <2>2. QED
    BY <1>4, <2>1
<1> HIDE DEF h, e, v
<1>6. h = [A \in SUBSET S |-> e(h, A)]
  BY <1>2, <1>5
<1>7. h = [A \in SUBSET S |-> v(h, A)]
  BY <1>4, <1>6
<1>8. Adds(Amounts(lines), S, h)
  BY <1>7 DEF v, Adds
<1>9. QED
  BY <1>0, <1>1, <1>8, SumIs

LEMMA PostingSums ==
    ASSUME NEW lines \in Posting
    PROVE  /\ Sum(lines) \in Int
           /\ \A k \in Used(lines) : lines[k] \in Line /\ Amounts(lines)[k] \in Int
<1>1. \A k \in Used(lines) : lines[k] \in Line /\ Amounts(lines)[k] \in Int
  BY DEF Posting, Used, Amounts, Line
<1>2. QED
  BY <1>1, SumOfLines, SumInt

(* Auto-balance: what is put on the Imbalance account is what was missing. *)
LEMMA AddedBalances ==
    ASSUME NEW lines \in Posting, lines[0] = None, NEW a \in Account, NEW l,
           l = [lines EXCEPT ![0] = [account |-> a, value |-> -Sum(lines)]]
    PROVE  /\ l \in Posting /\ Sum(l) = 0 /\ l[0].value = -Sum(lines)
           /\ \A k \in Used(lines) : l[k] = lines[k]
           /\ Used(l) = Used(lines) \cup {0} /\ 0 \notin Used(lines)
<1> DEFINE n == Sum(lines)
           line == [account |-> a, value |-> -n]
<1>1. n \in Int /\ 0 \in Position
  BY PostingSums, LedgerConstantsAssumption DEF Position
<1> HIDE DEF n
<1>2. line \in Line /\ line # None /\ line.value = -n
  BY <1>1, LedgerSentinelAssumption DEF Line
<1>3. l = [lines EXCEPT ![0] = line]
  BY DEF n
<1> HIDE DEF line
<1>4. /\ l \in Posting /\ l[0] = line /\ \A k \in Position : k # 0 => l[k] = lines[k]
  BY <1>1, <1>2, <1>3 DEF Posting
<1>5. Used(l) = Used(lines) \cup {0} /\ 0 \notin Used(lines)
  BY <1>1, <1>2, <1>4 DEF Used
<1>6. \A k \in Used(lines) : l[k] = lines[k] /\ Amounts(l)[k] = Amounts(lines)[k]
  BY <1>4, <1>5 DEF Amounts, Used
<1> DEFINE U == Used(lines)
           f == Amounts(l)
           g == Amounts(lines)
<1>0. IsFiniteSet(U) /\ IsFiniteSet(Used(l))
  BY SumOfLines
<1>7. SumOver(f, U) = SumOver(g, U)
  <2>1. \A k \in U : f[k] = g[k]
    BY <1>6
  <2> HIDE DEF U, f, g
  <2>2. QED
    BY <1>0, <2>1, SumSame
<1>8. Amounts(l)[0] = -n
  BY <1>2, <1>4, <1>5 DEF Amounts
<1>9. \A k \in Used(lines) \cup {0} : Amounts(l)[k] \in Int
  BY <1>4, <1>5, PostingSums
<1>10. SumOver(f, U \cup {0}) = f[0] + SumOver(f, U)
  <2>1. 0 \notin U /\ \A k \in U \cup {0} : f[k] \in Int
    BY <1>5, <1>9
  <2> HIDE DEF U, f
  <2>2. QED
    BY <1>0, <2>1, SumPuts
<1>11. SumOver(g, U) = n /\ Sum(l) = SumOver(f, U \cup {0})
  BY <1>5, SumOfLines DEF n
<1>12. Sum(l) = 0
  BY <1>1, <1>7, <1>8, <1>10, <1>11
<1>13. QED
  BY <1>2, <1>4, <1>5, <1>6, <1>12 DEF n
(* The inductive invariant: every split and every line has a value, a      *)
(* transaction has one split per position, and a request that has passed   *)
(* its balance check has lines that sum to zero. *)
Valued == \A s \in splits : s.value \in Int \ {0}
OnePerLine == \A s1, s2 \in splits : s1.tx = s2.tx /\ s1.pos = s2.pos => s1 = s2
Drafted(t) ==
    /\ t.lines \in Posting
    /\ \A k \in Used(t.lines) : t.lines[k].value # 0
    /\ t.pc = "balance" => t.lines[0] = None
    /\ t.pc \in {"check", "bump", "clear", "wait", "insert"} => Sum(t.lines) = 0
Listed(t) ==
    /\ t.todo \in Seq(Guid) /\ t.list \subseteq Guid
    /\ t.del \subseteq Guid /\ t.wr \subseteq Guid
MoneyInv ==
    /\ Valued /\ OnePerLine /\ Balanced
    /\ \A r \in Request : Drafted(req[r]) /\ Listed(req[r])
    /\ faults \in 0..MaxFaults

LEMMA NoRequestDrafted == Drafted(NoRequest) /\ Listed(NoRequest)
BY DEF Drafted, Listed, NoRequest, NoLines, Posting, Used

LEMMA DraftPosted ==
    ASSUME NEW d \in Drafts
    PROVE  /\ NonZero(d) \in Posting /\ NonZero(d)[0] = None
           /\ \A k \in Used(NonZero(d)) : NonZero(d)[k].value # 0
<1>1. d \in [Position -> Line \cup {None}] /\ d[0] = None /\ 0 \in Position
  BY LedgerConstantsAssumption DEF Posting, Position
<1>2. QED
  BY <1>1 DEF Posting, NonZero, Used

LEMMA GuidsAre ==
    ASSUME Shapes, NEW S \in SUBSET splits
    PROVE  Guids(S) \subseteq Guid
BY DEF Shapes, SplitFormed, Guids, GuidOf, Guid

(* The splits of a transaction are finitely many, one per position. *)
LEMMA FewSplits ==
    ASSUME Shapes, OnePerLine, NEW t
    PROVE  IsFiniteSet(SplitsOf(t))
<1> DEFINE S == SplitsOf(t)
           b == [s \in S |-> s.pos]
<1>1. IsFiniteSet(Position)
  BY FS_Interval, LedgerConstantsAssumption DEF Position
<1>2. b \in [S -> Position] /\ \A s1, s2 \in S : b[s1] = b[s2] => s1 = s2
  BY DEF Shapes, SplitFormed, SplitsOf, OnePerLine
<1>3. b \in Injection(S, Position)
  BY <1>2 DEF Injection, IsInjective
<1>4. QED
  BY <1>1, <1>3, FS_Injection

LEMMA SplitsWorth ==
    ASSUME Shapes, Valued, OnePerLine, NEW t
    PROVE  \A s \in SplitsOf(t) : Values(SplitsOf(t))[s] = s.value /\ s.value \in Int
BY DEF Values, Valued, SplitsOf

(* A request moves on, or another takes its place, and no split changes. *)
LEMMA MoneyMoves ==
    ASSUME MoneyInv, NEW r \in Request, NEW u, req' = [req EXCEPT ![r] = u],
           Shapes, Drafted(u), Listed(u), splits' = splits, faults' \in 0..MaxFaults
    PROVE  MoneyInv'
<1>1. \A q \in Request : Drafted(req'[q]) /\ Listed(req'[q])
  BY DEF MoneyInv, Shapes
<1>2. Valued' /\ OnePerLine' /\ Balanced'
  BY DEF MoneyInv, Valued, OnePerLine, Balanced, SplitsOf
<1>3. QED
  BY <1>1, <1>2 DEF MoneyInv, Drafted, Listed

LEMMA MoneyRests ==
    ASSUME MoneyInv, NEW r \in Request, req' = Ended(r), Shapes, splits' = splits,
           faults' \in 0..MaxFaults
    PROVE  MoneyInv'
BY MoneyMoves, NoRequestDrafted DEF Ended

LEMMA StartsKeepMoney ==
    ASSUME Shapes, MoneyInv, NEW r \in Request
    PROVE  /\ StartCreate(r) \/ StartBatch(r) => MoneyInv'
           /\ \A t \in Number : OpenForm(r, t) => MoneyInv'
           /\ \A a \in Account : OpenAccountForm(r, a) \/ CountUses(r, a) => MoneyInv'
<1> DEFINE n == started + 1
<1>0. ASSUME NEW f, Start(r, f), Drafted([f EXCEPT !.by = n]), Listed([f EXCEPT !.by = n])
      PROVE  MoneyInv'
  BY <1>0, MoneyMoves DEF Start, MoneyInv
<1>1. ASSUME NEW d \in Drafts,
             Start(r, [NoRequest EXCEPT !.pc = "balance", !.kind = "create", !.lines = NonZero(d)])
      PROVE  MoneyInv'
  <2> DEFINE f == [NoRequest EXCEPT !.pc = "balance", !.kind = "create", !.lines = NonZero(d)]
  <2>1. Drafted([f EXCEPT !.by = n]) /\ Listed([f EXCEPT !.by = n])
    BY NoRequestDrafted, DraftPosted DEF Drafted, Listed, NoRequest
  <2>2. QED
    BY <1>0, <1>1, <2>1
<1>2. ASSUME NEW g1 \in Guid, NEW g2 \in Guid,
             Start(r, [NoRequest EXCEPT !.pc = "mark", !.kind = "batch",
                         !.todo = <<g1, g2>>, !.list = {g1, g2}])
      PROVE  MoneyInv'
  <2> DEFINE f == [NoRequest EXCEPT !.pc = "mark", !.kind = "batch",
                     !.todo = <<g1, g2>>, !.list = {g1, g2}]
  <2>1. Drafted([f EXCEPT !.by = n]) /\ Listed([f EXCEPT !.by = n])
    BY NoRequestDrafted DEF Drafted, Listed, NoRequest
  <2>2. QED
    BY <1>0, <1>2, <2>1
<1>3. ASSUME NEW t, NEW v, NEW d \in Drafts,
             Start(r, [NoRequest EXCEPT !.pc = "lookup", !.kind = "update", !.tx = t,
                         !.seen = v, !.lines = NonZero(d)])
      PROVE  MoneyInv'
  <2> DEFINE f == [NoRequest EXCEPT !.pc = "lookup", !.kind = "update", !.tx = t,
                     !.seen = v, !.lines = NonZero(d)]
  <2>1. Drafted([f EXCEPT !.by = n]) /\ Listed([f EXCEPT !.by = n])
    BY NoRequestDrafted, DraftPosted DEF Drafted, Listed, NoRequest
  <2>2. QED
    BY <1>0, <1>3, <2>1
<1>4. ASSUME NEW a, NEW v, NEW e,
             Start(r, [NoRequest EXCEPT !.pc = "edit", !.kind = "account", !.account = a,
                         !.seen = v, !.edit = e])
      PROVE  MoneyInv'
  <2> DEFINE f == [NoRequest EXCEPT !.pc = "edit", !.kind = "account", !.account = a,
                     !.seen = v, !.edit = e]
  <2>1. Drafted([f EXCEPT !.by = n]) /\ Listed([f EXCEPT !.by = n])
    BY NoRequestDrafted DEF Drafted, Listed, NoRequest
  <2>2. QED
    BY <1>0, <1>4, <2>1
<1>5. ASSUME NEW a,
             Start(r, [NoRequest EXCEPT !.pc = "drop", !.kind = "account", !.account = a])
      PROVE  MoneyInv'
  <2> DEFINE f == [NoRequest EXCEPT !.pc = "drop", !.kind = "account", !.account = a]
  <2>1. Drafted([f EXCEPT !.by = n]) /\ Listed([f EXCEPT !.by = n])
    BY NoRequestDrafted DEF Drafted, Listed, NoRequest
  <2>2. QED
    BY <1>0, <1>5, <2>1
<1>6. \A s \in splits : GuidOf(s) \in Guid
  BY DEF Shapes, SplitFormed, GuidOf, Guid
<1>7. QED
  BY <1>1, <1>2, <1>3, <1>4, <1>5, <1>6
  DEF StartCreate, StartBatch, OpenForm, OpenAccountForm, CountUses

(* The steps of a request that change no split. *)
LEMMA StepsKeepMoney ==
    ASSUME Shapes, MoneyInv, NEW r \in Request,
           \/ AutoBalance(r) \/ CheckAccounts(r) \/ LookUpTransaction(r)
           \/ BumpVersion(r) \/ ScanSplits(r) \/ DeleteSplits(r) \/ MarkSplit(r)
           \/ UpdateAccount(r) \/ DropAccount(r) \/ DeadlockVictim(r) \/ RequestFault(r)
    PROVE  MoneyInv'
<1> DEFINE t == req[r]
<1>0. Formed(t) /\ Staged(t) /\ Drafted(t) /\ Listed(t)
  BY DEF Shapes, MoneyInv
<1>1. splits' = splits /\ faults' \in 0..MaxFaults
  <2>1. /\ splits' = splits
        /\ faults' = faults \/ (faults < MaxFaults /\ faults' = faults + 1)
    <3>1. CASE RequestFault(r)
      BY <3>1 DEF RequestFault
    <3>2. CASE MarkSplit(r) \/ UpdateAccount(r) \/ DropAccount(r)
      BY <3>2 DEF MarkSplit, Marked, UpdateAccount, DropAccount
    <3>3. CASE AutoBalance(r) \/ CheckAccounts(r) \/ LookUpTransaction(r) \/ DeadlockVictim(r)
      BY <3>3 DEF AutoBalance, CheckAccounts, LookUpTransaction, DeadlockVictim, ReadOnly
    <3>4. CASE BumpVersion(r) \/ ScanSplits(r) \/ DeleteSplits(r)
      BY <3>4 DEF BumpVersion, ScanSplits, DeleteSplits, ReadOnly
    <3>5. QED
      BY <3>1, <3>2, <3>3, <3>4
  <2>2. faults \in 0..MaxFaults /\ MaxFaults \in Nat
    BY LedgerConstantsAssumption DEF MoneyInv
  <2>3. QED
    BY <2>1, <2>2
<1>2. ASSUME req' = Ended(r)
      PROVE  MoneyInv'
  BY <1>1, <1>2, MoneyRests
<1>3. ASSUME NEW u, req' = [req EXCEPT ![r] = u], Drafted(u), Listed(u)
      PROVE  MoneyInv'
  BY <1>1, <1>3, MoneyMoves
<1>4. ASSUME NEW l \in {"check", "insert", "bump", "clear"}, req' = At(r, l),
             Sum(t.lines) = 0
      PROVE  MoneyInv'
  <2> DEFINE u == [t EXCEPT !.pc = l]
  <2>1. Drafted(u) /\ Listed(u)
    BY <1>0, <1>4 DEF Formed, Drafted, Listed
  <2>2. req' = [req EXCEPT ![r] = u]
    BY <1>4 DEF At, Shapes
  <2>3. QED
    BY <2>1, <2>2, <1>3
<1>5. CASE AutoBalance(r)
  <2> DEFINE Checked(l, p) == IF TwoOrMore(l)
                 THEN [req EXCEPT ![r].pc = "check", ![r].lines = l, ![r].pend = p]
                 ELSE Ended(r)
  <2>1. ASSUME NEW l, NEW p, req' = Checked(l, p),
               l \in Posting, \A k \in Used(l) : l[k].value # 0, Sum(l) = 0
        PROVE  MoneyInv'
    <3> DEFINE u == [t EXCEPT !.pc = "check", !.lines = l, !.pend = p]
    <3>1. u.pc = "check" /\ u.lines = l /\ u.todo = t.todo /\ u.list = t.list
          /\ u.del = t.del /\ u.wr = t.wr
      BY <1>0 DEF Formed
    <3>2. Drafted(u) /\ Listed(u)
      BY <1>0, <2>1, <3>1 DEF Drafted, Listed
    <3>3. TwoOrMore(l) => req' = [req EXCEPT ![r] = u]
      BY <2>1 DEF Shapes
    <3>4. QED
      BY <1>2, <1>3, <2>1, <3>2, <3>3
  <2>2. /\ t.pc = "balance" /\ t.lines \in Posting /\ t.lines[0] = None
        /\ \A k \in Used(t.lines) : t.lines[k].value # 0
    BY <1>0, <1>5 DEF AutoBalance, Drafted
  <2>3. CASE Balances(t.lines) /\ req' = Checked(t.lines, None)
    BY <2>1, <2>2, <2>3 DEF Balances
  <2>4. ASSUME NEW a \in Account, NEW p, Sum(t.lines) # 0,
               req' = Checked([t.lines EXCEPT ![0] = [account |-> a, value |-> -Sum(t.lines)]], p)
        PROVE  MoneyInv'
    <3>1. PICK l : l = [t.lines EXCEPT ![0] = [account |-> a, value |-> -Sum(t.lines)]]
      OBVIOUS
    <3>2. /\ l \in Posting /\ Sum(l) = 0 /\ l[0].value = -Sum(t.lines)
          /\ \A k \in Used(t.lines) : l[k] = t.lines[k]
          /\ Used(l) = Used(t.lines) \cup {0}
      <4>1. PICK lines : lines = t.lines
        OBVIOUS
      <4>2. lines \in Posting /\ lines[0] = None
        BY <2>2, <4>1
      <4>3. l = [lines EXCEPT ![0] = [account |-> a, value |-> -Sum(lines)]]
        BY <3>1, <4>1
      <4>4. /\ l \in Posting /\ Sum(l) = 0 /\ l[0].value = -Sum(lines)
            /\ \A k \in Used(lines) : l[k] = lines[k]
            /\ Used(l) = Used(lines) \cup {0}
        BY <4>2, <4>3, AddedBalances
      <4>5. QED
        BY <4>1, <4>4
    <3>3. Sum(t.lines) \in Int
      BY <2>2, PostingSums
    <3>4. \A k \in Used(l) : l[k].value # 0
      BY <2>2, <2>4, <3>2, <3>3
    <3>5. QED
      BY <2>1, <2>4, <3>1, <3>2, <3>4
  <2>5. CASE req' = Ended(r)
    BY <1>2, <2>5
  <2>6. QED
    BY <1>5, <2>3, <2>4, <2>5 DEF AutoBalance, Balances, Existing
<1>6. CASE CheckAccounts(r)
  <2>1. Sum(t.lines) = 0
    BY <1>0, <1>6 DEF CheckAccounts, Drafted
  <2>2. QED
    BY <1>2, <1>4, <1>6, <2>1 DEF CheckAccounts
<1>7. CASE LookUpTransaction(r)
  BY <1>2, <1>4, <1>7 DEF LookUpTransaction, Balances
<1>8. CASE BumpVersion(r)
  <2>1. Sum(t.lines) = 0
    BY <1>0, <1>8 DEF BumpVersion, Drafted
  <2>2. QED
    BY <1>4, <1>8, <2>1 DEF BumpVersion
<1>9. CASE ScanSplits(r)
  <2>1. PICK G \in SUBSET Guid : G = Guids(SplitsOf(t.tx))
    BY GuidsAre DEF SplitsOf
  <2> DEFINE u == [t EXCEPT !.pc = "wait", !.list = G]
  <2>2. Drafted(u) /\ Listed(u)
    BY <1>0, <1>9 DEF ScanSplits, Formed, Drafted, Listed
  <2>3. req' = [req EXCEPT ![r] = u]
    BY <1>9, <2>1 DEF ScanSplits, Shapes
  <2>4. QED
    BY <2>2, <2>3, <1>3
<1>10. CASE DeleteSplits(r)
  <2> DEFINE u == [t EXCEPT !.pc = "insert", !.del = t.list]
  <2>1. Drafted(u) /\ Listed(u)
    BY <1>0, <1>10 DEF DeleteSplits, Formed, Drafted, Listed
  <2>2. req' = [req EXCEPT ![r] = u]
    BY <1>10 DEF DeleteSplits, Shapes
  <2>3. QED
    BY <2>1, <2>2, <1>3
<1>11. CASE MarkSplit(r)
  <2>1. PICK T : T = Tail(t.todo)
    OBVIOUS
  <2>2. PICK G : G = t.wr \cup ({Head(t.todo)} \cap Guids({s \in splits : s.state # "y"}))
    OBVIOUS
  <2>3. T \in Seq(Guid) /\ G \subseteq Guid
    BY <1>0, <1>11, <2>1, <2>2 DEF MarkSplit, Listed
  <2> DEFINE u == [t EXCEPT !.todo = T, !.wr = G]
  <2>4. Drafted(u) /\ Listed(u)
    BY <1>0, <2>3 DEF Formed, Drafted, Listed
  <2>5. req' = [req EXCEPT ![r] = u]
    BY <1>11, <2>1, <2>2 DEF MarkSplit, Shapes
  <2>6. QED
    BY <2>4, <2>5, <1>3
<1>12. CASE UpdateAccount(r) \/ DropAccount(r) \/ DeadlockVictim(r) \/ RequestFault(r)
  BY <1>2, <1>12 DEF UpdateAccount, DropAccount, DeadlockVictim, RequestFault
<1>13. QED
  BY <1>5, <1>6, <1>7, <1>8, <1>9, <1>10, <1>11, <1>12

(* Splits change their states and nothing else. *)
LEMMA RestateKeepsMoney ==
    ASSUME Shapes, MoneyInv, NEW S \in SUBSET splits, NEW state,
           splits' = (splits \ S) \cup InState(S, state)
    PROVE  Valued' /\ OnePerLine' /\ Balanced'
<1> DEFINE b == [s \in splits |-> IF s \in S THEN [s EXCEPT !.state = state] ELSE s]
<1>1. splits' = {b[s] : s \in splits}
  BY DEF InState
<1>2. \A s \in splits : b[s].tx = s.tx /\ b[s].pos = s.pos /\ b[s].value = s.value
  BY DEF Shapes, SplitFormed
<1> HIDE DEF b
<1>3. Valued' /\ OnePerLine'
  BY <1>1, <1>2 DEF MoneyInv, Valued, OnePerLine
<1>4. ASSUME NEW t \in Number
      PROVE  Total(SplitsOf(t)') = 0
  <2>1. PICK A : A = SplitsOf(t)
    OBVIOUS
  <2>2. PICK B : B = SplitsOf(t)'
    OBVIOUS
  <2>3. B = {b[s] : s \in A} /\ A \subseteq splits
    BY <1>1, <1>2, <2>1, <2>2 DEF SplitsOf
  <2>4. IsFiniteSet(A) /\ Total(A) = 0
    BY <2>1, FewSplits DEF MoneyInv, Balanced
  <2>5. \A s \in A : Values(A)[s] = s.value /\ s.value \in Int
    BY <2>1, SplitsWorth DEF MoneyInv
  <2>6. \A s1, s2 \in A : b[s1] = b[s2] => s1 = s2
    BY <1>2, <2>1 DEF MoneyInv, OnePerLine, SplitsOf
  <2>7. \A s \in A : Values(A)[s] = Values(B)[b[s]] /\ Values(A)[s] \in Int
    BY <1>2, <2>3, <2>5 DEF Values
  <2>8. PICK f, g : f = Values(A) /\ g = Values(B)
    OBVIOUS
  <2>9. IsFiniteSet(B) /\ SumOver(f, A) = SumOver(g, B)
    BY <2>3, <2>4, <2>6, <2>7, <2>8, SumFollows
  <2>10. Total(A) = SumOver(f, A) /\ Total(B) = SumOver(g, B)
    BY <2>4, <2>8, <2>9, TotalIs
  <2>11. QED
    BY <2>2, <2>4, <2>9, <2>10
<1>5. Balanced'
  BY <1>4 DEF Balanced
<1>6. QED
  BY <1>3, <1>5

(* A posting is written: one split per line, with the line's value. *)
LEMMA WrittenSums ==
    ASSUME NEW r \in Request, NEW n, req[r].lines \in Posting
    PROVE  /\ IsFiniteSet(Written(r, n))
           /\ Total(Written(r, n)) = Sum(req[r].lines)
           /\ \A s1, s2 \in Written(r, n) : s1.pos = s2.pos => s1 = s2
           /\ \A s \in Written(r, n) : \E k \in Used(req[r].lines) : s.value = req[r].lines[k].value
<1>1. PICK lines : lines = req[r].lines
  OBVIOUS
<1>2. PICK W : W = Written(r, n)
  OBVIOUS
<1>0. PICK U : U = Used(lines)
  OBVIOUS
<1>01. PICK b : b = [k \in U |-> [tx |-> n, by |-> req[r].by, pos |-> k,
                                  account |-> lines[k].account, value |-> lines[k].value,
                                  state |-> "n"]]
  OBVIOUS
<1>3. W = {b[k] : k \in U}
  BY <1>0, <1>01, <1>1, <1>2 DEF Written
<1>4. \A k \in U : b[k].pos = k /\ b[k].value = lines[k].value
  BY <1>01
<1>5. \A k, l \in U : b[k] = b[l] => k = l
  BY <1>4
<1>6. \A k \in U : Amounts(lines)[k] = Values(W)[b[k]] /\ Amounts(lines)[k] \in Int
  <2>1. \A k \in U : Amounts(lines)[k] \in Int
    BY <1>0, <1>1, PostingSums
  <2>2. QED
    BY <1>0, <1>3, <1>4, <2>1 DEF Amounts, Values
<1>7. PICK f, g : f = Amounts(lines) /\ g = Values(W)
  OBVIOUS
<1>8. IsFiniteSet(U) /\ Sum(lines) = SumOver(f, U)
  BY <1>0, <1>7, SumOfLines
<1>9. IsFiniteSet(W) /\ SumOver(f, U) = SumOver(g, W)
  <2>1. IsFiniteSet(U) /\ (\A k \in U : f[k] \in Int) /\ (\A k \in U : f[k] = g[b[k]])
    BY <1>6, <1>7, <1>8
  <2>2. IsFiniteSet({b[k] : k \in U}) /\ SumOver(f, U) = SumOver(g, {b[k] : k \in U})
    BY <1>5, <2>1, SumFollows
  <2>3. QED
    BY <1>3, <2>2
<1>10. Total(W) = SumOver(g, W)
  BY <1>7, <1>9, TotalIs
<1>11. QED
  BY <1>0, <1>1, <1>2, <1>3, <1>4, <1>8, <1>9, <1>10
(* The INSERTs: the transaction's splits are now the posting's, which sums *)
(* to zero, and no other transaction's change. *)
LEMMA InsertKeepsMoney ==
    ASSUME Shapes, AuthorInv, MoneyInv, NEW r \in Request, InsertSplits(r)
    PROVE  MoneyInv'
<1>1. PICK n : n = IF req[r].kind = "create" THEN req[r].by ELSE req[r].tx
  OBVIOUS
<1>2. /\ req[r].pc = "insert" /\ req' = Ended(r) /\ faults' = faults
      /\ \/ splits' = splits
         \/ splits' = {s \in splits : GuidOf(s) \notin req[r].del} \cup Written(r, n)
  BY <1>1 DEF InsertSplits
<1>3. CASE splits' = splits
  BY <1>2, <1>3, MoneyRests DEF MoneyInv
<1>4. CASE splits' = {s \in splits : GuidOf(s) \notin req[r].del} \cup Written(r, n)
  <2>1. splits' = {s \in splits : s.tx # n} \cup Written(r, n)
    BY <1>1, <1>2, <1>4, ReplacesAll
  <2>2. PICK lines : lines = req[r].lines
    OBVIOUS
  <2>3. PICK W : W = Written(r, n)
    OBVIOUS
  <2>4. lines \in Posting /\ Sum(lines) = 0 /\ \A k \in Used(lines) : lines[k].value # 0
    BY <1>2, <2>2 DEF MoneyInv, Drafted
  <2>5. /\ Total(W) = 0 /\ \A s1, s2 \in W : s1.pos = s2.pos => s1 = s2
        /\ \A s \in W : \E k \in Used(lines) : s.value = lines[k].value
    BY <2>2, <2>3, <2>4, WrittenSums
  <2>6. \A s \in W : s.tx = n
    BY <2>3 DEF Written
  <2>7. \A s \in W : s.value \in Int \ {0}
    BY <2>4, <2>5, PostingSums DEF Line
  <2>8. Valued' /\ OnePerLine'
    BY <2>1, <2>3, <2>5, <2>6, <2>7 DEF MoneyInv, Valued, OnePerLine
  <2>9. ASSUME NEW t \in Number
        PROVE  Total(SplitsOf(t)') = 0
    <3>1. CASE t = n
      <4>1. SplitsOf(t)' = W
        BY <2>1, <2>3, <2>6, <3>1 DEF SplitsOf
      <4>2. QED
        BY <2>5, <4>1
    <3>2. CASE t # n
      <4>1. SplitsOf(t)' = SplitsOf(t)
        BY <2>1, <2>3, <2>6, <3>2 DEF SplitsOf
      <4>2. QED
        BY <4>1 DEF MoneyInv, Balanced
    <3>3. QED
      BY <3>1, <3>2
  <2>10. Balanced'
    BY <2>9 DEF Balanced
  <2>11. \A q \in Request : Drafted(req'[q]) /\ Listed(req'[q])
    BY <1>2, NoRequestDrafted DEF MoneyInv, Shapes, Ended
  <2>12. QED
    BY <1>2, <2>8, <2>10, <2>11 DEF MoneyInv, Drafted, Listed
<1>5. QED
  BY <1>2, <1>3, <1>4

(* A delete leaves no split of its transaction, and those of the others. *)
LEMMA DeleteKeepsMoney ==
    ASSUME Shapes, MoneyInv, NEW n \in Number, DeleteTransaction(n)
    PROVE  MoneyInv'
<1>1. splits' = splits \ SplitsOf(n) /\ UNCHANGED <<req, faults>>
  BY DEF DeleteTransaction, Stays
<1>2. Valued' /\ OnePerLine'
  BY <1>1 DEF MoneyInv, Valued, OnePerLine
<1>3. ASSUME NEW t \in Number
      PROVE  Total(SplitsOf(t)') = 0
  <2>1. CASE t = n
    <3>1. SplitsOf(t)' = {}
      BY <1>1, <2>1 DEF SplitsOf
    <3>2. Total({}) = 0
      BY FS_EmptySet, SumEmpty, TotalIs
    <3>3. QED
      BY <3>1, <3>2
  <2>2. CASE t # n
    <3>1. SplitsOf(t)' = SplitsOf(t)
      BY <1>1, <2>2 DEF SplitsOf
    <3>2. QED
      BY <3>1 DEF MoneyInv, Balanced
  <2>3. QED
    BY <2>1, <2>2
<1>4. Balanced'
  BY <1>3 DEF Balanced
<1>5. QED
  BY <1>1, <1>2, <1>4 DEF MoneyInv, Drafted, Listed

(* The steps that restate splits, and those of no request. *)
LEMMA OthersKeepMoney ==
    ASSUME Shapes, MoneyInv,
           \/ \E r \in Request : CommitBatch(r)
           \/ \E s \in splits, state \in {"n", "c"} : ToggleSplitAcknowledge(s, state)
           \/ \E a \in Account : ReconcileAccountSplits({a}) \/ CreateAccount(a)
           \/ UNCHANGED vars
    PROVE  MoneyInv'
<1>1. ASSUME UNCHANGED <<req, faults>>, Valued', OnePerLine', Balanced'
      PROVE  MoneyInv'
  BY <1>1 DEF MoneyInv, Drafted, Listed
<1>2. ASSUME NEW r \in Request, CommitBatch(r)
      PROVE  MoneyInv'
  <2> DEFINE S == {s \in splits : GuidOf(s) \in req[r].wr}
  <2>1. /\ splits' = (splits \ S) \cup InState(S, "y")
        /\ req' = Ended(r) /\ faults' = faults
    BY <1>2 DEF CommitBatch
  <2>2. S \in SUBSET splits
    OBVIOUS
  <2> HIDE DEF S
  <2>3. Valued' /\ OnePerLine' /\ Balanced'
    <3>1. PICK T : T = S
      OBVIOUS
    <3>2. QED
      BY <2>1, <2>2, <3>1, RestateKeepsMoney
  <2>4. \A q \in Request : Drafted(req'[q]) /\ Listed(req'[q])
    BY <2>1, NoRequestDrafted DEF MoneyInv, Shapes, Ended
  <2>5. QED
    BY <2>1, <2>3, <2>4 DEF MoneyInv, Drafted, Listed
<1>3. ASSUME NEW s \in splits, NEW state \in {"n", "c"}, ToggleSplitAcknowledge(s, state)
      PROVE  MoneyInv'
  <2>1. /\ splits' = (splits \ {s}) \cup InState({s}, state)
        /\ UNCHANGED <<req, faults>>
    BY <1>3 DEF ToggleSplitAcknowledge, Stays
  <2>2. Valued' /\ OnePerLine' /\ Balanced'
    <3>1. PICK T : T = {s}
      OBVIOUS
    <3>2. QED
      BY <2>1, <3>1, RestateKeepsMoney
  <2>3. QED
    BY <1>1, <2>1, <2>2
<1>4. ASSUME NEW a \in Account, ReconcileAccountSplits({a})
      PROVE  MoneyInv'
  <2> DEFINE S == {s \in splits : s.account \in {a} /\ s.state # "y"}
  <2>1. /\ splits' = (splits \ S) \cup InState(S, "y")
        /\ UNCHANGED <<req, faults>>
    BY <1>4 DEF ReconcileAccountSplits, Stays
  <2>2. S \in SUBSET splits
    OBVIOUS
  <2> HIDE DEF S
  <2>3. Valued' /\ OnePerLine' /\ Balanced'
    <3>1. PICK T : T = S
      OBVIOUS
    <3>2. QED
      BY <2>1, <2>2, <3>1, RestateKeepsMoney
  <2>4. QED
    BY <1>1, <2>1, <2>3
<1>5. CASE (\E a \in Account : CreateAccount(a)) \/ UNCHANGED vars
  <2>1. UNCHANGED <<splits, req, faults>>
    BY <1>5 DEF CreateAccount, Stays, vars
  <2>2. QED
    BY <1>1, <2>1 DEF MoneyInv, Valued, OnePerLine, Balanced, SplitsOf
<1>6. QED
  BY <1>2, <1>3, <1>4, <1>5

LEMMA InitMoney == Init => MoneyInv
<1> SUFFICES ASSUME Init PROVE MoneyInv
  OBVIOUS
<1>1. Total({}) = 0
  BY FS_EmptySet, SumEmpty, TotalIs
<1>2. faults \in 0..MaxFaults
  BY LedgerConstantsAssumption DEF Init
<1>3. QED
  BY <1>1, <1>2, NoRequestDrafted
  DEF Init, MoneyInv, Valued, OnePerLine, Balanced, SplitsOf

LEMMA StepMoney == Shapes /\ AuthorInv /\ MoneyInv /\ [Next]_vars => MoneyInv'
<1> SUFFICES ASSUME Shapes, AuthorInv, MoneyInv, [Next]_vars
             PROVE  MoneyInv'
  OBVIOUS
<1>1. ASSUME NEW r \in Request,
             \/ StartCreate(r) \/ StartBatch(r)
             \/ \E t \in Number : OpenForm(r, t)
             \/ \E a \in Account : OpenAccountForm(r, a) \/ CountUses(r, a)
      PROVE  MoneyInv'
  BY <1>1, StartsKeepMoney
<1>2. ASSUME NEW r \in Request,
             \/ AutoBalance(r) \/ CheckAccounts(r) \/ LookUpTransaction(r)
             \/ BumpVersion(r) \/ ScanSplits(r) \/ DeleteSplits(r) \/ MarkSplit(r)
             \/ UpdateAccount(r) \/ DropAccount(r) \/ DeadlockVictim(r) \/ RequestFault(r)
      PROVE  MoneyInv'
  BY <1>2, StepsKeepMoney
<1>3. ASSUME NEW r \in Request, InsertSplits(r)
      PROVE  MoneyInv'
  BY <1>3, InsertKeepsMoney
<1>4. ASSUME NEW t \in Number, DeleteTransaction(t)
      PROVE  MoneyInv'
  BY <1>4, DeleteKeepsMoney
<1>5. CASE Quiet \/ UNCHANGED vars
  BY <1>5, OthersKeepMoney DEF Quiet
<1>6. QED
  BY <1>1, <1>2, <1>3, <1>4, <1>5, OthersKeepMoney DEF Next, RequestStep

LEMMA MoneyAlways == Spec => []MoneyInv
<1>1. Init => AuthorInv /\ MoneyInv
  BY InitAuthor, InitMoney
<1>2. Shapes /\ AuthorInv /\ MoneyInv /\ [Next]_vars => (AuthorInv /\ MoneyInv)'
  BY StepAuthor, StepMoney
<1>3. QED
  BY <1>1, <1>2, ShapesAlways, PTL DEF Spec

(* The zero-sum invariant of transaction_service.go: whatever requests     *)
(* race, fail or die, the splits of a transaction sum to zero. *)
THEOREM ZeroSum == Spec => []Balanced
<1>1. MoneyInv => Balanced
  BY DEF MoneyInv
<1>2. QED
  BY <1>1, MoneyAlways, PTL

(* Every row and every request has its type: a split's value is an integer *)
(* other than zero, as the drafts' zero splits are dropped, and a request's *)
(* lines are one posting. *)
THEOREM LedgerTypes == Spec => []LedgerTypeOK
<1>1. Shapes /\ MoneyInv => LedgerTypeOK
  <2> SUFFICES ASSUME Shapes, MoneyInv PROVE LedgerTypeOK
    OBVIOUS
  <2>1. splits \subseteq Split
    BY DEF Shapes, SplitFormed, MoneyInv, Valued, Split
  <2>2. \A r \in Request : req[r] \in RequestState
    BY DEF Shapes, MoneyInv, Formed, Drafted, Listed, RequestState
  <2>3. QED
    BY <2>1, <2>2 DEF Shapes, MoneyInv, LedgerTypeOK
<1>2. QED
  BY <1>1, ShapesAlways, MoneyAlways, PTL
=============================================================================
