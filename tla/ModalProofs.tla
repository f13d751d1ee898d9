---------------------------- MODULE ModalProofs ----------------------------
(***************************************************************************)
(* Invariance proofs for the modals of the register page, which never read *)
(* each other's state: the import matcher, for every set of accounts,      *)
(* banks, transactions and categories; the reconcile wizard, for every set *)
(* of accounts, splits and dates and every amount; and the entry form with *)
(* its account picker, for every set of accounts, texts and entries.       *)
(***************************************************************************)
EXTENDS ImportMatcher, Reconcile, EntryForm, Sums

-----------------------------------------------------------------------------
(* The matcher: the shapes of the page, the requests and the books. *)
PageShape ==
    [here : MatAccount \cup {NoAccountShown}, syncing : BOOLEAN, open : BOOLEAN,
     label : Item \cup {NoItem}, rows : SUBSET Txn, included : SUBSET Txn,
     cat : [Txn -> Category \cup {NoCategory}], importing : BOOLEAN,
     dismissing : Txn \cup {NoTxn}, imported : SUBSET Txn]
SyncShape == [out : BOOLEAN, run : BOOLEAN, ids : SUBSET Txn]
ImportShape == [out : BOOLEAN, own : BOOLEAN, sent : SUBSET Txn, todo : SUBSET Txn,
                failed : SUBSET Txn, broken : BOOLEAN]
NetShape == [sync : [Item -> SyncShape],
             dismiss : [Txn -> {"no", "sent", "run", "forgotten"}], import : ImportShape]
BookShape == [staged : SUBSET Txn, dismissed : SUBSET Txn, booked : SUBSET Txn,
              today : SUBSET Item]

(* A matcher that imports has a request of its own. *)
PageSound(m, q) ==
    /\ m \in PageShape /\ m.included \subseteq m.rows
    /\ m.importing => m.open /\ q.out /\ q.own

(* What an import has been through, has not failed and has not broken off  *)
(* before is booked. *)
ImportSound(q, booked) ==
    /\ q \in ImportShape
    /\ q.todo \subseteq q.sent /\ q.failed \subseteq q.sent
    /\ ~q.broken => q.sent \ (q.todo \cup q.failed) \subseteq booked

MatInv ==
    /\ PageSound(mat, matNet.import)
    /\ matNet \in NetShape /\ ImportSound(matNet.import, matBook.booked)
    /\ matBook \in BookShape /\ mat.imported \subseteq matBook.booked

LEMMA StartShape ==
    /\ MatPage \in PageShape /\ MatIdle \in NetShape /\ MatBooks \in BookShape
    /\ NoSync \in SyncShape /\ NoImport \in ImportShape
BY DEF MatPage, MatIdle, MatBooks, NoSync, NoImport, PageShape, NetShape, BookShape,
       SyncShape, ImportShape

LEMMA MatInitKeeps == MatInit => MatInv
BY StartShape DEF MatInit, MatInv, PageSound, ImportSound, MatPage, MatIdle, NoImport, MatBooks

-----------------------------------------------------------------------------
(* The two helpers that take a matcher off the page. *)
LEMMA UnmountedShape ==
    ASSUME NEW m \in PageShape
    PROVE  /\ Unmounted(m) \in PageShape /\ Unmounted(m).included = {}
           /\ Unmounted(m).rows = {} /\ ~Unmounted(m).importing
           /\ Unmounted(m).imported = m.imported
BY DEF Unmounted, PageShape

LEMMA ForgottenShape ==
    ASSUME NEW net \in NetShape
    PROVE  /\ Forgotten(net) \in NetShape
           /\ Forgotten(net).import = [net.import EXCEPT !.own = FALSE]
<1> DEFINE d == [t \in Txn |-> CASE net.dismiss[t] = "sent" -> "forgotten"
                                 [] net.dismiss[t] = "run" -> "no"
                                 [] OTHER -> net.dismiss[t]]
           q == [net.import EXCEPT !.own = FALSE]
<1>1. d \in [Txn -> {"no", "sent", "run", "forgotten"}]
  <2>1. ASSUME NEW t \in Txn PROVE d[t] \in {"no", "sent", "run", "forgotten"}
    <3>1. net.dismiss[t] \in {"no", "sent", "run", "forgotten"}
      BY DEF NetShape
    <3>2. QED
      BY <3>1
  <2>2. QED
    BY <2>1
<1>2. q \in ImportShape
  BY DEF NetShape, ImportShape
<1>3. Forgotten(net) = [net EXCEPT !.import = q, !.dismiss = d]
  BY DEF Forgotten, NetShape
<1> HIDE DEF d, q
<1>4. Forgotten(net) \in NetShape /\ Forgotten(net).import = q
  BY <1>1, <1>2, <1>3 DEF NetShape
<1>5. QED
  BY <1>4 DEF q

LEMMA MountedSound ==
    ASSUME NEW m \in PageShape, NEW i \in Item, NEW ids \in SUBSET Txn
    PROVE  /\ Mounted(m, i, ids) \in PageShape /\ ~Mounted(m, i, ids).importing
           /\ Mounted(m, i, ids).included = Mounted(m, i, ids).rows
           /\ Mounted(m, i, ids).imported = m.imported
BY MatAssumption DEF Mounted, PageShape

-----------------------------------------------------------------------------
(* The steps of a sync. *)
LEMMA TriggerKeeps ==
    ASSUME MatInv, NEW m, PageSound(m, matNet.import), m.imported = mat.imported,
           NEW i \in Item, TriggerSync(m, i), UNCHANGED matBook
    PROVE  MatInv'
<1>1. [NoSync EXCEPT !.out = TRUE] \in SyncShape
  BY DEF NoSync, SyncShape
<1>2. matNet' \in NetShape /\ matNet'.import = matNet.import
  BY <1>1 DEF TriggerSync, MatInv, NetShape
<1>3. PageSound(mat', matNet.import) /\ mat'.imported = mat.imported
  BY DEF TriggerSync, PageSound, PageShape
<1>4. QED
  BY <1>2, <1>3 DEF MatInv

LEMMA VisitKeeps ==
    ASSUME MatInv, NEW a \in MatAccount, MatVisit(a)
    PROVE  MatInv'
<1> DEFINE m == [mat EXCEPT !.here = a]
<1>1. PageSound(m, matNet.import) /\ m.imported = mat.imported
  BY DEF MatInv, PageSound, PageShape
<1> HIDE DEF m
<1>2. CASE DueToday(a)
  <2>1. Link[a] \in Item
    BY <1>2, MatAssumption DEF DueToday
  <2>2. TriggerSync(m, Link[a]) /\ UNCHANGED matBook
    BY <1>2 DEF MatVisit, m
  <2>3. QED
    BY <1>1, <2>1, <2>2, TriggerKeeps
<1>3. CASE ~DueToday(a)
  BY <1>1, <1>3 DEF MatVisit, MatInv, m
<1>4. QED
  BY <1>2, <1>3

LEMMA SyncNowKeeps == MatInv /\ SyncNow => MatInv'
<1> SUFFICES ASSUME MatInv, SyncNow PROVE MatInv'
  OBVIOUS
<1>1. mat.here \in MatAccount
  BY DEF SyncNow, MatInv, PageSound, PageShape
<1>2. Link[mat.here] \in Item
  BY <1>1, MatAssumption DEF SyncNow
<1>3. QED
  BY <1>2, TriggerKeeps DEF SyncNow, MatInv

LEMMA RunSyncKeeps ==
    ASSUME MatInv, NEW i \in Item, RunSync(i)
    PROVE  MatInv'
<1>1. PICK new \in SUBSET {t \in Txn : BankOf[t] = i /\ t \notin matBook.booked} :
        LET staged == matBook.staged \cup new
        IN  /\ matBook' = [matBook EXCEPT !.staged = staged, !.today = @ \cup {i}]
            /\ matNet' = [matNet EXCEPT !.sync[i].run = TRUE,
                 !.sync[i].ids = {t \in staged \ (matBook.dismissed \cup matBook.booked) :
                                    BankOf[t] = i}]
  BY DEF RunSync
<1> DEFINE staged == matBook.staged \cup new
           ids == {t \in staged \ (matBook.dismissed \cup matBook.booked) : BankOf[t] = i}
<1>2. staged \in SUBSET Txn /\ ids \in SUBSET Txn
  BY DEF MatInv, BookShape
<1>3. /\ matBook' = [matBook EXCEPT !.staged = staged, !.today = @ \cup {i}]
      /\ matNet' = [matNet EXCEPT !.sync[i].run = TRUE, !.sync[i].ids = ids]
  BY <1>1
<1> HIDE DEF staged, ids
<1>4. matBook' \in BookShape /\ matBook'.booked = matBook.booked
  BY <1>2, <1>3 DEF MatInv, BookShape
<1>5. matNet' \in NetShape /\ matNet'.import = matNet.import
  <2> DEFINE answer == [matNet.sync[i] EXCEPT !.run = TRUE, !.ids = ids]
  <2>1. matNet \in NetShape /\ matNet.sync[i] \in SyncShape
    BY DEF MatInv, NetShape
  <2>2. answer \in SyncShape
    BY <1>2, <2>1 DEF SyncShape
  <2>3. matNet' = [matNet EXCEPT !.sync[i] = answer]
    BY <1>3, <2>1 DEF NetShape
  <2> HIDE DEF answer
  <2>4. QED
    BY <2>1, <2>2, <2>3 DEF NetShape
<1>6. mat' = mat
  BY DEF RunSync
<1>7. QED
  BY <1>4, <1>5, <1>6 DEF MatInv

LEMMA SyncEndKeeps ==
    ASSUME MatInv, NEW i \in Item, SyncAnswered(i) \/ SyncFailed(i)
    PROVE  MatInv'
<1> DEFINE m == [mat EXCEPT !.syncing = FALSE]
           ids == matNet.sync[i].ids
<1>1. matNet' \in NetShape /\ matNet'.import = matNet.import
  BY StartShape DEF SyncAnswered, SyncFailed, MatInv, NetShape
<1>2. PageSound(m, matNet.import) /\ m.imported = mat.imported
      /\ m.open = mat.open /\ m.importing = mat.importing
  BY DEF MatInv, PageSound, PageShape
<1>3. ids \in SUBSET Txn
  BY DEF MatInv, NetShape, SyncShape
<1>4. UNCHANGED matBook
  BY DEF SyncAnswered, SyncFailed
<1>5. mat' \in {m, [m EXCEPT !.label = i], Mounted(m, i, ids)}
  BY DEF SyncAnswered, SyncFailed
<1> HIDE DEF m, ids
<1>6. PageSound(mat', matNet.import) /\ mat'.imported = mat.imported
  <2>1. CASE mat' = m
    BY <1>2, <2>1
  <2>2. CASE mat' = [m EXCEPT !.label = i]
    BY <1>2, <2>2 DEF PageSound, PageShape
  <2>3. CASE mat' = Mounted(m, i, ids)
    BY <1>2, <1>3, <2>3, MountedSound DEF PageSound
  <2>4. QED
    BY <1>5, <2>1, <2>2, <2>3
<1>7. QED
  BY <1>1, <1>4, <1>6 DEF MatInv

-----------------------------------------------------------------------------
(* The rows, and their dismissal. *)
LEMMA RowsKeep ==
    ASSUME MatInv, NEW t \in Txn, NEW c \in Category, SetCategory(t, c) \/ ToggleIncluded(t)
    PROVE  MatInv'
BY DEF SetCategory, ToggleIncluded, MatInv, PageSound, PageShape

LEMMA DismissKeeps ==
    ASSUME MatInv, NEW t \in Txn,
           DismissClick(t) \/ RunDismiss(t) \/ DismissAnswered(t) \/ DismissFailed(t)
    PROVE  MatInv'
<1>1. matNet' \in NetShape /\ matNet'.import = matNet.import
  BY DEF MatInv, NetShape, DismissClick, RunDismiss, DismissAnswered, DismissFailed
<1>2. matBook' \in BookShape /\ matBook'.booked = matBook.booked
  BY DEF MatInv, BookShape, DismissClick, RunDismiss, DismissAnswered, DismissFailed
<1>3. PageSound(mat', matNet.import) /\ mat'.imported = mat.imported
  <2> USE DEF MatInv, PageSound, PageShape
  <2>1. CASE DismissClick(t) \/ DismissFailed(t)
    BY <2>1 DEF DismissClick, DismissFailed
  <2>2. CASE RunDismiss(t)
    BY <2>2 DEF RunDismiss
  <2>3. CASE DismissAnswered(t)
    <3>1. mat' = [mat EXCEPT !.rows = @ \ {t}, !.included = @ \ {t},
                             !.cat = [mat.cat EXCEPT ![t] = NoCategory], !.dismissing = NoTxn]
      BY <2>3 DEF DismissAnswered
    <3>2. [mat.cat EXCEPT ![t] = NoCategory] \in [Txn -> Category \cup {NoCategory}]
      OBVIOUS
    <3>3. QED
      BY <3>1, <3>2
  <2>4. QED
    BY <2>1, <2>2, <2>3
<1>4. QED
  BY <1>1, <1>2, <1>3 DEF MatInv

-----------------------------------------------------------------------------
(* The import. *)
LEMMA ConfirmKeeps == MatInv /\ Confirm => MatInv'
<1> SUFFICES ASSUME MatInv, Confirm PROVE MatInv'
  OBVIOUS
<1> DEFINE q == [NoImport EXCEPT !.out = TRUE, !.own = TRUE, !.sent = mat.included,
                                 !.todo = mat.included]
<1>1. mat.included \in SUBSET Txn /\ matBook \in BookShape
  BY DEF MatInv, PageSound, PageShape
<1>2. ImportSound(q, matBook.booked) /\ q.out /\ q.own
  BY <1>1 DEF NoImport, ImportSound, ImportShape
<1>3. matNet' = [matNet EXCEPT !.import = q] /\ UNCHANGED matBook
  BY DEF Confirm
<1> HIDE DEF q
<1>4. matNet' \in NetShape /\ matNet'.import = q
  BY <1>2, <1>3 DEF MatInv, NetShape, ImportSound
<1>5. PageSound(mat', q) /\ mat'.imported = {}
  BY <1>2 DEF MatInv, PageSound, PageShape, Confirm
<1>6. QED
  BY <1>2, <1>3, <1>4, <1>5 DEF MatInv

(* What the loop and its end leave of the import is sound over books that  *)
(* have only grown. *)
LEMMA ImportStep ==
    ASSUME MatInv, NEW q, matNet' = [matNet EXCEPT !.import = q],
           q.out = matNet.import.out, q.own = matNet.import.own,
           ImportSound(q, matBook'.booked), matBook' \in BookShape,
           matBook.booked \subseteq matBook'.booked, UNCHANGED mat
    PROVE  MatInv'
<1>1. matNet' \in NetShape /\ matNet'.import = q
  BY DEF MatInv, NetShape, ImportSound
<1>2. QED
  BY <1>1 DEF MatInv, PageSound

LEMMA ImportRowKeeps == MatInv /\ ImportRow => MatInv'
<1> SUFFICES ASSUME MatInv, ImportRow PROVE MatInv'
  OBVIOUS
<1> DEFINE t == NextRow
           old == matNet.import
           taken == [old EXCEPT !.todo = @ \ {t}]
           missed == [taken EXCEPT !.failed = @ \cup {t}]
<1>1. t \in old.todo
  <2>1. old.todo \in SUBSET Nat /\ old.todo # {}
    BY MatAssumption DEF ImportRow, MatInv, ImportSound, ImportShape
  <2>2. \E n \in old.todo : \A u \in old.todo : n <= u
    <3>1. PICK n \in old.todo : \A u \in old.todo : ~(<<u, n>> \in OpToRel(<, Nat))
      BY <2>1, NatLessThanWellFounded, WFMin
    <3>2. ASSUME NEW u \in old.todo PROVE ~(u < n)
      <4>1. <<u, n>> \in Nat \X Nat /\ <<u, n>>[1] = u /\ <<u, n>>[2] = n
        BY <2>1
      <4>2. QED
        BY <3>1, <4>1, Zenon DEF OpToRel
    <3>3. QED
      BY <2>1, <3>2
  <2>3. QED
    BY <2>2 DEF NextRow
<1>2. ImportSound(old, matBook.booked) /\ matBook \in BookShape
  BY DEF MatInv
<1> HIDE DEF t
<1>3. taken.out = old.out /\ taken.own = old.own /\ missed.out = old.out /\ missed.own = old.own
  BY <1>2 DEF ImportSound, ImportShape
<1>4. ASSUME t \in matBook.staged \ matBook.booked,
             matBook' = [matBook EXCEPT !.booked = @ \cup {t}, !.staged = @ \ {t}],
             matNet' = [matNet EXCEPT !.import = taken]
      PROVE  MatInv'
  <2>1. matBook' \in BookShape /\ matBook'.booked = matBook.booked \cup {t}
    BY <1>2, <1>4 DEF BookShape
  <2>2. ImportSound(taken, matBook'.booked)
    BY <1>1, <1>2, <2>1 DEF ImportSound, ImportShape
  <2>3. QED
    BY <1>3, <1>4, <2>1, <2>2, ImportStep DEF ImportRow
<1>5. ASSUME t \in matBook.booked, UNCHANGED matBook,
             matNet' = [matNet EXCEPT !.import = taken]
      PROVE  MatInv'
  <2>1. ImportSound(taken, matBook'.booked)
    BY <1>1, <1>2, <1>5 DEF ImportSound, ImportShape
  <2>2. QED
    BY <1>2, <1>3, <1>5, <2>1, ImportStep DEF ImportRow
<1>6. ASSUME UNCHANGED matBook, matNet' = [matNet EXCEPT !.import = missed]
      PROVE  MatInv'
  <2>1. ImportSound(missed, matBook'.booked)
    BY <1>1, <1>2, <1>6 DEF ImportSound, ImportShape
  <2>2. QED
    BY <1>2, <1>3, <1>6, <2>1, ImportStep DEF ImportRow
<1>7. QED
  BY <1>4, <1>5, <1>6 DEF ImportRow, t

LEMMA ImportBrokenKeeps == MatInv /\ ImportBroken => MatInv'
<1> SUFFICES ASSUME MatInv, ImportBroken PROVE MatInv'
  OBVIOUS
<1> DEFINE q == [matNet.import EXCEPT !.todo = {}, !.broken = TRUE]
<1>1. /\ ImportSound(q, matBook.booked)
      /\ q.out = matNet.import.out /\ q.own = matNet.import.own
  BY DEF MatInv, ImportSound, ImportShape
<1>2. matNet' = [matNet EXCEPT !.import = q]
  BY DEF ImportBroken, MatInv, NetShape
<1> HIDE DEF q
<1>3. QED
  BY <1>1, <1>2, ImportStep DEF ImportBroken, MatInv

LEMMA ImportEndKeeps == MatInv /\ (ImportAnswered \/ ImportFailed) => MatInv'
<1> SUFFICES ASSUME MatInv, ImportAnswered \/ ImportFailed PROVE MatInv'
  OBVIOUS
<1> DEFINE q == matNet.import
           kept == IF q.own THEN [mat EXCEPT !.importing = FALSE] ELSE mat
<1>1. ImportSound(NoImport, matBook.booked)
  BY StartShape DEF NoImport, ImportSound, MatInv
<1>2. CASE mat' = kept /\ matNet' = [matNet EXCEPT !.import = NoImport]
  <2>1. matNet' \in NetShape /\ matNet'.import = NoImport
    BY <1>2, StartShape DEF MatInv, NetShape
  <2>2. PageSound(mat', NoImport) /\ mat'.imported = mat.imported
    BY <1>2 DEF MatInv, PageSound, PageShape
  <2>3. QED
    BY <1>1, <2>1, <2>2 DEF MatInv, ImportAnswered, ImportFailed
<1>3. CASE /\ Complete(q) /\ q.todo = {}
           /\ mat' = [Unmounted(mat) EXCEPT !.imported = q.sent]
           /\ matNet' = [Forgotten(matNet) EXCEPT !.import = NoImport]
  <2>1. matNet' \in NetShape /\ matNet'.import = NoImport
    <3>1. Forgotten(matNet) \in NetShape
      BY ForgottenShape DEF MatInv
    <3>2. QED
      BY <1>3, <3>1, StartShape DEF NetShape
  <2>2. q.sent \subseteq matBook.booked /\ q.sent \in SUBSET Txn
    BY <1>3 DEF Complete, MatInv, ImportSound, ImportShape
  <2>3. PageSound(mat', NoImport) /\ mat'.imported = q.sent
    <3>1. /\ Unmounted(mat) \in PageShape /\ Unmounted(mat).included = {}
          /\ Unmounted(mat).rows = {} /\ ~Unmounted(mat).importing
      BY UnmountedShape DEF MatInv, PageSound
    <3>2. QED
      BY <1>3, <2>2, <3>1 DEF PageSound, PageShape
  <2>4. QED
    BY <1>1, <2>1, <2>2, <2>3 DEF MatInv, ImportAnswered, ImportFailed
<1>4. QED
  BY <1>2, <1>3 DEF ImportAnswered, ImportFailed

LEMMA CloseKeeps == MatInv /\ MatClose => MatInv'
<1> SUFFICES ASSUME MatInv, MatClose PROVE MatInv'
  OBVIOUS
<1>1. /\ Unmounted(mat) \in PageShape /\ Unmounted(mat).included = {}
      /\ Unmounted(mat).rows = {} /\ ~Unmounted(mat).importing
      /\ Unmounted(mat).imported = mat.imported
  BY UnmountedShape DEF MatInv, PageSound
<1>2. /\ Forgotten(matNet) \in NetShape
      /\ Forgotten(matNet).import = [matNet.import EXCEPT !.own = FALSE]
  BY ForgottenShape DEF MatInv
<1>3. ImportSound([matNet.import EXCEPT !.own = FALSE], matBook.booked)
  BY DEF MatInv, ImportSound, ImportShape
<1>4. QED
  BY <1>1, <1>2, <1>3 DEF MatInv, PageSound, MatClose

-----------------------------------------------------------------------------
LEMMA MatStepKeeps == ASSUME MatInv, [MatNext]_matVars PROVE MatInv'
<1>1. CASE NextDay
  BY <1>1 DEF NextDay, MatInv, BookShape
<1>2. ASSUME NEW i \in Item, RunSync(i) \/ SyncAnswered(i) \/ SyncFailed(i)
      PROVE  MatInv'
  BY <1>2, RunSyncKeeps, SyncEndKeeps
<1>3. ASSUME NEW t \in Txn,
             \/ ToggleIncluded(t) \/ DismissClick(t) \/ RunDismiss(t)
             \/ DismissAnswered(t) \/ DismissFailed(t)
             \/ \E c \in Category : SetCategory(t, c)
      PROVE  MatInv'
  <2>1. CASE ToggleIncluded(t)
    BY <2>1 DEF ToggleIncluded, MatInv, PageSound, PageShape
  <2>2. QED
    BY <1>3, <2>1, RowsKeep, DismissKeeps
<1>4. CASE ImportRow \/ ImportBroken \/ ImportAnswered \/ ImportFailed \/ Confirm \/ MatClose
  BY <1>4, ImportRowKeeps, ImportBrokenKeeps, ImportEndKeeps, ConfirmKeeps, CloseKeeps
<1>5. CASE UNCHANGED matVars
  BY <1>5 DEF matVars, MatInv
<1>6. QED
  BY <1>1, <1>2, <1>3, <1>4, <1>5, VisitKeeps, SyncNowKeeps DEF MatNext

THEOREM MatAlways == MatSpec => []MatInv
BY MatInitKeeps, MatStepKeeps, PTL DEF MatSpec

(* The types; the matcher's buttons are never left disabled by an import   *)
(* that is not its own (setImporting in handleConfirm). *)
THEOREM MatcherTypes == MatSpec => []MatTypeOK
<1>1. MatInv => MatTypeOK
  BY DEF MatInv, PageSound, ImportSound, PageShape, BookShape, MatTypeOK
<1>2. QED
  BY <1>1, MatAlways, PTL

(* Rows reported as imported are in the ledger (handleConfirm and Import's *)
(* answer): whatever is synced, dismissed, closed or lost in between. *)
THEOREM ImportedBooked == MatSpec => []MatImportedBooked
<1>1. MatInv => MatImportedBooked
  BY DEF MatInv, MatImportedBooked
<1>2. QED
  BY <1>1, MatAlways, PTL

-----------------------------------------------------------------------------
(* The reconcile wizard.  Types of all fields. *)
RecPage ==
    [step : {"closed", "info", "select"}, accts : SUBSET RecAccount, typed : BOOLEAN,
     date : Nat, ending : Int, filled : BOOLEAN, starting : Int, entries : SUBSET RecSplit,
     amt : [RecSplit -> Int], selected : SUBSET RecSplit, loading : BOOLEAN,
     wrote : BOOLEAN, known : BOOLEAN, calm : BOOLEAN, goal : Int, events : Nat]
RecRequest ==
    [out : BOOLEAN, unread : SUBSET RecAccount, amt : [RecSplit -> Int],
     mark : [RecSplit -> {"n", "c", "y"}], sent : SUBSET RecSplit, cutoff : Nat,
     own : BOOLEAN, run : BOOLEAN]
RecServer == [amt : [RecSplit -> Int], mark : [RecSplit -> {"n", "c", "y"}]]
RecKinds == Reads \cup {BatchQ}
RecListed(r) == r.entries \subseteq SplitsOf(r.accts) /\ r.selected \subseteq r.entries
RecPhase(r, net) ==
    /\ r.known => ~net[BalanceQ].out
    /\ net[RegisterQ].out => r.step = "info" /\ r.loading
    /\ net[BatchQ].out /\ net[BatchQ].own => r.step = "select" /\ r.loading
    /\ r.step = "closed" => \A k \in Reads : ~net[k].out
    /\ net[BatchQ].run => net[BatchQ].out
    /\ \A k \in RecKinds : net[k].unread # {} => net[k].out

AsAnswered(q, A, b) ==
    \A s \in SplitsOf(A \ q.unread) : q.amt[s] = b.amt[s] /\ q.mark[s] = b.mark[s]
Cleared(b, A) == {s \in SplitsOf(A) : b.mark[s] = "y"}
Unwritten(r, net, b) ==
    /\ \A k \in {BalanceQ, RegisterQ} : net[k].out => AsAnswered(net[k], r.accts, b)
    /\ r.known /\ ~r.wrote => r.starting = RecSum(b.amt, Cleared(b, r.accts))
    /\ r.step = "select" => \A s \in r.entries : r.amt[s] = b.amt[s] /\ b.mark[s] # "y"
Batched(r, q, b) ==
    /\ q.out => /\ q.own /\ r.known /\ q.sent \subseteq SplitsOf(r.accts)
                /\ SignsAgree(r) =>
                       r.goal = Signed(r, RecSum(b.amt, Cleared(b, r.accts) \cup q.sent))
    /\ q.run => q.sent \subseteq Cleared(b, r.accts)
    /\ r.wrote => /\ ~q.out /\ r.step = "closed"
                  /\ SignsAgree(r) => r.goal = Signed(r, RecSum(b.amt, Cleared(b, r.accts)))
RecTrue(r, net, b) ==
    /\ r.step # "closed" \/ r.wrote
    /\ ~net[BatchQ].run => Unwritten(r, net, b)
    /\ Batched(r, net[BatchQ], b)

RecGood(r, net, b) ==
    /\ r \in RecPage /\ net \in [RecKinds -> RecRequest] /\ b \in RecServer
    /\ RecListed(r) /\ RecPhase(r, net)
    /\ r.calm => RecTrue(r, net, b)
RecInv == RecGood(rec, recNet, recBook)

LEMMA Kinds ==
    /\ BalanceQ \in Reads /\ RegisterQ \in Reads /\ BatchQ \in RecKinds /\ Reads \subseteq RecKinds
    /\ BalanceQ # RegisterQ /\ BatchQ \notin Reads
    /\ \A d \in RecDates : Hint(d) \in Reads /\ Hint(d) # BalanceQ /\ Hint(d) # RegisterQ
BY DEF Reads, RecKinds, BalanceQ, RegisterQ, BatchQ, Hint

LEMMA NobodyTyped ==
    /\ Nobody \in RecRequest /\ ~Nobody.out /\ Nobody.unread = {} /\ ~Nobody.run
    /\ NoAsk \in [RecKinds -> RecRequest] /\ \A k \in RecKinds : NoAsk[k] = Nobody
<1>1. Nobody \in RecRequest /\ ~Nobody.out /\ Nobody.unread = {} /\ ~Nobody.run
  BY DEF Nobody, RecRequest
<1>2. QED
  BY <1>1 DEF NoAsk, RecKinds

LEMMA AskedTyped ==
    ASSUME NEW A \in SUBSET RecAccount
    PROVE  /\ Asked(A) \in RecRequest /\ Asked(A).out /\ Asked(A).unread = A /\ Asked(A).own
           /\ ~Asked(A).run
<1>1. PICK q : q = [Nobody EXCEPT !.out = TRUE, !.unread = A, !.own = TRUE]
  OBVIOUS
<1>2. q \in RecRequest /\ q.out /\ q.unread = A /\ q.own /\ ~q.run
  BY <1>1, NobodyTyped DEF RecRequest
<1>3. QED
  BY <1>1, <1>2 DEF Asked

(* One request is put in its place. *)
LEMMA NetPut ==
    ASSUME NEW net \in [RecKinds -> RecRequest], NEW k \in RecKinds, NEW q \in RecRequest,
           NEW after, after = [net EXCEPT ![k] = q]
    PROVE  /\ after \in [RecKinds -> RecRequest] /\ after[k] = q
           /\ \A j \in RecKinds : j # k => after[j] = net[j]
OBVIOUS

(* Amounts and their sums. *)
LEMMA RecFinite ==
    /\ IsFiniteSet(RecSplit) /\ \A A : SplitsOf(A) \subseteq RecSplit
    /\ \A A, b : Cleared(b, A) \subseteq RecSplit
BY RecAssumption DEF SplitsOf, Cleared

LEMMA RecSumInt ==
    ASSUME NEW f \in [RecSplit -> Int], NEW S \in SUBSET RecSplit
    PROVE  RecSum(f, S) \in Int
<1>1. IsFiniteSet(S) /\ \A s \in S : f[s] \in Int
  BY RecFinite, FS_Subset
<1>2. RecSum(f, S) = SumOver(f, S)
  BY DEF RecSum, SumOver
<1>3. QED
  BY <1>1, <1>2, SumInt

LEMMA RecSumSame ==
    ASSUME NEW f, NEW g, NEW S \in SUBSET RecSplit, \A s \in S : f[s] = g[s]
    PROVE  RecSum(f, S) = RecSum(g, S)
<1>1. IsFiniteSet(S)
  BY RecFinite, FS_Subset
<1>2. RecSum(f, S) = SumOver(f, S) /\ RecSum(g, S) = SumOver(g, S)
  BY DEF RecSum, SumOver
<1>3. QED
  BY <1>1, <1>2, SumSame

LEMMA RecSumUnion ==
    ASSUME NEW f \in [RecSplit -> Int], NEW A \in SUBSET RecSplit, NEW B \in SUBSET RecSplit,
           A \cap B = {}
    PROVE  RecSum(f, A \cup B) = RecSum(f, A) + RecSum(f, B)
<1>1. PICK S : S = A \cup B
  OBVIOUS
<1>2. IsFiniteSet(S) /\ \A s \in S : f[s] \in Int
  BY <1>1, RecFinite, FS_Subset
<1>3. SumOver(f, S) = SumOver(f, A) + SumOver(f, B)
  BY <1>1, <1>2, SumUnion
<1>4. QED
  BY <1>1, <1>3 DEF RecSum, SumOver

LEMMA TotalInt ==
    ASSUME NEW r \in RecPage
    PROVE  Total(r, TRUE) \in Int /\ Total(r, FALSE) \in Int
<1> DEFINE size == [s \in RecSplit |-> Abs(r.amt[s])]
           Side(in) == {s \in r.entries \cap r.selected : FundsIn(r, s) = in}
<1>1. size \in [RecSplit -> Int]
  BY DEF RecPage, Abs
<1>2. \A in : Side(in) \in SUBSET RecSplit
  BY DEF RecPage
<1>3. \A in : RecSum(size, Side(in)) = Total(r, in)
  BY DEF Total
<1> HIDE DEF size, Side
<1>4. \A in : RecSum(size, Side(in)) \in Int
  BY <1>1, <1>2, RecSumInt
<1>5. QED
  BY <1>3, <1>4, Zenon

(* Funds in less funds out are the amounts that are ticked, if the wizard  *)
(* and the server agree on which side increases the accounts: what the     *)
(* server calls a deposit is taken as funds in exactly if it is positive,  *)
(* but for a zero. *)
LEMMA FundsAreAmounts ==
    ASSUME NEW r \in RecPage, RecListed(r), SignsAgree(r)
    PROVE  Total(r, TRUE) - Total(r, FALSE) = RecSum(r.amt, r.selected)
<1> DEFINE S == r.entries \cap r.selected
           In == {s \in S : FundsIn(r, s) = TRUE}
           Out == {s \in S : FundsIn(r, s) = FALSE}
           size == [s \in RecSplit |-> Abs(r.amt[s])]
<1>1. PICK amt \in [RecSplit -> Int] : amt = r.amt
  BY DEF RecPage
<1>2. S = r.selected /\ S \subseteq SplitsOf(r.accts) /\ S \subseteq RecSplit
  BY RecFinite DEF RecListed
<1>3. ASSUME NEW s \in S
      PROVE  /\ FundsIn(r, s) \in BOOLEAN
             /\ FundsIn(r, s) => size[s] = amt[s]
             /\ ~FundsIn(r, s) => size[s] = -amt[s]
  <2>1. s \in RecSplit /\ RecHome[s] \in r.accts /\ amt[s] \in Int /\ size[s] = Abs(amt[s])
    BY <1>1, <1>2 DEF SplitsOf
  <2>2. RecHome[s] \in ServerDebit <=> ~CreditNormal(r)
    BY <2>1 DEF SignsAgree, CreditNormal
  <2>3. size[s] = IF amt[s] < 0 THEN -amt[s] ELSE amt[s]
    BY <2>1 DEF Abs
  <2>4. FundsIn(r, s) \in BOOLEAN
    BY Zenon DEF FundsIn
  <2> HIDE DEF S, In, Out, size
  <2>5. CASE CreditNormal(r)
    <3>1. RecHome[s] \notin ServerDebit
      BY <2>2, <2>5
    <3>2. Deposit(s, r.amt[s]) <=> amt[s] <= 0
      BY <1>1, <3>1 DEF Deposit
    <3>3. FundsIn(r, s) <=> ~(amt[s] <= 0)
      BY <2>5, <3>2 DEF FundsIn, CreditNormal, Deposit
    <3>4. QED
      BY <2>1, <2>3, <2>4, <3>3
  <2>6. CASE ~CreditNormal(r)
    <3>1. RecHome[s] \in ServerDebit
      BY <2>2, <2>6
    <3>2. Deposit(s, r.amt[s]) <=> amt[s] >= 0
      BY <1>1, <3>1 DEF Deposit
    <3>3. FundsIn(r, s) <=> amt[s] >= 0
      BY <2>6, <3>2 DEF FundsIn, CreditNormal, Deposit
    <3>4. QED
      BY <2>1, <2>3, <2>4, <3>3
  <2>7. QED
    BY <2>5, <2>6
<1>4. Total(r, TRUE) = RecSum(size, In) /\ Total(r, FALSE) = RecSum(size, Out)
  BY DEF Total
<1>5. In \in SUBSET RecSplit /\ Out \in SUBSET RecSplit /\ In \cup Out = r.selected
      /\ In \cap Out = {}
  BY <1>2, <1>3
<1>6. /\ \A s \in In : size[s] = amt[s]
      /\ \A s \in Out : size[s] = -amt[s] /\ amt[s] \in Int
  BY <1>3, <1>5
<1> HIDE DEF In, Out, size, S
<1>7. RecSum(size, In) = RecSum(amt, In)
  BY <1>5, <1>6, RecSumSame
<1>8. RecSum(size, Out) = -RecSum(amt, Out)
  <2>1. IsFiniteSet(Out)
    BY <1>5, RecFinite, FS_Subset
  <2>2. SumOver(size, Out) = -SumOver(amt, Out)
    BY <1>6, <2>1, SumOpposite
  <2>3. QED
    BY <2>2 DEF RecSum, SumOver
<1>9. RecSum(amt, r.selected) = RecSum(amt, In) + RecSum(amt, Out)
  BY <1>5, RecSumUnion
<1>10. RecSum(amt, In) \in Int /\ RecSum(amt, Out) \in Int
  BY <1>5, RecSumInt
<1>11. PICK t, f : t = Total(r, TRUE) /\ f = Total(r, FALSE)
  OBVIOUS
<1>12. t = RecSum(amt, In) /\ f = -RecSum(amt, Out)
  BY <1>4, <1>7, <1>8, <1>11, Zenon
<1>13. t - f = RecSum(r.amt, r.selected)
  BY <1>1, <1>9, <1>10, <1>12
<1>14. QED
  BY <1>11, <1>13, Zenon
-----------------------------------------------------------------------------
(* What the invariant does not look at: dates, the ending balance, ticks,  *)
(* suggestions. *)
RecAlike(p, r) ==
    /\ p.step = r.step /\ p.accts = r.accts /\ p.typed = r.typed /\ p.starting = r.starting
    /\ p.entries = r.entries /\ p.amt = r.amt /\ p.loading = r.loading
    /\ p.wrote = r.wrote /\ p.known = r.known /\ p.calm = r.calm /\ p.goal = r.goal
Followed == {BalanceQ, RegisterQ, BatchQ}

LEMMA AlikeSigns ==
    ASSUME NEW p, NEW r, p.accts = r.accts, p.typed = r.typed
    PROVE  /\ SignsAgree(p) <=> SignsAgree(r)
           /\ \A n : Signed(p, n) = Signed(r, n)
BY DEF SignsAgree, Signed, CreditNormal

LEMMA AlikeTrue ==
    ASSUME NEW r, NEW net, NEW b, NEW p, NEW n, RecTrue(r, net, b), RecAlike(p, r),
           \A k \in Followed : n[k] = net[k]
    PROVE  RecTrue(p, n, b)
<1>1. /\ n[BalanceQ] = net[BalanceQ] /\ n[RegisterQ] = net[RegisterQ]
      /\ n[BatchQ] = net[BatchQ]
  BY DEF Followed
<1>2. Unwritten(r, net, b) => Unwritten(p, n, b)
  BY <1>1 DEF Unwritten, RecAlike
<1>3. /\ SignsAgree(p) <=> SignsAgree(r)
      /\ \A m : Signed(p, m) = Signed(r, m)
  BY AlikeSigns DEF RecAlike
<1>4. Batched(r, net[BatchQ], b) => Batched(p, n[BatchQ], b)
  BY <1>1, <1>3 DEF Batched, RecAlike
<1>5. QED
  BY <1>1, <1>2, <1>4 DEF RecTrue, RecAlike

LEMMA RecAside ==
    ASSUME NEW r, NEW net, NEW b, RecGood(r, net, b),
           NEW p \in RecPage, NEW n \in [RecKinds -> RecRequest],
           RecAlike(p, r), p.selected \subseteq r.entries,
           \A k \in Followed : n[k] = net[k],
           \A k \in Reads : n[k].out => net[k].out \/ r.step # "closed",
           \A k \in RecKinds : n[k].unread # {} => n[k].out
    PROVE  RecGood(p, n, b)
<1>1. RecListed(p)
  BY DEF RecGood, RecListed, RecAlike
<1>2. RecPhase(p, n)
  <2>1. RecPhase(r, net)
    BY DEF RecGood
  <2>2. /\ n[BalanceQ] = net[BalanceQ] /\ n[RegisterQ] = net[RegisterQ]
        /\ n[BatchQ] = net[BatchQ]
    BY DEF Followed
  <2>3. p.step = "closed" => \A k \in Reads : ~n[k].out
    BY <2>1 DEF RecPhase, RecAlike
  <2>4. QED
    BY <2>1, <2>2, <2>3 DEF RecPhase, RecAlike
<1>3. p.calm => RecTrue(p, n, b)
  BY AlikeTrue DEF RecGood, RecAlike
<1>4. QED
  BY <1>1, <1>2, <1>3 DEF RecGood

(* A read of one account: what is read is the books'. *)
LEMMA ReadTyped ==
    ASSUME RecInv, NEW k \in RecKinds, NEW a \in RecAccount, RecRead(k, a)
    PROVE  \E q \in RecRequest :
             /\ recNet' = [recNet EXCEPT ![k] = q] /\ q.out = recNet[k].out /\ recNet[k].out
             /\ q.unread = recNet[k].unread \ {a} /\ q.own = recNet[k].own
             /\ q.run = recNet[k].run /\ q.sent = recNet[k].sent
             /\ \A A : AsAnswered(recNet[k], A, recBook) => AsAnswered(q, A, recBook)
<1>1. PICK net, b, o : net = recNet /\ b = recBook /\ o = recNet[k]
  OBVIOUS
<1>2. /\ net \in [RecKinds -> RecRequest] /\ b \in RecServer /\ o \in RecRequest
      /\ a \in o.unread /\ o.out /\ o = net[k]
  BY <1>1 DEF RecInv, RecGood, RecPhase, RecRead
<1>3. PICK amt : amt = [s \in RecSplit |-> IF RecHome[s] = a THEN b.amt[s] ELSE o.amt[s]]
  OBVIOUS
<1>4. PICK mark : mark = [s \in RecSplit |-> IF RecHome[s] = a THEN b.mark[s] ELSE o.mark[s]]
  OBVIOUS
<1>5. amt \in [RecSplit -> Int] /\ mark \in [RecSplit -> {"n", "c", "y"}]
  BY <1>2, <1>3, <1>4 DEF RecServer, RecRequest
<1>6. PICK q : q = [o EXCEPT !.unread = o.unread \ {a}, !.amt = amt, !.mark = mark]
  OBVIOUS
<1>7. /\ q \in RecRequest /\ q.out = o.out /\ q.unread = o.unread \ {a} /\ q.own = o.own
      /\ q.run = o.run /\ q.sent = o.sent /\ q.amt = amt /\ q.mark = mark
  BY <1>2, <1>5, <1>6 DEF RecRequest
<1>8. recNet' = [net EXCEPT ![k] = q]
  <2>1. recNet' = [net EXCEPT ![k].unread = @ \ {a}, ![k].amt = amt, ![k].mark = mark]
    BY <1>1, <1>2, <1>3, <1>4 DEF RecRead
  <2>2. PICK n : n = [net EXCEPT ![k].unread = @ \ {a}, ![k].amt = amt, ![k].mark = mark]
    OBVIOUS
  <2>3. n = [net EXCEPT ![k] = n[k]] /\ n[k] = q
    BY <1>2, <1>6, <2>2
  <2>4. QED
    BY <2>1, <2>2, <2>3
<1>9. ASSUME NEW A, AsAnswered(o, A, b)
      PROVE  AsAnswered(q, A, b)
  BY <1>3, <1>4, <1>7, <1>9 DEF AsAnswered, SplitsOf
<1>10. QED
  BY <1>1, <1>2, <1>7, <1>8, <1>9

(* The fields the user fills in. *)
LEMMA FieldsKeep ==
    ASSUME RecInv, ClearEnding \/ TickAll \/ (\E n \in Typed : TypeEnding(n))
                   \/ (\E s \in RecSplit : TickRow(s))
    PROVE  RecInv'
<1>1. PICK r, net, b : r = rec /\ net = recNet /\ b = recBook
  OBVIOUS
<1>2. /\ RecGood(r, net, b) /\ r \in RecPage /\ net \in [RecKinds -> RecRequest]
      /\ RecListed(r) /\ \A k \in RecKinds : net[k].unread # {} => net[k].out
  BY <1>1 DEF RecInv, RecGood, RecPhase
<1>3. ASSUME NEW p \in RecPage, rec' = p, UNCHANGED <<recNet, recBook>>, RecAlike(p, r),
             p.selected \subseteq r.entries
      PROVE  RecInv'
  <2>1. RecGood(p, net, b)
    BY <1>2, <1>3, RecAside
  <2>2. QED
    BY <1>1, <1>3, <2>1 DEF RecInv
<1>4. ASSUME NEW n \in Int, NEW filled \in BOOLEAN, UNCHANGED <<recNet, recBook>>,
             rec' = [rec EXCEPT !.ending = n, !.filled = filled]
      PROVE  RecInv'
  <2>1. PICK p : p = [r EXCEPT !.ending = n, !.filled = filled]
    OBVIOUS
  <2>2. p \in RecPage /\ RecAlike(p, r) /\ p.selected = r.selected
    BY <1>2, <2>1 DEF RecPage, RecAlike
  <2>3. QED
    BY <1>1, <1>2, <1>3, <1>4, <2>1, <2>2 DEF RecListed
<1>5. ASSUME NEW S, Select(S), S \subseteq r.entries
      PROVE  RecInv'
  <2>1. PICK p : p = [r EXCEPT !.selected = S]
    OBVIOUS
  <2>2. r.entries \subseteq RecSplit
    BY <1>2 DEF RecPage
  <2>3. p \in RecPage /\ RecAlike(p, r) /\ p.selected = S
    BY <1>2, <1>5, <2>1, <2>2 DEF RecPage, RecAlike
  <2>4. QED
    BY <1>1, <1>3, <1>5, <2>1, <2>3 DEF Select
<1>6. CASE ClearEnding
  <2>1. UNCHANGED <<recNet, recBook>> /\ rec' = [rec EXCEPT !.ending = 0, !.filled = FALSE]
    BY <1>6 DEF ClearEnding
  <2>2. 0 \in Int /\ FALSE \in BOOLEAN
    OBVIOUS
  <2>3. QED
    BY <1>4, <2>1, <2>2
<1>7. CASE TickAll
  BY <1>5, <1>7, <1>1 DEF TickAll
<1>8. ASSUME NEW n \in Typed, TypeEnding(n)
      PROVE  RecInv'
  BY <1>4, <1>8, RecAssumption DEF TypeEnding
<1>9. ASSUME NEW s \in RecSplit, TickRow(s)
      PROVE  RecInv'
  <2>1. (r.selected \ {s}) \cup ({s} \ r.selected) \subseteq r.entries
    BY <1>1, <1>2, <1>9 DEF TickRow, RecListed
  <2>2. QED
    BY <1>1, <1>5, <1>9, <2>1 DEF TickRow
<1>10. QED
  BY <1>6, <1>7, <1>8, <1>9

(* Suggestions are asked for, read, answered and lost. *)
LEMMA HintsKeep ==
    ASSUME RecInv, NEW d \in RecDates,
           \/ PickDate(d) \/ Suggested(d) \/ RecFailed(Hint(d))
           \/ \E a \in RecAccount : RecRead(Hint(d), a)
    PROVE  RecInv'
<1>1. PICK r, net, b, k : r = rec /\ net = recNet /\ b = recBook /\ k = Hint(d)
  OBVIOUS
<1>2. /\ RecGood(r, net, b) /\ r \in RecPage /\ net \in [RecKinds -> RecRequest]
      /\ RecListed(r) /\ \A j \in RecKinds : net[j].unread # {} => net[j].out
      /\ b \in RecServer /\ net[k] \in RecRequest
      /\ k \in Reads /\ k \in RecKinds /\ k \notin Followed /\ k \notin {RegisterQ, BatchQ}
      /\ RecAlike(r, r) /\ r.selected \subseteq r.entries
  BY <1>1, Kinds DEF RecInv, RecGood, RecPhase, RecListed, RecAlike, Followed
<1>3. ASSUME NEW p \in RecPage, NEW q \in RecRequest, rec' = p, recNet' = [net EXCEPT ![k] = q],
             recBook' = b, RecAlike(p, r), p.selected \subseteq r.entries,
             q.out => net[k].out \/ r.step # "closed", q.unread # {} => q.out
      PROVE  RecInv'
  <2>1. PICK n : n = [net EXCEPT ![k] = q]
    OBVIOUS
  <2>2. /\ n \in [RecKinds -> RecRequest] /\ n[k] = q
        /\ \A j \in RecKinds : j # k => n[j] = net[j]
    BY <1>2, <2>1, NetPut
  <2>3. /\ \A j \in Followed : n[j] = net[j]
        /\ \A j \in Reads : n[j].out => net[j].out \/ r.step # "closed"
        /\ \A j \in RecKinds : n[j].unread # {} => n[j].out
    BY <1>2, <1>3, <2>2, Kinds DEF Followed
  <2>4. RecGood(p, n, b)
    BY <1>2, <1>3, <2>2, <2>3, RecAside
  <2>5. QED
    BY <1>3, <2>1, <2>4 DEF RecInv
<1>4. CASE PickDate(d)
  <2>1. PICK p : p = [r EXCEPT !.date = d]
    OBVIOUS
  <2>2. p \in RecPage /\ RecAlike(p, r) /\ p.selected = r.selected
    BY <1>2, <2>1, RecAssumption DEF RecPage, RecAlike
  <2>3. PICK A \in SUBSET RecAccount : A = r.accts
    BY <1>2 DEF RecPage
  <2>4. PICK q : q = Asked(A)
    OBVIOUS
  <2>5. q \in RecRequest /\ q.out
    BY <2>4, AskedTyped
  <2>6. r.step # "closed" /\ rec' = p /\ recNet' = [net EXCEPT ![k] = q] /\ recBook' = b
    BY <1>1, <1>4, <2>1, <2>3, <2>4 DEF PickDate
  <2>7. QED
    BY <1>2, <1>3, <2>2, <2>5, <2>6
<1>5. CASE Suggested(d)
  <2>1. PICK last : last = LastBalance(net[k], r.accts, d)
    OBVIOUS
  <2>2. last \in Int
    <3>1. net[k].amt \in [RecSplit -> Int]
      BY <1>2 DEF RecRequest
    <3>2. \A s : {u \in SplitsOf({RecHome[s]}) : u <= s} \subseteq RecSplit
      BY RecFinite
    <3>3. \A s : RecSum(net[k].amt, {u \in SplitsOf({RecHome[s]}) : u <= s}) \in Int
      BY <3>1, <3>2, RecSumInt
    <3>4. PICK S, s : /\ S = {u \in SplitsOf(r.accts) : u <= d}
                      /\ s = CHOOSE u \in S : \A v \in S : v <= u
      OBVIOUS
    <3>5. last = IF S = {} THEN 0
                 ELSE RecSum(net[k].amt, {u \in SplitsOf({RecHome[s]}) : u <= s})
      BY <2>1, <3>4 DEF LastBalance
    <3>6. QED
      BY <3>3, <3>5
  <2>3. PICK n \in Int : n = Signed(r, last)
    BY <2>2 DEF Signed
  <2>4. PICK p : p = IF NoNull(r.accts) THEN [r EXCEPT !.ending = n, !.filled = TRUE] ELSE r
    OBVIOUS
  <2>5. p \in RecPage /\ RecAlike(p, r) /\ p.selected = r.selected
    BY <1>2, <2>3, <2>4 DEF RecPage, RecAlike
  <2>6. rec' = p /\ recNet' = [net EXCEPT ![k] = Nobody] /\ recBook' = b
    BY <1>1, <1>5, <2>1, <2>3, <2>4 DEF Suggested, RecWithout
  <2>7. QED
    BY <1>2, <1>3, <2>5, <2>6, NobodyTyped
<1>6. CASE RecFailed(k)
  <2>1. rec' = r /\ recNet' = [net EXCEPT ![k] = Nobody] /\ recBook' = b
    BY <1>1, <1>2, <1>6 DEF RecFailed, RecWithout
  <2>2. QED
    BY <1>2, <1>3, <2>1, NobodyTyped
<1>7. ASSUME NEW a \in RecAccount, RecRead(k, a)
      PROVE  RecInv'
  <2>1. PICK q \in RecRequest : /\ recNet' = [net EXCEPT ![k] = q] /\ q.out = net[k].out
                                /\ net[k].out
    BY <1>1, <1>2, <1>7, ReadTyped
  <2>2. rec' = r /\ recBook' = b
    BY <1>1, <1>7 DEF RecRead
  <2>3. QED
    BY <1>2, <1>3, <2>1, <2>2
<1>8. QED
  BY <1>1, <1>4, <1>5, <1>6, <1>7
(* The starting balance and the register: asked for, read and answered. *)
LEMMA ReadKeeps ==
    ASSUME RecInv, NEW k \in {BalanceQ, RegisterQ}, NEW a \in RecAccount, RecRead(k, a)
    PROVE  RecInv'
<1>1. PICK r, net, b : r = rec /\ net = recNet /\ b = recBook
  OBVIOUS
<1>2. /\ RecGood(r, net, b) /\ r \in RecPage /\ net \in [RecKinds -> RecRequest]
      /\ RecListed(r) /\ RecPhase(r, net) /\ b \in RecServer /\ k \in RecKinds /\ k # BatchQ
      /\ k \in Reads
  BY <1>1, Kinds DEF RecInv, RecGood
<1>3. PICK q \in RecRequest :
             /\ recNet' = [net EXCEPT ![k] = q] /\ q.out = net[k].out /\ net[k].out
             /\ q.unread = net[k].unread \ {a}
             /\ q.run = net[k].run
             /\ \A A : AsAnswered(net[k], A, b) => AsAnswered(q, A, b)
  BY <1>1, <1>2, ReadTyped
<1>4. PICK n : n = [net EXCEPT ![k] = q]
  OBVIOUS
<1>5. /\ n \in [RecKinds -> RecRequest] /\ n[k] = q
      /\ \A j \in RecKinds : j # k => n[j] = net[j]
  BY <1>2, <1>4, NetPut
<1>6. \A j \in RecKinds : n[j].out = net[j].out /\ n[j].run = net[j].run
                          /\ (n[j].unread # {} => n[j].out)
  BY <1>2, <1>3, <1>5 DEF RecPhase
<1>7. n[BatchQ] = net[BatchQ]
  BY <1>2, <1>5, Kinds
<1>8. RecPhase(r, n)
  BY <1>2, <1>6, <1>7, Kinds DEF RecPhase
<1>9. ASSUME r.calm
      PROVE  RecTrue(r, n, b)
  <2>1. RecTrue(r, net, b)
    BY <1>2, <1>9 DEF RecGood
  <2>2. Unwritten(r, net, b) => Unwritten(r, n, b)
    BY <1>2, <1>3, <1>5, Kinds DEF Unwritten
  <2>3. QED
    BY <1>7, <2>1, <2>2 DEF RecTrue
<1>10. RecGood(r, n, b)
  BY <1>2, <1>5, <1>8, <1>9 DEF RecGood
<1>11. rec' = r /\ recNet' = n /\ recBook' = b
  BY <1>1, <1>3, <1>4 DEF RecRead
<1>12. QED
  BY <1>10, <1>11 DEF RecInv

(* What is settled, once all accounts are read, is what the books have. *)
LEMMA ClearedSeen ==
    ASSUME NEW q \in RecRequest, NEW A \in SUBSET RecAccount, NEW b \in RecServer,
           AsAnswered(q, A, b),
           q.unread = {}
    PROVE  /\ \A s \in SplitsOf(A) : q.amt[s] = b.amt[s] /\ q.mark[s] = b.mark[s]
           /\ RecSum(q.amt, {s \in SplitsOf(A) : q.mark[s] = "y"}) = RecSum(b.amt, Cleared(b, A))
<1>1. \A s \in SplitsOf(A) : q.amt[s] = b.amt[s] /\ q.mark[s] = b.mark[s]
  BY DEF AsAnswered
<1>2. PICK S \in SUBSET RecSplit : S = Cleared(b, A)
  BY RecFinite
<1>3. {s \in SplitsOf(A) : q.mark[s] = "y"} = S
  BY <1>1, <1>2 DEF Cleared
<1>4. RecSum(q.amt, S) = RecSum(b.amt, S)
  BY <1>1, <1>2, RecSumSame DEF Cleared
<1>5. RecSum(q.amt, {s \in SplitsOf(A) : q.mark[s] = "y"}) = RecSum(q.amt, S)
  BY <1>3, Zenon
<1>6. QED
  BY <1>1, <1>2, <1>4, <1>5

LEMMA BalanceKeeps == ASSUME RecInv, BalanceAnswered PROVE RecInv'
<1>1. PICK r, net, b : r = rec /\ net = recNet /\ b = recBook
  OBVIOUS
<1>2. /\ RecGood(r, net, b) /\ r \in RecPage /\ net \in [RecKinds -> RecRequest]
      /\ RecListed(r) /\ RecPhase(r, net) /\ b \in RecServer
      /\ BalanceQ \in RecKinds /\ BatchQ # BalanceQ /\ RegisterQ # BalanceQ
      /\ BatchQ \in RecKinds /\ RegisterQ \in RecKinds
  BY <1>1, Kinds DEF RecInv, RecGood
<1>3. PICK q \in RecRequest : q = net[BalanceQ]
  BY <1>2
<1>4. PICK A \in SUBSET RecAccount : A = r.accts
  BY <1>2 DEF RecPage
<1>5. PICK m : m = RecSum(q.amt, {s \in SplitsOf(A) : q.mark[s] = "y"})
  OBVIOUS
<1>6. m \in Int
  <2>1. q.amt \in [RecSplit -> Int]
    BY DEF RecRequest
  <2>2. {s \in SplitsOf(A) : q.mark[s] = "y"} \in SUBSET RecSplit
    BY RecFinite
  <2>3. QED
    BY <1>5, <2>1, <2>2, RecSumInt
<1>7. PICK p : p = [r EXCEPT !.known = TRUE, !.starting = m]
  OBVIOUS
<1>8. /\ p \in RecPage /\ p.step = r.step /\ p.accts = r.accts /\ p.typed = r.typed
      /\ p.starting = m /\ p.entries = r.entries /\ p.amt = r.amt /\ p.loading = r.loading
      /\ p.wrote = r.wrote /\ p.known /\ p.calm = r.calm /\ p.goal = r.goal
      /\ p.selected = r.selected
  BY <1>2, <1>6, <1>7 DEF RecPage
<1>9. PICK n : n = [net EXCEPT ![BalanceQ] = Nobody]
  OBVIOUS
<1>10. /\ n \in [RecKinds -> RecRequest] /\ n[BalanceQ] = Nobody
       /\ \A j \in RecKinds : j # BalanceQ => n[j] = net[j]
  BY <1>2, <1>9, NetPut, NobodyTyped
<1>11. RecListed(p)
  BY <1>2, <1>8 DEF RecListed
<1>12. RecPhase(p, n)
  BY <1>2, <1>8, <1>10, NobodyTyped, Kinds DEF RecPhase
<1>13. q.out /\ q.unread = {} /\ ~r.known
  BY <1>1, <1>2, <1>3 DEF BalanceAnswered, RecDone, RecPhase
<1>14. ASSUME r.calm
       PROVE  RecTrue(p, n, b)
  <2>1. RecTrue(r, net, b)
    BY <1>2, <1>14 DEF RecGood
  <2>2. ~net[BatchQ].out /\ ~net[BatchQ].run /\ n[BatchQ] = net[BatchQ]
    BY <1>2, <1>10, <1>13, <2>1 DEF RecTrue, Batched, RecPhase
  <2>3. Unwritten(r, net, b) /\ AsAnswered(q, A, b)
    BY <1>3, <1>4, <1>13, <2>1, <2>2 DEF RecTrue, Unwritten
  <2>4. m = RecSum(b.amt, Cleared(b, A))
    BY <1>2, <1>5, <1>13, <2>3, ClearedSeen
  <2>5. Unwritten(p, n, b)
    BY <1>2, <1>4, <1>8, <1>10, <2>3, <2>4, NobodyTyped DEF Unwritten
  <2>6. Batched(p, n[BatchQ], b)
    <3>1. /\ SignsAgree(p) <=> SignsAgree(r)
          /\ \A x : Signed(p, x) = Signed(r, x)
      BY <1>8, AlikeSigns
    <3>2. Batched(r, net[BatchQ], b)
      BY <2>1 DEF RecTrue
    <3>3. QED
      BY <1>8, <2>2, <3>1, <3>2 DEF Batched
  <2>7. QED
    BY <1>8, <2>1, <2>5, <2>6 DEF RecTrue
<1>15. RecGood(p, n, b)
  BY <1>2, <1>8, <1>10, <1>11, <1>12, <1>14 DEF RecGood
<1>16. rec' = p /\ recNet' = n /\ recBook' = b
  BY <1>1, <1>3, <1>4, <1>5, <1>7, <1>9 DEF BalanceAnswered, RecWithout
<1>17. QED
  BY <1>15, <1>16 DEF RecInv

LEMMA StartKeeps == ASSUME RecInv, StartReconcile PROVE RecInv'
<1>1. PICK r, net, b : r = rec /\ net = recNet /\ b = recBook
  OBVIOUS
<1>2. /\ RecGood(r, net, b) /\ r \in RecPage /\ net \in [RecKinds -> RecRequest]
      /\ RecListed(r) /\ RecPhase(r, net) /\ b \in RecServer
      /\ RegisterQ \in RecKinds /\ BatchQ # RegisterQ /\ RegisterQ # BalanceQ
      /\ BatchQ \in RecKinds /\ BalanceQ \in RecKinds /\ r.step = "info"
  BY <1>1, Kinds DEF RecInv, RecGood, StartReconcile
<1>3. PICK A \in SUBSET RecAccount : A = r.accts
  BY <1>2 DEF RecPage
<1>4. PICK q : q = [Asked(A) EXCEPT !.cutoff = r.date]
  OBVIOUS
<1>5. q \in RecRequest /\ q.out /\ ~q.run /\ q.unread = A
  <2>1. PICK o \in RecRequest : o = Asked(A) /\ o.out /\ ~o.run /\ o.unread = A
    BY AskedTyped
  <2>2. r.date \in Nat
    BY <1>2 DEF RecPage
  <2>3. q = [o EXCEPT !.cutoff = r.date]
    BY <1>4, <2>1
  <2>4. QED
    BY <2>1, <2>2, <2>3 DEF RecRequest
<1>6. PICK p : p = [r EXCEPT !.loading = TRUE]
  OBVIOUS
<1>7. /\ p \in RecPage /\ p.step = r.step /\ p.accts = r.accts /\ p.typed = r.typed
      /\ p.starting = r.starting /\ p.entries = r.entries /\ p.amt = r.amt /\ p.loading
      /\ p.wrote = r.wrote /\ p.known = r.known /\ p.calm = r.calm /\ p.goal = r.goal
      /\ p.selected = r.selected
  BY <1>2, <1>6 DEF RecPage
<1>8. PICK n : n = [net EXCEPT ![RegisterQ] = q]
  OBVIOUS
<1>9. /\ n \in [RecKinds -> RecRequest] /\ n[RegisterQ] = q
      /\ \A j \in RecKinds : j # RegisterQ => n[j] = net[j]
  BY <1>2, <1>5, <1>8, NetPut
<1>10. RecListed(p)
  BY <1>2, <1>7 DEF RecListed
<1>11. RecPhase(p, n)
  BY <1>2, <1>5, <1>7, <1>9, Kinds DEF RecPhase
<1>12. ASSUME r.calm
       PROVE  RecTrue(p, n, b)
  <2>1. RecTrue(r, net, b) /\ n[BatchQ] = net[BatchQ] /\ n[BalanceQ] = net[BalanceQ]
    BY <1>2, <1>9, <1>12 DEF RecGood
  <2>2. AsAnswered(q, A, b)
    BY <1>5 DEF AsAnswered, SplitsOf
  <2>3. Unwritten(r, net, b) => Unwritten(p, n, b)
    BY <1>3, <1>7, <1>9, <2>1, <2>2 DEF Unwritten
  <2>4. Batched(p, n[BatchQ], b)
    <3>1. /\ SignsAgree(p) <=> SignsAgree(r)
          /\ \A x : Signed(p, x) = Signed(r, x)
      BY <1>7, AlikeSigns
    <3>2. Batched(r, net[BatchQ], b)
      BY <2>1 DEF RecTrue
    <3>3. QED
      BY <1>7, <2>1, <3>1, <3>2 DEF Batched
  <2>5. QED
    BY <1>7, <2>1, <2>3, <2>4 DEF RecTrue
<1>13. RecGood(p, n, b)
  BY <1>2, <1>7, <1>9, <1>10, <1>11, <1>12 DEF RecGood
<1>14. rec' = p /\ recNet' = n /\ recBook' = b
  BY <1>1, <1>3, <1>4, <1>6, <1>8 DEF StartReconcile
<1>15. QED
  BY <1>13, <1>14 DEF RecInv

LEMMA RegisterKeeps == ASSUME RecInv, RegisterAnswered PROVE RecInv'
<1>1. PICK r, net, b : r = rec /\ net = recNet /\ b = recBook
  OBVIOUS
<1>2. /\ RecGood(r, net, b) /\ r \in RecPage /\ net \in [RecKinds -> RecRequest]
      /\ RecListed(r) /\ RecPhase(r, net) /\ b \in RecServer
      /\ RegisterQ \in RecKinds /\ BatchQ # RegisterQ /\ RegisterQ # BalanceQ
      /\ BatchQ \in RecKinds /\ BalanceQ \in RecKinds
  BY <1>1, Kinds DEF RecInv, RecGood
<1>3. PICK q \in RecRequest : q = net[RegisterQ]
  BY <1>2
<1>4. PICK A \in SUBSET RecAccount : A = r.accts
  BY <1>2 DEF RecPage
<1>5. PICK entries, selected : entries = Unreconciled(q, A) /\ selected = Preselected(q, A)
  OBVIOUS
<1>6. /\ selected \subseteq entries /\ entries \subseteq SplitsOf(A)
      /\ SplitsOf(A) \subseteq RecSplit
      /\ \A s \in entries : q.mark[s] # "y"
  BY <1>5, RecFinite DEF Unreconciled, Preselected
<1>7. q.out /\ q.unread = {} /\ r.step = "info" /\ ~(net[BatchQ].out /\ net[BatchQ].own)
      /\ q.amt \in [RecSplit -> Int]
  BY <1>1, <1>2, <1>3 DEF RegisterAnswered, RecDone, RecPhase, RecRequest
<1>8. PICK p : p = [r EXCEPT !.entries = entries, !.amt = q.amt, !.selected = selected,
                             !.step = "select", !.loading = FALSE]
  OBVIOUS
<1>9. /\ p \in RecPage /\ p.step = "select" /\ p.accts = r.accts /\ p.typed = r.typed
      /\ p.starting = r.starting /\ p.entries = entries /\ p.amt = q.amt
      /\ p.wrote = r.wrote /\ p.known = r.known /\ p.calm = r.calm /\ p.goal = r.goal
      /\ p.selected = selected
  BY <1>2, <1>6, <1>7, <1>8 DEF RecPage
<1>10. PICK n : n = [net EXCEPT ![RegisterQ] = Nobody]
  OBVIOUS
<1>11. /\ n \in [RecKinds -> RecRequest] /\ n[RegisterQ] = Nobody
       /\ \A j \in RecKinds : j # RegisterQ => n[j] = net[j]
  BY <1>2, <1>10, NetPut, NobodyTyped
<1>12. RecListed(p)
  BY <1>4, <1>6, <1>9 DEF RecListed
<1>13. RecPhase(p, n)
  BY <1>2, <1>7, <1>9, <1>11, NobodyTyped, Kinds DEF RecPhase
<1>14. ASSUME r.calm
       PROVE  RecTrue(p, n, b)
  <2>1. RecTrue(r, net, b) /\ n[BatchQ] = net[BatchQ] /\ n[BalanceQ] = net[BalanceQ]
    BY <1>2, <1>11, <1>14 DEF RecGood
  <2>2. ~net[BatchQ].out /\ ~net[BatchQ].run /\ ~r.wrote
    BY <1>2, <1>7, <2>1 DEF RecTrue, Batched, RecPhase
  <2>3. Unwritten(r, net, b) /\ AsAnswered(q, A, b)
    BY <1>3, <1>4, <1>7, <2>1, <2>2 DEF RecTrue, Unwritten
  <2>4. \A s \in SplitsOf(A) : q.amt[s] = b.amt[s] /\ q.mark[s] = b.mark[s]
    BY <1>2, <1>7, <2>3, ClearedSeen
  <2>5. Unwritten(p, n, b)
    BY <1>4, <1>6, <1>9, <1>11, <2>1, <2>3, <2>4, NobodyTyped DEF Unwritten
  <2>6. Batched(p, n[BatchQ], b)
    BY <1>9, <2>1, <2>2 DEF Batched
  <2>7. QED
    BY <1>9, <2>5, <2>6 DEF RecTrue
<1>15. RecGood(p, n, b)
  BY <1>2, <1>9, <1>11, <1>12, <1>13, <1>14 DEF RecGood
<1>16. rec' = p /\ recNet' = n /\ recBook' = b
  BY <1>1, <1>3, <1>4, <1>5, <1>8, <1>10 DEF RegisterAnswered, RecWithout
<1>17. QED
  BY <1>15, <1>16 DEF RecInv
(* Finish: what is ticked, signed as the server signs it, makes up the     *)
(* difference between the starting balance and the ending balance. *)
LEMMA FinishKeeps == ASSUME RecInv, Finish PROVE RecInv'
<1>1. PICK r, net, b : r = rec /\ net = recNet /\ b = recBook
  OBVIOUS
<1>2. /\ RecGood(r, net, b) /\ r \in RecPage /\ net \in [RecKinds -> RecRequest]
      /\ RecListed(r) /\ RecPhase(r, net) /\ b \in RecServer
      /\ BatchQ \in RecKinds /\ BatchQ # RegisterQ /\ BatchQ # BalanceQ
      /\ RegisterQ \in RecKinds /\ BalanceQ \in RecKinds /\ BatchQ \notin Reads
      /\ Reads \subseteq RecKinds
  BY <1>1, Kinds DEF RecInv, RecGood
<1>3. /\ r.step = "select" /\ r.ending = Signed(r, Reconciled(r)) /\ ~r.loading
      /\ ~net[BatchQ].out /\ ~net[BatchQ].run
  BY <1>1, <1>2 DEF Finish, Fits, RecPhase
<1>4. PICK S \in SUBSET RecSplit : S = r.selected
  BY <1>2 DEF RecPage
<1>5. PICK q : q = [Asked({}) EXCEPT !.sent = S]
  OBVIOUS
<1>6. q \in RecRequest /\ q.out /\ ~q.run /\ q.own /\ q.unread = {} /\ q.sent = S
  <2>1. PICK o \in RecRequest : o = Asked({}) /\ o.out /\ ~o.run /\ o.unread = {} /\ o.own
    BY AskedTyped
  <2>2. q = [o EXCEPT !.sent = S]
    BY <1>5, <2>1
  <2>3. QED
    BY <2>1, <2>2 DEF RecRequest
<1>7. PICK calm \in BOOLEAN : calm <=> (r.calm /\ r.known)
  OBVIOUS
<1>8. PICK p : p = [r EXCEPT !.loading = TRUE, !.goal = r.ending, !.calm = calm]
  OBVIOUS
<1>9. /\ p \in RecPage /\ p.step = r.step /\ p.accts = r.accts /\ p.typed = r.typed
      /\ p.starting = r.starting /\ p.entries = r.entries /\ p.amt = r.amt /\ p.loading
      /\ p.wrote = r.wrote /\ p.known = r.known /\ p.calm = calm /\ p.goal = r.ending
      /\ p.selected = r.selected
  BY <1>2, <1>8 DEF RecPage
<1>10. PICK n : n = [net EXCEPT ![BatchQ] = q]
  OBVIOUS
<1>11. /\ n \in [RecKinds -> RecRequest] /\ n[BatchQ] = q
       /\ \A j \in RecKinds : j # BatchQ => n[j] = net[j]
  BY <1>2, <1>6, <1>10, NetPut
<1>12. RecListed(p)
  BY <1>2, <1>9 DEF RecListed
<1>13. RecPhase(p, n)
  BY <1>2, <1>3, <1>6, <1>9, <1>11, Kinds DEF RecPhase
<1>14. ASSUME p.calm
       PROVE  RecTrue(p, n, b)
  <2>1. RecTrue(r, net, b) /\ n[RegisterQ] = net[RegisterQ] /\ n[BalanceQ] = net[BalanceQ]
        /\ r.calm /\ r.known
    BY <1>2, <1>7, <1>9, <1>11, <1>14 DEF RecGood
  <2>2. Unwritten(r, net, b) /\ ~r.wrote
    BY <1>3, <2>1 DEF RecTrue, Batched
  <2>3. Unwritten(p, n, b)
    BY <1>9, <2>1, <2>2 DEF Unwritten
  <2>4. S \subseteq SplitsOf(r.accts) /\ S \subseteq r.entries
    BY <1>2, <1>4 DEF RecListed
  <2>5. ASSUME SignsAgree(r)
        PROVE  r.ending = Signed(r, RecSum(b.amt, Cleared(b, r.accts) \cup S))
    <3>1. PICK C \in SUBSET RecSplit : C = Cleared(b, r.accts)
      BY RecFinite
    <3>2. r.starting = RecSum(b.amt, C)
      BY <2>1, <2>2, <3>1 DEF Unwritten
    <3>3. RecSum(r.amt, S) = RecSum(b.amt, S)
      <4>1. \A s \in S : r.amt[s] = b.amt[s]
        BY <1>3, <2>2, <2>4 DEF Unwritten
      <4>2. QED
        BY <4>1, RecSumSame
    <3>4. Total(r, TRUE) - Total(r, FALSE) = RecSum(r.amt, r.selected)
      BY <1>2, <2>5, FundsAreAmounts
    <3>5. b.amt \in [RecSplit -> Int] /\ C \cap S = {}
      BY <1>2, <1>3, <2>2, <2>4, <3>1 DEF RecServer, Unwritten, Cleared
    <3>6. RecSum(b.amt, C \cup S) = RecSum(b.amt, C) + RecSum(b.amt, S)
      BY <3>5, RecSumUnion
    <3>7. PICK in, out : in = Total(r, TRUE) /\ out = Total(r, FALSE)
      OBVIOUS
    <3>8. in \in Int /\ out \in Int
      BY <1>2, <3>7, TotalInt
    <3>9. Reconciled(r) = r.starting + in - out
      BY <3>7, Zenon DEF Reconciled
    <3>10. in - out = RecSum(b.amt, S)
      BY <1>4, <3>3, <3>4, <3>7, Zenon
    <3>11. r.starting \in Int
      BY <1>2 DEF RecPage
    <3>12. Reconciled(r) = RecSum(b.amt, C \cup S)
      BY <3>2, <3>6, <3>8, <3>9, <3>10, <3>11
    <3>13. QED
      BY <1>3, <3>1, <3>12, Zenon
  <2>6. Batched(p, n[BatchQ], b)
    <3>1. /\ SignsAgree(p) <=> SignsAgree(r)
          /\ \A x : Signed(p, x) = Signed(r, x)
      BY <1>9, AlikeSigns
    <3>2. q.own /\ p.known /\ q.sent \subseteq SplitsOf(p.accts) /\ ~q.run
      BY <1>6, <1>9, <2>1, <2>4
    <3>3. SignsAgree(p) => p.goal = Signed(p, RecSum(b.amt, Cleared(b, p.accts) \cup q.sent))
      BY <1>6, <1>9, <2>5, <3>1
    <3>4. QED
      BY <1>9, <1>11, <2>1, <2>2, <3>2, <3>3 DEF Batched
  <2>7. QED
    BY <1>3, <1>9, <2>3, <2>6 DEF RecTrue
<1>15. RecGood(p, n, b)
  BY <1>2, <1>9, <1>11, <1>12, <1>13, <1>14 DEF RecGood
<1>16. rec' = p /\ recNet' = n /\ recBook' = b
  <2>1. rec' = [r EXCEPT !.loading = TRUE, !.goal = r.ending, !.calm = r.calm /\ r.known]
        /\ recNet' = n /\ recBook' = b
    BY <1>1, <1>4, <1>5, <1>10 DEF Finish
  <2>2. (r.calm /\ r.known) = calm
    BY <1>2, <1>7 DEF RecPage
  <2>3. QED
    BY <1>8, <2>1, <2>2
<1>17. QED
  BY <1>15, <1>16 DEF RecInv

(* The batch marks what it was sent, once. *)
LEMMA RunBatchKeeps == ASSUME RecInv, RunBatch PROVE RecInv'
<1>1. PICK r, net, b : r = rec /\ net = recNet /\ b = recBook
  OBVIOUS
<1>2. /\ RecGood(r, net, b) /\ r \in RecPage /\ net \in [RecKinds -> RecRequest]
      /\ RecListed(r) /\ RecPhase(r, net) /\ b \in RecServer
      /\ BatchQ \in RecKinds /\ BatchQ # RegisterQ /\ BatchQ # BalanceQ
      /\ RegisterQ \in RecKinds /\ BalanceQ \in RecKinds /\ BatchQ \notin Reads
      /\ Reads \subseteq RecKinds
  BY <1>1, Kinds DEF RecInv, RecGood
<1>3. PICK o \in RecRequest : o = net[BatchQ] /\ o.out /\ ~o.run
  BY <1>1, <1>2 DEF RunBatch
<1>4. PICK mark : mark = [s \in RecSplit |-> IF s \in o.sent THEN "y" ELSE b.mark[s]]
  OBVIOUS
<1>5. PICK c : c = [b EXCEPT !.mark = mark]
  OBVIOUS
<1>6. c \in RecServer /\ c.amt = b.amt /\ c.mark = mark
  BY <1>2, <1>4, <1>5 DEF RecServer
<1>7. PICK q : q = [o EXCEPT !.run = TRUE]
  OBVIOUS
<1>8. q \in RecRequest /\ q.out /\ q.run /\ q.own = o.own /\ q.unread = o.unread
      /\ q.sent = o.sent
  BY <1>3, <1>7 DEF RecRequest
<1>9. PICK n : n = [net EXCEPT ![BatchQ] = q]
  OBVIOUS
<1>10. /\ n \in [RecKinds -> RecRequest] /\ n[BatchQ] = q
       /\ \A j \in RecKinds : j # BatchQ => n[j] = net[j]
  BY <1>2, <1>8, <1>9, NetPut
<1>11. RecPhase(r, n)
  BY <1>2, <1>3, <1>8, <1>10, Kinds DEF RecPhase
<1>12. ASSUME r.calm
       PROVE  RecTrue(r, n, c)
  <2>1. RecTrue(r, net, b) /\ Batched(r, o, b)
    BY <1>2, <1>3, <1>12 DEF RecGood, RecTrue
  <2>2. o.sent \subseteq SplitsOf(r.accts) /\ SplitsOf(r.accts) \subseteq RecSplit
    BY <1>3, <2>1, RecFinite DEF Batched
  <2>3. PICK C, D : C = Cleared(b, r.accts) \cup o.sent /\ D = Cleared(c, r.accts)
    OBVIOUS
  <2>4. D = C
    BY <1>4, <1>6, <2>2, <2>3 DEF Cleared
  <2>5. D \cup o.sent = C /\ o.sent \subseteq D
    BY <2>3, <2>4
  <2>6. SignsAgree(r) => r.goal = Signed(r, RecSum(c.amt, D \cup o.sent))
    BY <1>3, <1>6, <2>1, <2>3, <2>5 DEF Batched
  <2>7. Batched(r, q, c)
    BY <1>3, <1>8, <2>1, <2>3, <2>5, <2>6 DEF Batched
  <2>8. QED
    BY <1>8, <1>10, <2>1, <2>7 DEF RecTrue
<1>13. RecGood(r, n, c)
  BY <1>2, <1>6, <1>10, <1>11, <1>12 DEF RecGood
<1>14. rec' = r /\ recNet' = n /\ recBook' = c
  BY <1>1, <1>2, <1>3, <1>4, <1>5, <1>7, <1>9 DEF RunBatch, RecBatch
<1>15. QED
  BY <1>13, <1>14 DEF RecInv

(* A wizard that is closed. *)
LEMMA ClosedTyped ==
    /\ Closed \in RecPage /\ Closed.step = "closed" /\ Closed.entries = {}
    /\ Closed.selected = {} /\ ~Closed.wrote /\ ~Closed.known /\ ~Closed.calm
<1>1. PICK zero : zero = [s \in RecSplit |-> 0]
  OBVIOUS
<1>2. zero \in [RecSplit -> Int]
  BY <1>1
<1>3. PICK c : c = Closed
  OBVIOUS
<1>4. c = [step |-> "closed", accts |-> {}, typed |-> FALSE, date |-> 0,
           ending |-> 0, filled |-> FALSE, starting |-> 0,
           entries |-> {}, amt |-> zero, selected |-> {},
           loading |-> FALSE, wrote |-> FALSE,
           known |-> FALSE, calm |-> FALSE, goal |-> 0, events |-> 0]
  BY <1>1, <1>3 DEF Closed
<1>5. QED
  BY <1>2, <1>3, <1>4 DEF RecPage

(* It wrote nothing. *)
LEMMA ShutGood ==
    ASSUME NEW r \in RecPage, NEW n \in [RecKinds -> RecRequest], NEW b \in RecServer,
           \A k \in Reads : n[k] = Nobody,
           ~(n[BatchQ].out /\ n[BatchQ].own), n[BatchQ].run => n[BatchQ].out,
           n[BatchQ].unread # {} => n[BatchQ].out
    PROVE  RecGood(RecShut(r), n, b)
<1>1. PICK p : p = RecShut(r)
  OBVIOUS
<1>2. PICK c : c = Closed
  OBVIOUS
<1>3. c \in RecPage /\ c.step = "closed" /\ c.entries = {} /\ c.selected = {} /\ ~c.known
      /\ ~c.calm
  BY <1>2, ClosedTyped
<1>4. r.events \in Nat /\ p = [c EXCEPT !.events = r.events]
  BY <1>1, <1>2 DEF RecShut, RecPage
<1>5. /\ p \in RecPage /\ p.step = "closed" /\ p.entries = {} /\ p.selected = {} /\ ~p.known
      /\ ~p.calm
  BY <1>3, <1>4 DEF RecPage
<1>6. RecPhase(p, n)
  BY <1>5, Kinds, NobodyTyped DEF RecPhase, RecKinds
<1>7. QED
  BY <1>1, <1>5, <1>6 DEF RecGood, RecListed

LEMMA DoneKeeps == ASSUME RecInv, FinishAnswered PROVE RecInv'
<1>1. PICK r, net, b : r = rec /\ net = recNet /\ b = recBook
  OBVIOUS
<1>2. /\ RecGood(r, net, b) /\ r \in RecPage /\ net \in [RecKinds -> RecRequest]
      /\ RecListed(r) /\ RecPhase(r, net) /\ b \in RecServer
      /\ BatchQ \in RecKinds /\ net[BatchQ].out /\ net[BatchQ].run
  BY <1>1, Kinds DEF RecInv, RecGood, FinishAnswered
<1>3. PICK n : n = NoAsk
  OBVIOUS
<1>4. n \in [RecKinds -> RecRequest] /\ \A k \in RecKinds : n[k] = Nobody
  BY <1>3, NobodyTyped
<1>5. recNet' = n /\ recBook' = b
  BY <1>1, <1>3 DEF FinishAnswered
<1>6. CASE ~net[BatchQ].own
  <2>1. RecGood(RecShut(r), n, b)
    BY <1>2, <1>4, Kinds, NobodyTyped, ShutGood
  <2>2. rec' = RecShut(r)
    BY <1>1, <1>6 DEF FinishAnswered
  <2>3. QED
    BY <1>5, <2>1, <2>2 DEF RecInv
<1>7. CASE net[BatchQ].own
  <2>1. PICK p : p = [r EXCEPT !.step = "closed", !.wrote = TRUE]
    OBVIOUS
  <2>2. /\ p \in RecPage /\ p.step = "closed" /\ p.accts = r.accts /\ p.typed = r.typed
        /\ p.entries = r.entries /\ p.wrote /\ p.calm = r.calm /\ p.goal = r.goal
        /\ p.selected = r.selected
    BY <1>2, <2>1 DEF RecPage
  <2>3. RecListed(p)
    BY <1>2, <2>2 DEF RecListed
  <2>4. RecPhase(p, n)
    BY <1>4, <2>2, Kinds, NobodyTyped DEF RecPhase
  <2>5. ASSUME r.calm
        PROVE  RecTrue(p, n, b)
    <3>1. PICK o : o = net[BatchQ]
      OBVIOUS
    <3>2. Batched(r, o, b) /\ o.out /\ o.run
      BY <1>2, <2>5, <3>1 DEF RecGood, RecTrue
    <3>3. PICK C, D : C = Cleared(b, r.accts) \cup o.sent /\ D = Cleared(b, r.accts)
      OBVIOUS
    <3>4. C = D
      BY <3>2, <3>3 DEF Batched
    <3>5. SignsAgree(r) => r.goal = Signed(r, RecSum(b.amt, D))
      BY <3>2, <3>3, <3>4 DEF Batched
    <3>6. /\ SignsAgree(p) <=> SignsAgree(r)
          /\ \A x : Signed(p, x) = Signed(r, x)
      BY <2>2, AlikeSigns
    <3>7. Batched(p, Nobody, b)
      BY <2>2, <3>3, <3>5, <3>6, NobodyTyped DEF Batched
    <3>8. Unwritten(p, n, b)
      BY <1>4, <2>2, Kinds, NobodyTyped DEF Unwritten
    <3>9. n[BatchQ] = Nobody
      BY <1>2, <1>4
    <3>10. QED
      BY <2>2, <3>7, <3>8, <3>9 DEF RecTrue
  <2>6. RecGood(p, n, b)
    BY <1>2, <1>4, <2>2, <2>3, <2>4, <2>5 DEF RecGood
  <2>7. rec' = p
    BY <1>1, <1>7, <2>1 DEF FinishAnswered
  <2>8. QED
    BY <1>5, <2>6, <2>7 DEF RecInv
<1>8. QED
  BY <1>6, <1>7
(* A request fails: the page gives up what it waited for, and is calm no   *)
(* more if it was the batch. *)
LEMMA RecFailedKeeps ==
    ASSUME RecInv, NEW k \in Followed, RecFailed(k)
    PROVE  RecInv'
<1>1. PICK r, net, b : r = rec /\ net = recNet /\ b = recBook
  OBVIOUS
<1>2. /\ RecGood(r, net, b) /\ r \in RecPage /\ net \in [RecKinds -> RecRequest]
      /\ RecListed(r) /\ RecPhase(r, net) /\ b \in RecServer
      /\ k \in RecKinds /\ BatchQ \in RecKinds /\ BatchQ # RegisterQ /\ BatchQ # BalanceQ
      /\ RegisterQ \in RecKinds /\ BalanceQ \in RecKinds /\ BatchQ \notin Reads
      /\ RegisterQ # BalanceQ /\ Reads \subseteq RecKinds
  BY <1>1, Kinds DEF RecInv, RecGood, Followed
<1>3. PICK n : n = [net EXCEPT ![k] = Nobody]
  OBVIOUS
<1>4. /\ n \in [RecKinds -> RecRequest] /\ n[k] = Nobody
      /\ \A j \in RecKinds : j # k => n[j] = net[j]
  BY <1>2, <1>3, NetPut, NobodyTyped
<1>5. net[k].out /\ recNet' = n /\ recBook' = b
  BY <1>1, <1>3 DEF RecFailed, RecWithout
<1>6. PICK ends \in BOOLEAN : ends <=> (k \in {RegisterQ, BatchQ} /\ net[k].own)
  OBVIOUS
<1>7. PICK calm \in BOOLEAN : calm <=> (r.calm /\ k = RegisterQ)
  OBVIOUS
<1>8. PICK p : p = IF ends THEN [r EXCEPT !.loading = FALSE, !.calm = calm] ELSE r
  OBVIOUS
<1>9. /\ p \in RecPage /\ p.step = r.step /\ p.accts = r.accts /\ p.typed = r.typed
      /\ p.starting = r.starting /\ p.entries = r.entries /\ p.amt = r.amt
      /\ p.wrote = r.wrote /\ p.known = r.known /\ p.goal = r.goal
      /\ p.selected = r.selected
      /\ p.calm = IF ends THEN calm ELSE r.calm
      /\ p.loading = IF ends THEN FALSE ELSE r.loading
  BY <1>2, <1>8 DEF RecPage
<1>10. rec' = p
  <2>1. (r.calm /\ k = RegisterQ) = calm
    BY <1>2, <1>7 DEF RecPage
  <2>2. CASE ends
    <3>1. rec' = [r EXCEPT !.loading = FALSE, !.calm = (r.calm /\ k = RegisterQ)]
      BY <1>1, <1>6, <2>2 DEF RecFailed
    <3>2. QED
      BY <1>8, <2>1, <2>2, <3>1
  <2>3. CASE ~ends
    BY <1>1, <1>6, <1>8, <2>3 DEF RecFailed
  <2>4. QED
    BY <2>2, <2>3
<1>11. RecListed(p)
  BY <1>2, <1>9 DEF RecListed
<1>12. \A j \in RecKinds : n[j].out => j # k /\ n[j] = net[j]
  BY <1>4, NobodyTyped
<1>13. RecPhase(p, n)
  <2>1. p.known => ~n[BalanceQ].out
    BY <1>2, <1>9, <1>12 DEF RecPhase
  <2>2. p.step = "closed" => \A j \in Reads : ~n[j].out
    BY <1>2, <1>9, <1>12 DEF RecPhase
  <2>3. n[BatchQ].run => n[BatchQ].out
    BY <1>2, <1>4, NobodyTyped DEF RecPhase
  <2>4. \A j \in RecKinds : n[j].unread # {} => n[j].out
    BY <1>2, <1>4, NobodyTyped DEF RecPhase
  <2>5. n[RegisterQ].out => p.step = "info" /\ p.loading
    BY <1>2, <1>5, <1>6, <1>9, <1>12 DEF RecPhase, Followed
  <2>6. n[BatchQ].out /\ n[BatchQ].own => p.step = "select" /\ p.loading
    BY <1>2, <1>5, <1>6, <1>9, <1>12 DEF RecPhase, Followed
  <2>7. QED
    BY <2>1, <2>2, <2>3, <2>4, <2>5, <2>6 DEF RecPhase
<1>14. ASSUME p.calm
       PROVE  RecTrue(p, n, b)
  <2>1. r.calm /\ RecTrue(r, net, b)
    BY <1>2, <1>7, <1>9, <1>14 DEF RecGood, RecPage
  <2>2. k # BatchQ
    BY <1>2, <1>5, <1>6, <1>7, <1>9, <1>14, <2>1 DEF RecTrue, Batched
  <2>3. n[BatchQ] = net[BatchQ]
    BY <1>2, <1>4, <2>2
  <2>4. Unwritten(r, net, b) => Unwritten(p, n, b)
    BY <1>2, <1>9, <1>12 DEF Unwritten
  <2>5. Batched(p, n[BatchQ], b)
    <3>1. /\ SignsAgree(p) <=> SignsAgree(r)
          /\ \A x : Signed(p, x) = Signed(r, x)
      BY <1>9, AlikeSigns
    <3>2. Batched(r, net[BatchQ], b)
      BY <2>1 DEF RecTrue
    <3>3. QED
      BY <1>9, <2>3, <3>1, <3>2 DEF Batched
  <2>6. QED
    BY <1>9, <2>1, <2>3, <2>4, <2>5 DEF RecTrue
<1>15. RecGood(p, n, b)
  BY <1>2, <1>4, <1>9, <1>11, <1>13, <1>14 DEF RecGood
<1>16. QED
  BY <1>5, <1>10, <1>15 DEF RecInv

LEMMA RecEditKeeps == ASSUME RecInv, NEW e \in Edits, RecEdit(e) PROVE RecInv'
<1>1. PICK r, net, b : r = rec /\ net = recNet /\ b = recBook
  OBVIOUS
<1>2. /\ r \in RecPage /\ net \in [RecKinds -> RecRequest] /\ b \in RecServer
      /\ RecListed(r) /\ RecPhase(r, net)
  BY <1>1 DEF RecInv, RecGood
<1>3. PICK amt : amt = [b.amt EXCEPT ![e[1]] = e[2]]
  OBVIOUS
<1>4. amt \in [RecSplit -> Int]
  BY <1>2, <1>3, RecAssumption DEF RecServer
<1>5. PICK c : c = [b EXCEPT !.amt = amt]
  OBVIOUS
<1>6a. PICK events \in Nat : events = r.events + 1
  BY <1>2 DEF RecPage
<1>6. PICK p : p = [r EXCEPT !.calm = FALSE, !.events = events]
  OBVIOUS
<1>7. c \in RecServer
  BY <1>2, <1>4, <1>5 DEF RecServer
<1>8. /\ p \in RecPage /\ p.step = r.step /\ p.accts = r.accts /\ p.entries = r.entries
      /\ p.known = r.known /\ p.selected = r.selected /\ ~p.calm /\ p.loading = r.loading
  BY <1>2, <1>6 DEF RecPage
<1>9. RecListed(p) /\ RecPhase(p, net)
  BY <1>2, <1>8 DEF RecListed, RecPhase
<1>10. RecGood(p, net, c)
  BY <1>2, <1>7, <1>8, <1>9 DEF RecGood
<1>11. rec' = p /\ recNet' = net /\ recBook' = c
  BY <1>1, <1>3, <1>5, <1>6a, <1>6 DEF RecEdit
<1>12. QED
  BY <1>10, <1>11 DEF RecInv

(* The wizard is opened and closed; a batch under way goes on without it. *)
LEMMA Abandoned ==
    ASSUME NEW net \in [RecKinds -> RecRequest],
           net[BatchQ].run => net[BatchQ].out, net[BatchQ].unread # {} => net[BatchQ].out
    PROVE  \E q \in RecRequest :
             /\ q = [net[BatchQ] EXCEPT !.own = FALSE] /\ ~q.own
             /\ q.out = net[BatchQ].out
             /\ (q.run => q.out)
             /\ (q.unread # {} => q.out)
<1>1. PICK o \in RecRequest : o = net[BatchQ]
  BY Kinds
<1>2. PICK q : q = [o EXCEPT !.own = FALSE]
  OBVIOUS
<1>3. /\ q \in RecRequest /\ ~q.own /\ q.out = o.out /\ q.run = o.run /\ q.unread = o.unread
  BY <1>2 DEF RecRequest
<1>4. QED
  BY <1>1, <1>2, <1>3

LEMMA RecCloseKeeps == ASSUME RecInv, RecClose PROVE RecInv'
<1>1. PICK r, net, b : r = rec /\ net = recNet /\ b = recBook
  OBVIOUS
<1>2. /\ r \in RecPage /\ net \in [RecKinds -> RecRequest] /\ b \in RecServer
      /\ net[BatchQ].run => net[BatchQ].out
      /\ net[BatchQ].unread # {} => net[BatchQ].out
  BY <1>1, Kinds DEF RecInv, RecGood, RecPhase
<1>3. PICK q \in RecRequest :
             /\ q = [net[BatchQ] EXCEPT !.own = FALSE] /\ ~q.own
             /\ (q.run => q.out)
             /\ (q.unread # {} => q.out)
  BY <1>2, Abandoned
<1>4. PICK n : n = [NoAsk EXCEPT ![BatchQ] = q]
  OBVIOUS
<1>5. /\ n \in [RecKinds -> RecRequest] /\ n[BatchQ] = q
      /\ \A j \in RecKinds : j # BatchQ => n[j] = Nobody
  BY <1>4, NobodyTyped, Kinds
<1>6. RecGood(RecShut(r), n, b)
  BY <1>2, <1>3, <1>5, Kinds, ShutGood
<1>7. rec' = RecShut(r) /\ recNet' = n /\ recBook' = b
  BY <1>1, <1>3, <1>4 DEF RecClose
<1>8. QED
  BY <1>6, <1>7 DEF RecInv

LEMMA OpenWizard ==
    ASSUME RecInv, NEW w \in RecWizards, NEW d \in RecDates, RecOpen(w[1], w[2], d)
    PROVE  RecInv'
<1>1. PICK r, net, b : r = rec /\ net = recNet /\ b = recBook
  OBVIOUS
<1>2. /\ r \in RecPage /\ net \in [RecKinds -> RecRequest] /\ b \in RecServer
      /\ net[BatchQ].run => net[BatchQ].out
      /\ net[BatchQ].unread # {} => net[BatchQ].out
      /\ net[BatchQ].out \in BOOLEAN
  BY <1>1, Kinds DEF RecInv, RecGood, RecPhase, RecRequest
<1>3. PICK q \in RecRequest :
             /\ q = [net[BatchQ] EXCEPT !.own = FALSE] /\ ~q.own
             /\ q.out = net[BatchQ].out
             /\ (q.run => q.out)
             /\ (q.unread # {} => q.out)
  BY <1>2, Abandoned
<1>4. PICK A \in SUBSET RecAccount, typed \in BOOLEAN : A = w[1] /\ typed = w[2]
  BY RecAssumption
<1>5. PICK o \in RecRequest :
             /\ o = Asked(A) /\ o.out /\ o.unread = A /\ ~o.run
  BY AskedTyped
<1>6. PICK n : n = [NoAsk EXCEPT ![BalanceQ] = o, ![Hint(d)] = o, ![BatchQ] = q]
  OBVIOUS
<1>7. /\ n \in [RecKinds -> RecRequest] /\ n[BatchQ] = q /\ n[BalanceQ] = o
      /\ n[RegisterQ] = Nobody /\ \A j \in Reads : n[j] \in {o, Nobody}
  BY <1>6, NobodyTyped, Kinds
<1>8. PICK calm \in BOOLEAN : calm = ~net[BatchQ].out
  BY <1>2
<1>9. PICK events \in Nat : events = r.events + 1
  BY <1>2 DEF RecPage
<1>10. PICK z \in RecPage :
         z = Closed /\ z.entries = {} /\ z.selected = {} /\ ~z.wrote /\ ~z.known
  BY ClosedTyped
<1>11. PICK p : p = [z EXCEPT !.step = "info", !.accts = A, !.typed = typed, !.date = d,
                              !.calm = calm, !.events = events]
  OBVIOUS
<1>12. /\ p \in RecPage /\ p.step = "info" /\ p.accts = A /\ p.entries = {} /\ p.selected = {}
       /\ ~p.wrote /\ ~p.known /\ p.calm = calm
  BY <1>10, <1>11, RecAssumption DEF RecPage
<1>13. RecListed(p)
  BY <1>12 DEF RecListed
<1>14. RecPhase(p, n)
  BY <1>3, <1>5, <1>7, <1>12, NobodyTyped DEF RecPhase, RecKinds
<1>15. ASSUME p.calm
       PROVE  RecTrue(p, n, b)
  <2>1. ~q.out /\ ~q.run
    BY <1>3, <1>8, <1>12, <1>15
  <2>2. AsAnswered(o, A, b)
    BY <1>5 DEF AsAnswered, SplitsOf
  <2>3. Unwritten(p, n, b)
    BY <1>7, <1>12, <2>2, NobodyTyped DEF Unwritten
  <2>4. Batched(p, q, b)
    BY <1>12, <2>1 DEF Batched
  <2>5. QED
    BY <1>7, <1>12, <2>3, <2>4 DEF RecTrue
<1>16. RecGood(p, n, b)
  BY <1>2, <1>7, <1>12, <1>13, <1>14, <1>15 DEF RecGood
<1>17. recNet' = n /\ recBook' = b
  BY <1>1, <1>3, <1>4, <1>5, <1>6 DEF RecOpen
<1>18. rec' = p
  BY <1>1, <1>4, <1>8, <1>9, <1>10, <1>11 DEF RecOpen
<1>19. QED
  BY <1>16, <1>17, <1>18 DEF RecInv

(* The wizard at its start, and all its steps. *)
RecStarting == rec = Closed /\ recNet = NoAsk /\ recBook = RecBooks

LEMMA RecStartKeeps == RecStarting => RecInv
<1> SUFFICES ASSUME RecStarting PROVE RecInv
  OBVIOUS
<1>1. PICK p, b, n : p = Closed /\ b = RecBooks /\ n = NoAsk
  OBVIOUS
<1>2. b \in RecServer
  BY <1>1, RecAssumption DEF RecBooks, RecServer
<1>3. /\ p \in RecPage /\ p.step = "closed" /\ p.entries = {} /\ p.selected = {} /\ ~p.known
      /\ ~p.calm
  BY <1>1, ClosedTyped
<1>4. n \in [RecKinds -> RecRequest] /\ \A k \in RecKinds : n[k] = Nobody
  BY <1>1, NobodyTyped
<1>5. RecGood(p, n, b)
  BY <1>2, <1>3, <1>4, Kinds, NobodyTyped DEF RecGood, RecListed, RecPhase
<1>6. QED
  BY <1>1, <1>5 DEF RecStarting, RecInv

LEMMA RecStepKeeps == RecInv /\ [RecNext]_recVars => RecInv'
<1> SUFFICES ASSUME RecInv, [RecNext]_recVars PROVE RecInv'
  OBVIOUS
<1>1. CASE UNCHANGED recVars
  BY <1>1 DEF recVars, RecInv
<1>2. ASSUME NEW k \in Reads, NEW a \in RecAccount, RecRead(k, a)
      PROVE  RecInv'
  BY <1>2, ReadKeeps, HintsKeep DEF Reads
<1>3. ASSUME NEW k \in RecKinds, RecFailed(k)
      PROVE  RecInv'
  BY <1>3, RecFailedKeeps, HintsKeep DEF RecKinds, Reads, Followed
<1>4. QED
  BY <1>1, <1>2, <1>3, FieldsKeep, HintsKeep, BalanceKeeps, StartKeeps, RegisterKeeps, FinishKeeps,
     RunBatchKeeps, DoneKeeps, RecEditKeeps, RecCloseKeeps, OpenWizard
  DEF RecNext, RecKinds

LEMMA RecTypes == RecInv => RecTypeOK
BY Kinds DEF RecInv, RecGood, RecPage, RecServer, RecRequest, RecListed, RecTypeOK

LEMMA RecStatement == RecInv => RecStatementHolds
<1> SUFFICES ASSUME RecInv, rec.wrote, rec.calm, SignsAgree(rec)
             PROVE  Signed(rec, RecSum(recBook.amt, {s \in SplitsOf(rec.accts) :
                                                       recBook.mark[s] = "y"})) = rec.goal
  BY DEF RecStatementHolds
<1>1. Batched(rec, recNet[BatchQ], recBook)
  BY DEF RecInv, RecGood, RecTrue
<1>2. rec.goal = Signed(rec, RecSum(recBook.amt, Cleared(recBook, rec.accts)))
  BY <1>1 DEF Batched
<1>3. QED
  BY <1>2 DEF Cleared

(* The wizard's fields are well typed; what is ticked is listed, and what  *)
(* is listed is a split of the wizard's accounts. *)
THEOREM WizardTypes == RecSpec => []RecTypeOK
BY RecStartKeeps, RecStepKeeps, RecTypes, PTL DEF RecSpec, RecInit, RecStarting

(* The statement holds: once a wizard has finished, what its accounts have *)
(* reconciled is the ending balance that was confirmed (handleFinish over  *)
(* GetReconciledBalance, GetAccountRegister and BatchReconcileSplits),     *)
(* unless the books were changed under it or an answer it needed was lost  *)
(* or late, and if wizard and server agree on the side that increases an   *)
(* account. *)
THEOREM StatementHolds == RecSpec => []RecStatementHolds
BY RecStartKeeps, RecStepKeeps, RecStatement, PTL DEF RecSpec, RecInit, RecStarting

-----------------------------------------------------------------------------
(* The entry form: the types of all fields. *)
FrmText == [kind : {"blank", "dash", "text"}, lead : Int \cup {NaN}, value : Int \cup {NaN}]
FrmRow == [acct : FrmAccount \cup {NoAcct}, text : FrmText]
FrmSums == [FrmAccount -> Int]
FrmWrite == [out : BOOLEAN, run : BOOLEAN, adds : FrmSums, rest : Int, sides : Nat]
FrmShape ==
    [mode : {"new", "edit", "copy"}, open : BOOLEAN, loading : BOOLEAN, rows : Seq(FrmRow),
     orig : FrmSums, known : BOOLEAN, bal : FrmSums, edits : Nat, sent : {0} \cup Tries,
     saved : BOOLEAN, mirror : BOOLEAN, hand : Nat, calm : BOOLEAN,
     shown : [FrmAccount -> Int \cup {NaN}], rest : Int]
FrmAnswers == [accounts : BOOLEAN, tx : BOOLEAN, save : [Tries -> FrmWrite]]
FrmServer == [bal : FrmSums, old : FrmSums]

(* A spinner has a request to wait for, and an entry that is not loaded    *)
(* yet was not sent. *)
FrmPhase(f, n) ==
    /\ Len(f.rows) \in 1..MaxRows
    /\ f.open /\ f.loading => n.tx \/ \E k \in Tries : n.save[k].out
    /\ n.tx => f.loading /\ f.sent = 0 /\ f.mode # "new"
    /\ f.sent = 0 => \A k \in Tries : ~n.save[k].out /\ ~n.save[k].run

(* Two rows of which one was typed in at most: the other one is exactly    *)
(* the opposite of the number it begins with, or blank. *)
Opposite(x) == IF IsNum(x.lead) THEN Plain(-x.lead) ELSE Blank
Mirrors(rows, hand) ==
    /\ Len(rows) = 2 /\ hand \in 0..2
    /\ hand = 0 => rows[1].text = Blank /\ rows[2].text = Blank
    /\ hand # 0 => rows[3 - hand].text = Opposite(rows[hand].text)

(* What the entry that is edited contributes now, and the balance of an    *)
(* account once rows that add up to adds are written instead of it. *)
OwnSums(mode) == [a \in FrmAccount |-> IF mode = "edit" THEN FrmBooks.old[a] ELSE 0]
AfterSave(mode, adds, a) == Balance[a] - OwnSums(mode)[a] + adds[a]

(* Until the form is sent the books are as they were and what is known of  *)
(* them is true; then what is shown is the balance once the rows are       *)
(* booked, and when the save ran the balance there is, but for what the    *)
(* server took from the account Imbalance. *)
Unsent(f, n, b) ==
    /\ b = FrmBooks /\ ~f.saved
    /\ f.known => f.bal = Balance
    /\ ~n.tx => f.orig = OwnSums(f.mode)
Sent(f, n, b) ==
    /\ f.sent = 1 /\ ~n.save[2].out /\ ~n.save[2].run
    /\ n.save[1].out /\ ~n.save[1].run =>
         /\ b = FrmBooks /\ ~f.saved
         /\ \A a \in FrmAccount :
              IsNum(f.shown[a]) => f.shown[a] = AfterSave(f.mode, n.save[1].adds, a)
         /\ n.save[1].rest = f.rest
    /\ n.save[1].run \/ f.saved =>
         /\ f.mode = "edit" => f.rest = 0
         /\ \A a \in FrmAccount :
              IsNum(f.shown[a]) => b.bal[a] = f.shown[a] - OfImbalance(f.rest, a)

FrmGood(f, n, b) ==
    /\ f \in FrmShape /\ n \in FrmAnswers /\ b \in FrmServer
    /\ FrmPhase(f, n)
    /\ f.mirror => f.mode = "new" /\ Mirrors(f.rows, f.hand)
    /\ f.calm => IF f.sent = 0 THEN Unsent(f, n, b) ELSE Sent(f, n, b)
FrmInv == FrmGood(frm, frmNet, frmBook)
-----------------------------------------------------------------------------
(* Rows of the form. *)
LEMMA NotNumber == /\ ~IsNum(NaN) /\ \A n \in Int : IsNum(n)
                   /\ \A n \in Int \cup {NaN} : IsNum(n) <=> n \in Int
BY FrmAssumption DEF IsNum

LEMMA Element ==
    ASSUME NEW S, NEW s \in Seq(S)
    PROVE  DOMAIN s = 1..Len(s) /\ \A i \in DOMAIN s : s[i] \in S
OBVIOUS

LEMMA PlainTyped == ASSUME NEW v \in Int PROVE Plain(v) \in FrmText /\ Plain(v).kind = "text"
                                               /\ Plain(v).lead = v /\ Plain(v).value = v
BY DEF Plain, FrmText

LEMMA BlankTyped == Blank \in FrmText /\ Blank.kind = "blank" /\ Blank.lead = NaN
                    /\ Blank.value = NaN
BY DEF Blank, FrmText

LEMMA RowTyped ==
    ASSUME NEW a \in FrmAccount \cup {NoAcct}, NEW x \in FrmText
    PROVE  Row(a, x) \in FrmRow /\ Row(a, x).text = x
BY DEF Row, FrmRow

LEMMA OldFormTyped == OldForm \in Seq(FrmRow) /\ Len(OldForm) \in 1..MaxRows
<1>1. PICK m \in Nat : m = Len(OldRows) /\ m \in 1..MaxRows
  BY FrmAssumption
<1>2. DOMAIN OldRows = 1..m /\ \A i \in 1..m : OldRows[i] \in [acct : FrmAccount, n : Int]
  <2>1. OldRows \in Seq([acct : FrmAccount, n : Int])
    BY FrmAssumption
  <2>2. QED
    BY <1>1, <2>1, Element
<1>3. \A i \in 1..m : Row(OldRows[i].acct, Plain(OldRows[i].n)) \in FrmRow
  BY <1>2, RowTyped, PlainTyped
<1>4. OldForm = [i \in 1..m |-> Row(OldRows[i].acct, Plain(OldRows[i].n))]
  BY <1>2 DEF OldForm
<1>5. PICK h : h = OldForm
  OBVIOUS
<1>6. h \in [1..m -> FrmRow]
  BY <1>3, <1>4, <1>5
<1>7. h \in Seq(FrmRow) /\ Len(h) = m
  BY <1>6
<1>8. QED
  BY <1>1, <1>5, <1>7

LEMMA OfAccountInt ==
    ASSUME NEW rows \in Seq(FrmRow), NEW a
    PROVE  OfAccount(rows, a) \in Int
<1>1. PICK f : f = Numbers(rows)
  OBVIOUS
<1>2. \A i \in RowsOf(rows, a) : f[i] \in Int
  <2>1. ASSUME NEW i \in DOMAIN rows PROVE f[i] \in Int
    <3>1. rows[i] \in FrmRow
      BY <2>1, Element
    <3>2. rows[i].text.value \in Int \cup {NaN}
      BY <3>1 DEF FrmRow, FrmText
    <3>3. QED
      BY <1>1, <2>1, <3>2, NotNumber DEF Numbers, Number
  <2>2. QED
    BY <2>1 DEF RowsOf
<1>3. IsFiniteSet(RowsOf(rows, a))
  <2>1. IsFiniteSet(1..Len(rows)) /\ RowsOf(rows, a) \subseteq 1..Len(rows)
    BY FS_Interval DEF RowsOf
  <2>2. QED
    BY <2>1, FS_Subset
<1>4. OfAccount(rows, a) = SumOver(f, RowsOf(rows, a))
  <2>1. OfAccount(rows, a) = SumOver(Numbers(rows), RowsOf(rows, a))
    BY DEF OfAccount, SumOver
  <2>2. QED
    BY <1>1, <2>1
<1>5. QED
  BY <1>2, <1>3, <1>4, SumInt

LEMMA BooksTyped == FrmBooks \in FrmServer /\ FrmBooks.bal = Balance
<1>1. PICK o : o = [a \in FrmAccount |-> OfAccount(OldForm, a)]
  OBVIOUS
<1>2. o \in FrmSums
  BY <1>1, OfAccountInt, OldFormTyped DEF FrmSums
<1>3. FrmBooks = [bal |-> Balance, old |-> o]
  BY <1>1 DEF FrmBooks
<1>4. QED
  BY <1>2, <1>3, FrmAssumption DEF FrmServer, FrmSums

LEMMA OwnTyped == ASSUME NEW mode PROVE OwnSums(mode) \in FrmSums
BY BooksTyped DEF OwnSums, FrmServer, FrmSums

(* What is missing is a number, and only so many rows are not zero. *)
LEMMA RestInt ==
    ASSUME NEW rows \in Seq(FrmRow)
    PROVE  LeftOver(rows) \in Int /\ Sides(rows) \in Nat
<1>1. PICK f : f = Numbers(rows)
  OBVIOUS
<1>2. \A i \in DOMAIN rows : f[i] \in Int
  <2>1. ASSUME NEW i \in DOMAIN rows PROVE f[i] \in Int
    <3>1. rows[i] \in FrmRow
      BY <2>1, Element
    <3>2. rows[i].text.value \in Int \cup {NaN}
      BY <3>1 DEF FrmRow, FrmText
    <3>3. QED
      BY <1>1, <2>1, <3>2, NotNumber DEF Numbers, Number
  <2>2. QED
    BY <2>1
<1>3. PICK D : D = DOMAIN rows
  OBVIOUS
<1>4. IsFiniteSet(D)
  <2>1. IsFiniteSet(1..Len(rows)) /\ DOMAIN rows = 1..Len(rows)
    BY FS_Interval
  <2>2. QED
    BY <1>3, <2>1
<1>5. LeftOver(rows) = SumOver(f, D)
  <2>1. LeftOver(rows) = SumOver(Numbers(rows), DOMAIN rows)
    BY DEF LeftOver, SumOver
  <2>2. QED
    BY <1>1, <1>3, <2>1
<1>6. LeftOver(rows) \in Int
  BY <1>2, <1>3, <1>4, <1>5, SumInt
<1>7. PICK T : T = {i \in DOMAIN rows : Numbers(rows)[i] # 0}
  OBVIOUS
<1>8. IsFiniteSet(T)
  BY <1>3, <1>4, <1>7, FS_Subset
<1>9. Cardinality(T) \in Nat
  BY <1>8, FS_CardinalityType
<1>10. QED
  BY <1>6, <1>7, <1>9 DEF Sides

LEMMA NothingTyped ==
    /\ [a \in FrmAccount |-> 0] \in FrmSums
    /\ NoWrite \in FrmWrite /\ ~NoWrite.out /\ ~NoWrite.run
<1>1. PICK zero : zero = [a \in FrmAccount |-> 0]
  OBVIOUS
<1>2. zero \in FrmSums
  BY <1>1 DEF FrmSums
<1>3. NoWrite = [out |-> FALSE, run |-> FALSE, adds |-> zero, rest |-> 0, sides |-> 0]
  BY <1>1 DEF NoWrite
<1>4. QED
  BY <1>1, <1>2, <1>3 DEF FrmWrite

(* updateSplit changes the texts of at most two rows, and the other one to *)
(* the opposite. *)
LEMMA MirroredTyped ==
    ASSUME NEW rows \in Seq(FrmRow), NEW i \in {1, 2}, Len(rows) = 2, NEW x \in FrmText
    PROVE  /\ Mirrored(rows, i, x) \in FrmText
           /\ IsNum(x.lead) \/ x.kind # "text" => Mirrored(rows, i, x) = Opposite(x)
<1>1. CASE IsNum(x.lead)
  <2>1. -x.lead \in Int
    BY <1>1, NotNumber DEF FrmText
  <2>2. Mirrored(rows, i, x) = Plain(-x.lead)
    BY <1>1 DEF Mirrored
  <2>3. QED
    BY <1>1, <2>1, <2>2, PlainTyped DEF Opposite
<1>2. CASE ~IsNum(x.lead) /\ x.kind \in {"blank", "dash"}
  <2>1. Mirrored(rows, i, x) = Blank
    BY <1>2 DEF Mirrored
  <2>2. QED
    BY <1>2, <2>1, BlankTyped DEF Opposite
<1>3. CASE ~IsNum(x.lead) /\ x.kind \notin {"blank", "dash"}
  <2>1. Mirrored(rows, i, x) = rows[3 - i].text
    BY <1>3 DEF Mirrored
  <2>2. rows[3 - i] \in FrmRow /\ x.kind = "text"
    <3>1. 3 - i \in DOMAIN rows
      OBVIOUS
    <3>2. QED
      BY <1>3, <3>1, Element DEF FrmText
  <2>3. QED
    BY <1>3, <2>1, <2>2 DEF FrmRow
<1>4. QED
  BY <1>1, <1>2, <1>3

LEMMA WithAmountTyped ==
    ASSUME NEW rows \in Seq(FrmRow), NEW i \in DOMAIN rows, NEW x \in FrmText
    PROVE  /\ WithAmount(rows, i, x) \in Seq(FrmRow)
           /\ Len(WithAmount(rows, i, x)) = Len(rows)
<1>1. PICK p : p = [rows EXCEPT ![i].text = x]
  OBVIOUS
<1>2. p \in Seq(FrmRow) /\ Len(p) = Len(rows)
  <2>1. rows[i] \in FrmRow
    BY Element
  <2>2. [rows[i] EXCEPT !.text = x] \in FrmRow
    BY <2>1 DEF FrmRow
  <2>3. QED
    BY <1>1, <2>2
<1>3. CASE Len(rows) = 2
  <2>1. i \in {1, 2} /\ 3 - i \in DOMAIN p
    BY <1>2, <1>3
  <2>2. PICK y \in FrmText : y = Mirrored(rows, i, x)
    BY <1>3, <2>1, MirroredTyped
  <2>3. PICK q : q = [p EXCEPT ![3 - i].text = y]
    OBVIOUS
  <2>4. q \in Seq(FrmRow) /\ Len(q) = Len(p)
    <3>1. p[3 - i] \in FrmRow
      BY <1>2, <2>1, Element
    <3>2. [p[3 - i] EXCEPT !.text = y] \in FrmRow
      BY <3>1 DEF FrmRow
    <3>3. QED
      BY <1>2, <2>1, <2>3, <3>2
  <2>5. WithAmount(rows, i, x) \in {p, q}
    BY <1>1, <2>2, <2>3 DEF WithAmount
  <2>6. QED
    BY <1>2, <2>4, <2>5
<1>4. CASE Len(rows) # 2
  BY <1>1, <1>2, <1>4 DEF WithAmount
<1>5. QED
  BY <1>3, <1>4

LEMMA MirrorsFollow ==
    ASSUME NEW rows \in Seq(FrmRow), NEW hand \in Nat, Mirrors(rows, hand),
           NEW i \in {1, 2}, hand \in {0, i}, NEW x \in FrmText,
           IsNum(x.lead) \/ x.kind # "text"
    PROVE  Mirrors(WithAmount(rows, i, x), i)
<1>1. PICK j \in {1, 2} : j = 3 - i /\ j # i
  BY SMT
<1>2. Len(rows) = 2 /\ DOMAIN rows = {1, 2} /\ rows[i] \in FrmRow /\ rows[j] \in FrmRow
  BY Element DEF Mirrors
<1>3. Follows(rows, i)
  <2>1. CASE rows[j].text = Blank
    BY <1>1, <2>1, BlankTyped DEF Follows
  <2>2. CASE rows[j].text # Blank
    <3>1. hand = i /\ rows[j].text = Opposite(rows[i].text)
      BY <1>1, <2>2 DEF Mirrors
    <3>2. PICK n \in Int : n = rows[i].text.lead
      BY <1>2, <2>2, <3>1, NotNumber DEF Opposite, FrmRow, FrmText
    <3>3. rows[j].text.lead = -n /\ -n \in Int
      BY <2>2, <3>1, <3>2, PlainTyped DEF Opposite
    <3>4. IsNum(n) /\ IsNum(-n) /\ n + (-n) = 0
      BY <3>2, <3>3, NotNumber
    <3>5. QED
      BY <1>1, <3>2, <3>3, <3>4 DEF Follows
  <2>3. QED
    BY <2>1, <2>2
<1>4. PICK y \in FrmText : y = Mirrored(rows, i, x) /\ y = Opposite(x)
  BY <1>2, MirroredTyped
<1>5. PICK p : p = [rows EXCEPT ![i].text = x, ![j].text = y]
  OBVIOUS
<1>6. p = WithAmount(rows, i, x)
  BY <1>1, <1>2, <1>3, <1>4, <1>5 DEF WithAmount
<1>7. Len(p) = 2
  BY <1>2, <1>6, WithAmountTyped
<1>8. p[i].text = x /\ p[j].text = y
  BY <1>1, <1>2, <1>5 DEF FrmRow
<1>9. QED
  BY <1>1, <1>4, <1>6, <1>7, <1>8 DEF Mirrors
-----------------------------------------------------------------------------
(* What the user does in the rows changes nothing else of the form. *)
RowsOnly(p, f) ==
    /\ p.mode = f.mode /\ p.open = f.open /\ p.loading = f.loading /\ p.orig = f.orig
    /\ p.known = f.known /\ p.bal = f.bal /\ p.sent = f.sent /\ p.saved = f.saved
    /\ p.calm = f.calm /\ p.shown = f.shown /\ p.rest = f.rest

LEMMA RowsGood ==
    ASSUME NEW f, NEW n, NEW b, FrmGood(f, n, b), NEW p \in FrmShape, RowsOnly(p, f),
           Len(p.rows) \in 1..MaxRows,
           p.mirror => p.mode = "new" /\ Mirrors(p.rows, p.hand)
    PROVE  FrmGood(p, n, b)
<1>1. FrmPhase(p, n)
  BY DEF FrmGood, FrmPhase, RowsOnly
<1>2. Unsent(f, n, b) => Unsent(p, n, b)
  BY DEF Unsent, RowsOnly
<1>3. Sent(f, n, b) => Sent(p, n, b)
  BY DEF Sent, RowsOnly
<1>4. f.calm => IF f.sent = 0 THEN Unsent(f, n, b) ELSE Sent(f, n, b)
  BY DEF FrmGood
<1>5. p.calm => IF p.sent = 0 THEN Unsent(p, n, b) ELSE Sent(p, n, b)
  BY <1>2, <1>3, <1>4 DEF RowsOnly
<1>6. QED
  BY <1>1, <1>5 DEF FrmGood

LEMMA TypeKeeps ==
    ASSUME FrmInv, NEW i \in 1..MaxRows, NEW x \in Texts, TypeAmount(i, x)
    PROVE  FrmInv'
<1>1. PICK f, n, b : f = frm /\ n = frmNet /\ b = frmBook
  OBVIOUS
<1>2. /\ FrmGood(f, n, b) /\ f \in FrmShape /\ f.rows \in Seq(FrmRow)
      /\ f.hand \in Nat /\ f.edits \in Nat /\ f.mirror \in BOOLEAN
  BY <1>1 DEF FrmInv, FrmGood, FrmShape
<1>3. i \in DOMAIN f.rows /\ i \in Nat /\ x \in FrmText
  BY <1>1, FrmAssumption DEF TypeAmount, FrmText
<1>4. PICK rows \in Seq(FrmRow) : rows = WithAmount(f.rows, i, x) /\ Len(rows) = Len(f.rows)
  BY <1>2, <1>3, WithAmountTyped
<1>5. PICK mirror \in BOOLEAN :
         mirror <=> f.mirror /\ f.hand \in {0, i} /\ (IsNum(x.lead) \/ x.kind # "text")
  OBVIOUS
<1>6. PICK edits \in Nat : edits = f.edits + 1
  BY <1>2
<1>7a. PICK p :
         p = [f EXCEPT !.edits = edits, !.rows = rows, !.hand = i, !.mirror = mirror]
  OBVIOUS
<1>7. p \in FrmShape /\ RowsOnly(p, f) /\ p.rows = rows /\ p.hand = i /\ p.mirror = mirror
  <2>1. p \in FrmShape
    BY <1>2, <1>3, <1>4, <1>5, <1>6, <1>7a DEF FrmShape
  <2>2. RowsOnly(p, f) /\ p.rows = rows /\ p.hand = i /\ p.mirror = mirror
    BY <1>2, <1>7a DEF FrmShape, RowsOnly
  <2>3. QED
    BY <2>1, <2>2
<1>8. ASSUME p.mirror
      PROVE  p.mode = "new" /\ Mirrors(p.rows, p.hand)
  <2>1. f.mirror /\ f.hand \in {0, i} /\ (IsNum(x.lead) \/ x.kind # "text")
    BY <1>5, <1>7, <1>8
  <2>2. f.mode = "new" /\ Mirrors(f.rows, f.hand)
    BY <1>2, <2>1 DEF FrmGood
  <2>3. i \in {1, 2}
    BY <1>2, <1>3, <2>2 DEF Mirrors
  <2>4. Mirrors(rows, i)
    BY <1>2, <1>3, <1>4, <2>1, <2>2, <2>3, MirrorsFollow
  <2>5. QED
    BY <1>7, <2>2, <2>4 DEF RowsOnly
<1>9. Len(p.rows) \in 1..MaxRows
  BY <1>2, <1>4, <1>7 DEF FrmGood, FrmPhase
<1>10. FrmGood(p, n, b)
  BY <1>2, <1>7, <1>8, <1>9, RowsGood
<1>11. frm' = p
  <2>1. PICK own : own = (f.mirror /\ f.hand \in {0, i} /\ (IsNum(x.lead) \/ x.kind # "text"))
    OBVIOUS
  <2>2. frm' = [f EXCEPT !.edits = f.edits + 1, !.rows = rows, !.hand = i, !.mirror = own]
    BY <1>1, <1>4, <2>1 DEF TypeAmount, Edited
  <2>3. own = mirror
    BY <1>5, <2>1
  <2>4. QED
    BY <1>6, <1>7a, <2>2, <2>3
<1>12. QED
  BY <1>1, <1>10, <1>11 DEF FrmInv, TypeAmount

LEMMA BlurKeeps ==
    ASSUME FrmInv, NEW i \in 1..MaxRows, BlurAmount(i)
    PROVE  FrmInv'
<1>1. PICK f, n, b : f = frm /\ n = frmNet /\ b = frmBook
  OBVIOUS
<1>2. /\ FrmGood(f, n, b) /\ f \in FrmShape /\ f.rows \in Seq(FrmRow)
      /\ f.hand \in Nat /\ f.edits \in Nat /\ f.mirror \in BOOLEAN
  BY <1>1 DEF FrmInv, FrmGood, FrmShape
<1>3. i \in DOMAIN f.rows /\ f.rows[i] \in FrmRow
  BY <1>1, <1>2, Element DEF BlurAmount
<1>4. PICK v \in Int : v = f.rows[i].text.value /\ f.rows[i].text # Plain(v)
  <2>1. f.rows[i].text.value \in Int \cup {NaN}
    BY <1>3 DEF FrmRow, FrmText
  <2>2. QED
    BY <1>1, <2>1, NotNumber DEF BlurAmount
<1>5. PICK x \in FrmText : x = Plain(v) /\ IsNum(x.lead)
  BY <1>4, PlainTyped, NotNumber
<1>6. PICK rows \in Seq(FrmRow) : rows = WithAmount(f.rows, i, x) /\ Len(rows) = Len(f.rows)
  BY <1>2, <1>3, WithAmountTyped
<1>7. PICK edits \in Nat : edits = f.edits + 1
  BY <1>2
<1>8a. PICK p :
         p = [f EXCEPT !.edits = edits, !.rows = rows, !.hand = f.hand, !.mirror = f.mirror]
  OBVIOUS
<1>8. p \in FrmShape /\ RowsOnly(p, f) /\ p.rows = rows /\ p.hand = f.hand /\ p.mirror = f.mirror
  <2>1. p \in FrmShape
    BY <1>2, <1>6, <1>7, <1>8a DEF FrmShape
  <2>2. RowsOnly(p, f) /\ p.rows = rows /\ p.hand = f.hand /\ p.mirror = f.mirror
    BY <1>2, <1>8a DEF FrmShape, RowsOnly
  <2>3. QED
    BY <2>1, <2>2
<1>9. ASSUME p.mirror
      PROVE  p.mode = "new" /\ Mirrors(p.rows, p.hand)
  <2>1. f.mode = "new" /\ Mirrors(f.rows, f.hand)
    BY <1>2, <1>8, <1>9 DEF FrmGood
  <2>2. i \in {1, 2}
    BY <1>2, <1>3, <2>1 DEF Mirrors
  <2>3. f.hand = i
    <3>1. f.hand \in {0, i, 3 - i}
      BY <2>1, <2>2 DEF Mirrors
    <3>2. ASSUME f.rows[i].text = Blank PROVE FALSE
      BY <1>4, <3>2, BlankTyped, NotNumber
    <3>3. f.hand # 0
      BY <2>1, <2>2, <3>2 DEF Mirrors
    <3>4. ASSUME f.hand = 3 - i PROVE FALSE
      <4>1. PICK h \in {1, 2} : h = f.hand /\ 3 - h = i
        BY <2>2, <3>4
      <4>2. f.rows[i].text = Opposite(f.rows[h].text) /\ f.rows[h] \in FrmRow
        BY <1>2, <2>1, <4>1, Element DEF Mirrors
      <4>3. IsNum(f.rows[h].text.lead)
        BY <3>2, <4>2 DEF Opposite
      <4>4. -f.rows[h].text.lead \in Int
        BY <4>2, <4>3, NotNumber DEF FrmRow, FrmText
      <4>5. QED
        BY <1>4, <4>2, <4>3, <4>4, PlainTyped DEF Opposite
    <3>5. QED
      BY <3>1, <3>3, <3>4
  <2>4. Mirrors(rows, i)
    BY <1>2, <1>5, <1>6, <2>1, <2>2, <2>3, MirrorsFollow
  <2>5. QED
    BY <1>8, <2>1, <2>3, <2>4 DEF RowsOnly
<1>10. Len(p.rows) \in 1..MaxRows
  BY <1>2, <1>6, <1>8 DEF FrmGood, FrmPhase
<1>11. FrmGood(p, n, b)
  BY <1>2, <1>8, <1>9, <1>10, RowsGood
<1>12. frm' = p
  <2>1. frm' = [f EXCEPT !.edits = f.edits + 1, !.rows = rows]
    BY <1>1, <1>4, <1>5, <1>6 DEF BlurAmount, Edited
  <2>2. QED
    BY <1>2, <1>7, <1>8a, <2>1 DEF FrmShape
<1>13. QED
  BY <1>1, <1>11, <1>12 DEF FrmInv, BlurAmount
LEMMA PickRowKeeps ==
    ASSUME FrmInv, NEW i \in 1..MaxRows, NEW a \in FrmAccount, PickAccount(i, a)
    PROVE  FrmInv'
<1>1. PICK f, n, b : f = frm /\ n = frmNet /\ b = frmBook
  OBVIOUS
<1>2. /\ FrmGood(f, n, b) /\ f \in FrmShape /\ f.rows \in Seq(FrmRow) /\ f.edits \in Nat
  BY <1>1 DEF FrmInv, FrmGood, FrmShape
<1>3. i \in DOMAIN f.rows /\ f.rows[i] \in FrmRow
  BY <1>1, <1>2, Element DEF PickAccount
<1>4. PICK row : row = [f.rows[i] EXCEPT !.acct = a]
  OBVIOUS
<1>5. row \in FrmRow /\ row.text = f.rows[i].text
  BY <1>3, <1>4 DEF FrmRow
<1>6. PICK rows : rows = [f.rows EXCEPT ![i] = row]
  OBVIOUS
<1>7. /\ rows \in Seq(FrmRow) /\ Len(rows) = Len(f.rows)
      /\ \A j \in DOMAIN f.rows : rows[j].text = f.rows[j].text
  BY <1>2, <1>3, <1>5, <1>6
<1>8. PICK edits \in Nat : edits = f.edits + 1
  BY <1>2
<1>9. PICK p : p = [f EXCEPT !.edits = edits, !.rows = rows]
  OBVIOUS
<1>10. p \in FrmShape /\ RowsOnly(p, f) /\ p.rows = rows /\ p.hand = f.hand /\ p.mirror = f.mirror
  <2>1. p \in FrmShape
    BY <1>2, <1>7, <1>8, <1>9 DEF FrmShape
  <2>2. RowsOnly(p, f) /\ p.rows = rows /\ p.hand = f.hand /\ p.mirror = f.mirror
    BY <1>2, <1>9 DEF FrmShape, RowsOnly
  <2>3. QED
    BY <2>1, <2>2
<1>11. ASSUME p.mirror
       PROVE  p.mode = "new" /\ Mirrors(p.rows, p.hand)
  <2>1. f.mode = "new" /\ Mirrors(f.rows, f.hand)
    BY <1>2, <1>10, <1>11 DEF FrmGood
  <2>2. DOMAIN f.rows = {1, 2} /\ Len(rows) = 2 /\ f.hand \in 0..2
    BY <1>2, <1>7, <2>1 DEF Mirrors
  <2>3. f.hand # 0 => f.hand \in {1, 2} /\ 3 - f.hand \in {1, 2}
    BY <2>2
  <2>4. Mirrors(rows, f.hand)
    BY <1>7, <2>1, <2>2, <2>3 DEF Mirrors
  <2>5. QED
    BY <1>10, <2>1, <2>4 DEF RowsOnly
<1>12. Len(p.rows) \in 1..MaxRows
  BY <1>2, <1>7, <1>10 DEF FrmGood, FrmPhase
<1>13. FrmGood(p, n, b)
  BY <1>2, <1>10, <1>11, <1>12, RowsGood
<1>14. frm' = p
  <2>1. frm' = [[f EXCEPT !.edits = f.edits + 1] EXCEPT !.rows[i].acct = a]
    BY <1>1 DEF PickAccount, Edited
  <2>2. rows = [f.rows EXCEPT ![i].acct = a]
    BY <1>4, <1>6
  <2>3. PICK g : g = [f EXCEPT !.edits = f.edits + 1]
    OBVIOUS
  <2>4. g.rows = f.rows /\ frm' = [g EXCEPT !.rows = [g.rows EXCEPT ![i].acct = a]]
    BY <1>2, <2>1, <2>3 DEF FrmShape
  <2>5. QED
    BY <1>8, <1>9, <2>2, <2>3, <2>4
<1>15. QED
  BY <1>1, <1>13, <1>14 DEF FrmInv, PickAccount

(* A row more or less: the rows are not two of which one is typed in any   *)
(* more. *)
LEMMA FormRowsKeep ==
    ASSUME FrmInv, AddRow \/ \E i \in 1..MaxRows : RemoveRow(i)
    PROVE  FrmInv'
<1>1. PICK f, n, b : f = frm /\ n = frmNet /\ b = frmBook
  OBVIOUS
<1>2. /\ FrmGood(f, n, b) /\ f \in FrmShape /\ f.rows \in Seq(FrmRow) /\ f.edits \in Nat
      /\ Len(f.rows) \in 1..MaxRows
  BY <1>1 DEF FrmInv, FrmGood, FrmShape, FrmPhase
<1>3. \E rows \in Seq(FrmRow) :
        /\ Len(rows) \in 1..MaxRows /\ UNCHANGED <<frmNet, frmBook>>
        /\ frm' = [Edited(f) EXCEPT !.mirror = FALSE, !.rows = rows]
  <2>1. CASE AddRow
    <3>1. PICK row \in FrmRow : row = Row(NoAcct, Blank)
      BY RowTyped, BlankTyped
    <3>2. PICK rows : rows = Append(f.rows, row)
      OBVIOUS
    <3>3. rows \in Seq(FrmRow) /\ Len(rows) = Len(f.rows) + 1 /\ Len(f.rows) < MaxRows
      BY <1>1, <1>2, <2>1, <3>1, <3>2 DEF AddRow
    <3>4. MaxRows \in Nat
      BY FrmAssumption
    <3>5. PICK g : g = Edited(f)
      OBVIOUS
    <3>6. g \in [mode : {"new", "edit", "copy"}, open : BOOLEAN, loading : BOOLEAN,
                 rows : Seq(FrmRow), orig : FrmSums, known : BOOLEAN, bal : FrmSums, edits : Nat,
                 sent : {0} \cup Tries, saved : BOOLEAN, mirror : BOOLEAN, hand : Nat,
                 calm : BOOLEAN, shown : [FrmAccount -> Int \cup {NaN}], rest : Int]
          /\ g.rows = f.rows
      BY <1>2, <3>5 DEF Edited, FrmShape
    <3>7. frm' = [g EXCEPT !.rows = Append(g.rows, Row(NoAcct, Blank)), !.mirror = FALSE]
      BY <1>1, <2>1, <3>5 DEF AddRow
    <3>8. frm' = [g EXCEPT !.mirror = FALSE, !.rows = rows]
      BY <3>1, <3>2, <3>6, <3>7
    <3>9. Len(rows) \in 1..MaxRows
      BY <1>2, <3>3, <3>4
    <3>10. QED
      BY <2>1, <3>3, <3>5, <3>8, <3>9 DEF AddRow
  <2>2. ASSUME NEW i \in 1..MaxRows, RemoveRow(i)
        PROVE  \E rows \in Seq(FrmRow) :
                 /\ Len(rows) \in 1..MaxRows /\ UNCHANGED <<frmNet, frmBook>>
                 /\ frm' = [Edited(f) EXCEPT !.mirror = FALSE, !.rows = rows]
    <3>1. i \in 1..Len(f.rows) /\ Len(f.rows) > 1
      BY <1>1, <1>2, <2>2, Element DEF RemoveRow
    <3>2. PICK s, t : s = SubSeq(f.rows, 1, i - 1) /\ t = SubSeq(f.rows, i + 1, Len(f.rows))
      OBVIOUS
    <3>3. /\ s \in Seq(FrmRow) /\ t \in Seq(FrmRow)
          /\ Len(s) = i - 1 /\ Len(t) = Len(f.rows) - i
      BY <1>2, <3>1, <3>2
    <3>4. PICK rows : rows = s \o t
      OBVIOUS
    <3>5. rows \in Seq(FrmRow) /\ Len(rows) = Len(f.rows) - 1
      BY <1>2, <3>1, <3>3, <3>4
    <3>6. PICK g : g = Edited(f)
      OBVIOUS
    <3>7. g.rows = f.rows
      BY <1>2, <3>6 DEF Edited, FrmShape
    <3>8. frm' = [g EXCEPT !.mirror = FALSE,
                    !.rows = SubSeq(g.rows, 1, i - 1) \o SubSeq(g.rows, i + 1, Len(g.rows))]
      BY <1>1, <2>2, <3>6 DEF RemoveRow
    <3>9. frm' = [g EXCEPT !.mirror = FALSE, !.rows = rows]
      BY <3>2, <3>4, <3>7, <3>8
    <3>10. Len(rows) \in 1..MaxRows
      BY <1>2, <3>1, <3>5, FrmAssumption
    <3>11. QED
      BY <2>2, <3>5, <3>6, <3>9, <3>10 DEF RemoveRow
  <2>3. QED
    BY <2>1, <2>2
<1>4. PICK rows \in Seq(FrmRow) :
        /\ Len(rows) \in 1..MaxRows /\ UNCHANGED <<frmNet, frmBook>>
        /\ frm' = [Edited(f) EXCEPT !.mirror = FALSE, !.rows = rows]
  BY <1>3
<1>5. PICK p : p = frm'
  OBVIOUS
<1>6. p \in FrmShape /\ RowsOnly(p, f) /\ p.rows = rows /\ ~p.mirror
  <2>1. PICK edits \in Nat : edits = f.edits + 1
    BY <1>2
  <2>2. PICK g : g = [f EXCEPT !.edits = edits]
    OBVIOUS
  <2>3. g \in FrmShape /\ RowsOnly(g, f)
    <3>1. g \in FrmShape
      BY <1>2, <2>1, <2>2 DEF FrmShape
    <3>2. RowsOnly(g, f)
      BY <1>2, <2>2 DEF FrmShape, RowsOnly
    <3>3. QED
      BY <3>1, <3>2
  <2>4. p = [g EXCEPT !.mirror = FALSE, !.rows = rows]
    BY <1>4, <1>5, <2>1, <2>2 DEF Edited
  <2>5. p \in FrmShape
    BY <1>4, <2>3, <2>4 DEF FrmShape
  <2>6. RowsOnly(p, g) /\ p.rows = rows /\ ~p.mirror
    BY <2>3, <2>4 DEF FrmShape, RowsOnly
  <2>7. QED
    BY <2>3, <2>5, <2>6 DEF RowsOnly
<1>7. FrmGood(p, n, b)
  BY <1>2, <1>4, <1>6, RowsGood
<1>8. QED
  BY <1>1, <1>4, <1>5, <1>7 DEF FrmInv
-----------------------------------------------------------------------------
(* The answers, and the save. *)
LEMMA AccountsKeep ==
    ASSUME FrmInv, NEW ok \in BOOLEAN, FrmAccountsAnswered(ok)
    PROVE  FrmInv'
<1>1. PICK f, n, b : f = frm /\ n = frmNet /\ b = frmBook
  OBVIOUS
<1>2. /\ FrmGood(f, n, b) /\ f \in FrmShape /\ n \in FrmAnswers /\ b \in FrmServer
      /\ FrmPhase(f, n)
  BY <1>1 DEF FrmInv, FrmGood
<1>3. PICK m : m = [n EXCEPT !.accounts = FALSE]
  OBVIOUS
<1>4. m \in FrmAnswers /\ m.tx = n.tx /\ m.save = n.save
  BY <1>2, <1>3 DEF FrmAnswers
<1>5. PICK p : p = IF ok THEN [f EXCEPT !.known = TRUE, !.bal = b.bal] ELSE f
  OBVIOUS
<1>6. p \in FrmShape
  BY <1>2, <1>5 DEF FrmShape, FrmServer
<1>7. /\ p.mode = f.mode /\ p.open = f.open /\ p.loading = f.loading /\ p.rows = f.rows
      /\ p.orig = f.orig /\ p.sent = f.sent /\ p.saved = f.saved /\ p.mirror = f.mirror
      /\ p.hand = f.hand /\ p.calm = f.calm /\ p.shown = f.shown /\ p.rest = f.rest
      /\ (ok => p.bal = b.bal)
      /\ (~ok => p.known = f.known /\ p.bal = f.bal)
  BY <1>2, <1>5 DEF FrmShape
<1>8. FrmPhase(p, m)
  BY <1>2, <1>4, <1>7 DEF FrmPhase
<1>9. ASSUME p.calm
      PROVE  IF p.sent = 0 THEN Unsent(p, m, b) ELSE Sent(p, m, b)
  <2>1. CASE f.sent = 0
    <3>1. Unsent(f, n, b)
      BY <1>2, <1>7, <1>9, <2>1 DEF FrmGood
    <3>2. p.known => p.bal = Balance
      BY <1>7, <3>1, BooksTyped DEF Unsent
    <3>3. QED
      BY <1>4, <1>7, <2>1, <3>1, <3>2 DEF Unsent
  <2>2. CASE f.sent # 0
    <3>1. Sent(f, n, b)
      BY <1>2, <1>7, <1>9, <2>2 DEF FrmGood
    <3>2. QED
      BY <1>4, <1>7, <2>2, <3>1 DEF Sent
  <2>3. QED
    BY <2>1, <2>2
<1>10. FrmGood(p, m, b)
  BY <1>2, <1>4, <1>6, <1>7, <1>8, <1>9 DEF FrmGood
<1>11. QED
  BY <1>1, <1>3, <1>5, <1>10 DEF FrmInv, FrmAccountsAnswered

LEMMA LoadedKeeps ==
    ASSUME FrmInv, NEW ok \in BOOLEAN, FrmLoaded(ok)
    PROVE  FrmInv'
<1>1. PICK f, n, b : f = frm /\ n = frmNet /\ b = frmBook
  OBVIOUS
<1>2. /\ FrmGood(f, n, b) /\ f \in FrmShape /\ n \in FrmAnswers /\ b \in FrmServer
      /\ FrmPhase(f, n) /\ n.tx /\ f.loading /\ f.sent = 0 /\ f.mode # "new"
      /\ f.mode \in {"new", "edit", "copy"}
  BY <1>1 DEF FrmInv, FrmGood, FrmPhase, FrmLoaded, FrmShape
<1>3. PICK m : m = [n EXCEPT !.tx = FALSE]
  OBVIOUS
<1>4. m \in FrmAnswers /\ ~m.tx /\ m.save = n.save
  BY <1>2, <1>3 DEF FrmAnswers
<1>5. PICK own \in FrmSums : own = OwnSums(f.mode)
  BY OwnTyped
<1>6. PICK rows \in Seq(FrmRow) : rows = OldForm /\ Len(rows) \in 1..MaxRows
  BY OldFormTyped
<1>7. PICK p : p = IF ok THEN [f EXCEPT !.loading = FALSE, !.rows = rows, !.orig = own]
                   ELSE [f EXCEPT !.loading = FALSE, !.calm = FALSE]
  OBVIOUS
<1>8. p \in FrmShape
  <2>1. CASE ok
    BY <1>2, <1>5, <1>6, <1>7, <2>1 DEF FrmShape
  <2>2. CASE ~ok
    BY <1>2, <1>7, <2>2 DEF FrmShape
  <2>3. QED
    BY <2>1, <2>2
<1>9. /\ p.mode = f.mode /\ ~p.loading /\ p.rows \in {rows, f.rows}
      /\ p.sent = f.sent /\ p.saved = f.saved /\ p.mirror = f.mirror
      /\ (p.calm => ok /\ f.calm /\ p.orig = own) /\ p.known = f.known /\ p.bal = f.bal
  BY <1>2, <1>5, <1>6, <1>7 DEF FrmShape
<1>10. FrmPhase(p, m)
  BY <1>2, <1>4, <1>6, <1>9 DEF FrmPhase
<1>11. ~f.mirror
  BY <1>2 DEF FrmGood
<1>12. p.calm => Unsent(p, m, b)
  BY <1>2, <1>4, <1>5, <1>9 DEF FrmGood, Unsent
<1>13. FrmGood(p, m, b)
  BY <1>2, <1>4, <1>8, <1>9, <1>10, <1>11, <1>12 DEF FrmGood
<1>14. frm' = p
  <2>1. PICK sums : sums = [a \in FrmAccount |-> IF f.mode = "edit" THEN Original(OldForm, a)
                                                ELSE 0]
    OBVIOUS
  <2>2. \A a \in FrmAccount : FrmBooks.old[a] = Original(OldForm, a)
    BY DEF FrmBooks, Original
  <2>3. sums = own
    BY <1>5, <2>1, <2>2 DEF OwnSums
  <2>4. frm' = IF ok THEN [f EXCEPT !.loading = FALSE, !.rows = rows, !.orig = sums]
               ELSE [f EXCEPT !.loading = FALSE, !.calm = FALSE]
    BY <1>1, <1>6, <2>1 DEF FrmLoaded
  <2>5. QED
    BY <1>7, <2>3, <2>4
<1>15. QED
  BY <1>1, <1>3, <1>13, <1>14 DEF FrmInv, FrmLoaded

LEMMA ShutFormKeeps == ASSUME FrmInv, CloseForm PROVE FrmInv'
<1>1. PICK f, n, b : f = frm /\ n = frmNet /\ b = frmBook
  OBVIOUS
<1>2. FrmGood(f, n, b) /\ f \in FrmShape
  BY <1>1 DEF FrmInv, FrmGood
<1>3. PICK p : p = [f EXCEPT !.open = FALSE]
  OBVIOUS
<1>4. p \in FrmShape
  BY <1>2, <1>3 DEF FrmShape
<1>5. /\ p.mode = f.mode /\ ~p.open /\ p.loading = f.loading /\ p.rows = f.rows
      /\ p.orig = f.orig /\ p.sent = f.sent /\ p.saved = f.saved /\ p.mirror = f.mirror
      /\ p.hand = f.hand /\ p.calm = f.calm /\ p.shown = f.shown /\ p.known = f.known
      /\ p.bal = f.bal /\ p.rest = f.rest
  BY <1>2, <1>3 DEF FrmShape
<1>6. FrmPhase(p, n)
  BY <1>2, <1>5 DEF FrmGood, FrmPhase
<1>7. Unsent(f, n, b) => Unsent(p, n, b)
  BY <1>5 DEF Unsent
<1>8. Sent(f, n, b) => Sent(p, n, b)
  BY <1>5 DEF Sent
<1>9. FrmGood(p, n, b)
  BY <1>2, <1>4, <1>5, <1>6, <1>7, <1>8 DEF FrmGood
<1>10. QED
  BY <1>1, <1>3, <1>9 DEF FrmInv, CloseForm
LEMMA SubmitKeeps == ASSUME FrmInv, HandleSubmit PROVE FrmInv'
<1>1. PICK f, n, b : f = frm /\ n = frmNet /\ b = frmBook
  OBVIOUS
<1>2. /\ FrmGood(f, n, b) /\ f \in FrmShape /\ n \in FrmAnswers /\ b \in FrmServer
      /\ FrmPhase(f, n) /\ f.rows \in Seq(FrmRow) /\ f.sent + 1 \in Tries
      /\ f.open /\ ~(f.loading /\ f.mode # "new")
  BY <1>1 DEF FrmInv, FrmGood, FrmShape, HandleSubmit, Visible
<1>3. ~n.tx
  BY <1>2 DEF FrmPhase
<1>4. PICK k \in Tries : k = f.sent + 1
  BY <1>2
<1>5. PICK adds : adds = [a \in FrmAccount |-> OfAccount(f.rows, a)]
  OBVIOUS
<1>6. adds \in FrmSums /\ \A a \in FrmAccount : adds[a] = OfAccount(f.rows, a)
  BY <1>2, <1>5, OfAccountInt DEF FrmSums
<1>6a. PICK rest \in Int, sides \in Nat : rest = LeftOver(f.rows) /\ sides = Sides(f.rows)
  BY <1>2, RestInt
<1>7. PICK w : w = [NoWrite EXCEPT !.out = TRUE, !.adds = adds, !.rest = rest, !.sides = sides]
  OBVIOUS
<1>8. w \in FrmWrite /\ w.out /\ ~w.run /\ w.adds = adds /\ w.rest = rest
  <2>1. PICK o \in FrmWrite : o = NoWrite /\ ~o.run
    BY NothingTyped
  <2>2. QED
    BY <1>6, <1>7, <2>1 DEF FrmWrite
<1>9. PICK m : m = [n EXCEPT !.save[k] = w]
  OBVIOUS
<1>10. /\ m \in FrmAnswers /\ m.tx = n.tx /\ m.save[k] = w
       /\ \A j \in Tries : j # k => m.save[j] = n.save[j]
  BY <1>2, <1>4, <1>8, <1>9 DEF FrmAnswers
<1>11. PICK shown : shown = [a \in FrmAccount |->
                               IF f.known /\ RowsOf(f.rows, a) # {}
                               THEN f.bal[a] - f.orig[a] + adds[a] ELSE NaN]
  OBVIOUS
<1>12. shown \in [FrmAccount -> Int \cup {NaN}]
  BY <1>2, <1>6, <1>11 DEF FrmShape, FrmSums
<1>13. PICK calm \in BOOLEAN : calm <=> f.calm /\ f.sent = 0
  OBVIOUS
<1>14. PICK p : p = [f EXCEPT !.loading = TRUE, !.sent = k, !.calm = calm, !.shown = shown,
                             !.rest = rest]
  OBVIOUS
<1>15. p \in FrmShape
  BY <1>2, <1>4, <1>6a, <1>12, <1>13, <1>14 DEF FrmShape
<1>16. /\ p.mode = f.mode /\ p.open = f.open /\ p.rows = f.rows /\ p.sent = k
       /\ p.saved = f.saved /\ p.mirror = f.mirror /\ p.hand = f.hand /\ p.calm = calm
       /\ p.shown = shown /\ p.rest = rest
  BY <1>2, <1>14 DEF FrmShape
<1>17. FrmPhase(p, m)
  BY <1>2, <1>3, <1>4, <1>8, <1>10, <1>16 DEF FrmPhase, Tries
<1>18. ASSUME p.calm
       PROVE  p.sent # 0 /\ Sent(p, m, b)
  <2>1. f.calm /\ f.sent = 0 /\ k = 1
    BY <1>4, <1>13, <1>16, <1>18
  <2>2. Unsent(f, n, b)
    BY <1>2, <2>1 DEF FrmGood
  <2>3. 2 \in Tries /\ 2 # k /\ m.save[1] = w
    BY <1>10, <2>1 DEF Tries
  <2>4. b = FrmBooks /\ ~p.saved /\ ~m.save[2].out /\ ~m.save[2].run
    BY <1>2, <1>10, <1>16, <2>1, <2>2, <2>3 DEF Unsent, FrmPhase
  <2>5. ASSUME NEW a \in FrmAccount, IsNum(shown[a])
        PROVE  shown[a] = AfterSave(f.mode, adds, a)
    <3>1. f.known
      BY <1>11, <2>5, NotNumber
    <3>2. f.bal = Balance /\ f.orig = OwnSums(f.mode)
      BY <1>3, <2>2, <3>1 DEF Unsent
    <3>3. shown[a] = f.bal[a] - f.orig[a] + adds[a]
      BY <1>11, <2>5, NotNumber
    <3>4. QED
      BY <3>2, <3>3 DEF AfterSave
  <2>6. QED
    BY <1>8, <1>16, <2>1, <2>3, <2>4, <2>5 DEF Sent
<1>19. FrmGood(p, m, b)
  BY <1>2, <1>10, <1>15, <1>16, <1>17, <1>18 DEF FrmGood
<1>20. frm' = p
  <2>1. PICK q, s : /\ q = (f.calm /\ f.sent = 0)
                    /\ s = [a \in FrmAccount |-> Projected(a)]
    OBVIOUS
  <2>2. q = calm /\ f.sent + 1 = k
    BY <1>4, <1>13, <2>1
  <2>3. \A a \in FrmAccount :
          Projected(a) = IF f.known /\ RowsOf(f.rows, a) # {}
                         THEN f.bal[a] - f.orig[a] + adds[a] ELSE NaN
    BY <1>1, <1>6 DEF Projected
  <2>4. s = shown
    BY <1>11, <2>1, <2>3
  <2>5. frm' = [f EXCEPT !.loading = TRUE, !.sent = f.sent + 1, !.calm = q, !.shown = s,
                         !.rest = LeftOver(f.rows)]
    BY <1>1, <2>1 DEF HandleSubmit
  <2>6. QED
    BY <1>6a, <1>14, <2>2, <2>4, <2>5
<1>21. frmNet' = m
  <2>1. frmNet' = [n EXCEPT !.save[f.sent + 1] = [NoWrite EXCEPT !.out = TRUE,
                     !.adds = [a \in FrmAccount |-> OfAccount(f.rows, a)],
                     !.rest = LeftOver(f.rows), !.sides = Sides(f.rows)]]
    BY <1>1 DEF HandleSubmit
  <2>2. QED
    BY <1>4, <1>5, <1>6a, <1>7, <1>9, <2>1
<1>22. QED
  BY <1>1, <1>19, <1>20, <1>21 DEF FrmInv, HandleSubmit

LEMMA RunsKeep == ASSUME FrmInv, NEW k \in Tries, SaveRuns(k) PROVE FrmInv'
<1>1. PICK f, n, b : f = frm /\ n = frmNet /\ b = frmBook
  OBVIOUS
<1>2. /\ FrmGood(f, n, b) /\ f \in FrmShape /\ n \in FrmAnswers /\ b \in FrmServer
      /\ FrmPhase(f, n) /\ n.save[k] \in FrmWrite /\ n.save[k].out /\ ~n.save[k].run
  BY <1>1 DEF FrmInv, FrmGood, FrmAnswers, SaveRuns
<1>3. PICK w : w = [n.save[k] EXCEPT !.run = TRUE]
  OBVIOUS
<1>4. w \in FrmWrite /\ w.out /\ w.run
  BY <1>2, <1>3 DEF FrmWrite
<1>5. PICK m : m = [n EXCEPT !.save[k] = w]
  OBVIOUS
<1>6. /\ m \in FrmAnswers /\ m.tx = n.tx /\ m.save[k] = w
      /\ \A j \in Tries : j # k => m.save[j] = n.save[j]
  BY <1>2, <1>4, <1>5 DEF FrmAnswers
<1>7. PICK adds \in FrmSums, rest \in Int : adds = n.save[k].adds /\ rest = n.save[k].rest
  BY <1>2 DEF FrmWrite
<1>7a. f.mode = "edit" => rest = 0
  BY <1>1, <1>7 DEF SaveRuns, Accepted
<1>7b. \A a \in FrmAccount : OfImbalance(rest, a) \in Int
  BY <1>7 DEF OfImbalance
<1>8. PICK bal : bal = [a \in FrmAccount |-> IF f.mode = "edit"
                                             THEN b.bal[a] - b.old[a] + adds[a]
                                             ELSE b.bal[a] + adds[a] - OfImbalance(rest, a)]
  OBVIOUS
<1>9. bal \in FrmSums
  BY <1>2, <1>7, <1>7b, <1>8 DEF FrmServer, FrmSums
<1>10. PICK c : c = IF f.mode = "edit" THEN [b EXCEPT !.old = adds, !.bal = bal]
                    ELSE [b EXCEPT !.bal = bal]
  OBVIOUS
<1>11. c \in FrmServer /\ c.bal = bal
  BY <1>2, <1>7, <1>9, <1>10 DEF FrmServer
<1>12. FrmPhase(f, m)
  BY <1>2, <1>4, <1>6 DEF FrmPhase
<1>13. ASSUME f.calm
       PROVE  f.sent # 0 /\ Sent(f, m, c)
  <2>1. f.sent # 0 /\ Sent(f, n, b)
    BY <1>2, <1>13 DEF FrmGood, FrmPhase
  <2>2. k = 1 /\ 1 \in Tries /\ 2 \in Tries
    BY <1>2, <2>1 DEF Sent, Tries
  <2>3. /\ b = FrmBooks /\ ~f.saved
        /\ \A a \in FrmAccount :
             IsNum(f.shown[a]) => f.shown[a] = AfterSave(f.mode, adds, a)
        /\ rest = f.rest
    BY <1>2, <1>7, <2>1, <2>2 DEF Sent
  <2>4. ~m.save[2].out /\ ~m.save[2].run /\ m.save[1].run
    BY <1>4, <1>6, <2>1, <2>2 DEF Sent
  <2>5. ASSUME NEW a \in FrmAccount
        PROVE  bal[a] = AfterSave(f.mode, adds, a) - OfImbalance(rest, a)
    <3>1. b.bal[a] = Balance[a] /\ b.bal[a] \in Int /\ adds[a] \in Int /\ b.old[a] \in Int
      BY <1>2, <1>7, <2>3, BooksTyped DEF FrmServer, FrmSums
    <3>2. OwnSums(f.mode)[a] = IF f.mode = "edit" THEN b.old[a] ELSE 0
      BY <2>3 DEF OwnSums
    <3>3. OfImbalance(rest, a) \in Int /\ (f.mode = "edit" => OfImbalance(rest, a) = 0)
      BY <1>7a, <1>7b DEF OfImbalance
    <3>4. CASE f.mode = "edit"
      <4>1. bal[a] = b.bal[a] - b.old[a] + adds[a]
        BY <1>8, <3>4
      <4>2. AfterSave(f.mode, adds, a) = Balance[a] - b.old[a] + adds[a]
        BY <3>2, <3>4 DEF AfterSave
      <4>3. QED
        BY <3>1, <3>3, <3>4, <4>1, <4>2
    <3>5. CASE f.mode # "edit"
      <4>1. bal[a] = b.bal[a] + adds[a] - OfImbalance(rest, a)
        BY <1>8, <3>5
      <4>2. AfterSave(f.mode, adds, a) = Balance[a] - 0 + adds[a]
        BY <3>2, <3>5 DEF AfterSave
      <4>3. QED
        BY <3>1, <3>3, <4>1, <4>2
    <3>6. QED
      BY <3>4, <3>5
  <2>6. ASSUME NEW a \in FrmAccount, IsNum(f.shown[a])
        PROVE  c.bal[a] = f.shown[a] - OfImbalance(f.rest, a)
    BY <1>11, <2>3, <2>5, <2>6
  <2>7. QED
    BY <1>7a, <1>11, <2>1, <2>3, <2>4, <2>6 DEF Sent
<1>14. FrmGood(f, m, c)
  BY <1>2, <1>6, <1>11, <1>12, <1>13 DEF FrmGood
<1>15. frmBook' = c
  <2>1. frmBook' = IF f.mode = "edit"
          THEN [b EXCEPT !.old = adds, !.bal = [a \in FrmAccount |-> b.bal[a] - b.old[a] + adds[a]]]
          ELSE [b EXCEPT !.bal =
                  [a \in FrmAccount |-> b.bal[a] + adds[a] - OfImbalance(rest, a)]]
    BY <1>1, <1>7 DEF SaveRuns
  <2>2. CASE f.mode = "edit"
    <3>1. bal = [a \in FrmAccount |-> b.bal[a] - b.old[a] + adds[a]]
      BY <1>8, <2>2
    <3>2. QED
      BY <1>10, <2>1, <2>2, <3>1
  <2>3. CASE f.mode # "edit"
    <3>1. bal = [a \in FrmAccount |-> b.bal[a] + adds[a] - OfImbalance(rest, a)]
      BY <1>8, <2>3
    <3>2. QED
      BY <1>10, <2>1, <2>3, <3>1
  <2>4. QED
    BY <2>2, <2>3
<1>16. frmNet' = m
  <2>1. frmNet' = [n EXCEPT !.save[k].run = TRUE]
    BY <1>1 DEF SaveRuns
  <2>2. QED
    BY <1>3, <1>5, <2>1
<1>17. QED
  BY <1>1, <1>14, <1>15, <1>16 DEF FrmInv, SaveRuns

LEMMA AnsweredKeeps ==
    ASSUME FrmInv, NEW k \in Tries, SaveAnswered(k) \/ SaveFailed(k)
    PROVE  FrmInv'
<1>1. PICK f, n, b : f = frm /\ n = frmNet /\ b = frmBook
  OBVIOUS
<1>2. /\ FrmGood(f, n, b) /\ f \in FrmShape /\ n \in FrmAnswers /\ b \in FrmServer
      /\ FrmPhase(f, n)
  BY <1>1 DEF FrmInv, FrmGood
<1>3. PICK w \in FrmWrite : w = NoWrite /\ ~w.out /\ ~w.run
  BY NothingTyped
<1>4. PICK m : m = [n EXCEPT !.save[k] = w]
  OBVIOUS
<1>5. /\ m \in FrmAnswers /\ m.tx = n.tx /\ m.save[k] = w
      /\ \A j \in Tries : j # k => m.save[j] = n.save[j]
  <2>1. w \in FrmWrite
    BY <1>3
  <2>2. QED
    BY <1>2, <1>4, <2>1 DEF FrmAnswers
<1>6. PICK p :
         \/ SaveAnswered(k) /\ p = [f EXCEPT !.loading = FALSE, !.open = FALSE, !.saved = TRUE]
         \/ SaveFailed(k) /\ p = [f EXCEPT !.loading = FALSE, !.calm = FALSE]
  OBVIOUS
<1>7. p \in FrmShape
  BY <1>2, <1>6 DEF FrmShape
<1>8. /\ p.mode = f.mode /\ ~p.loading /\ p.rows = f.rows /\ p.sent = f.sent
      /\ p.mirror = f.mirror /\ p.hand = f.hand /\ p.shown = f.shown /\ p.rest = f.rest
      /\ (p.calm => SaveAnswered(k) /\ f.calm /\ p.saved)
  BY <1>2, <1>6 DEF FrmShape
<1>9. ~n.tx
  <2>1. n.save[k].out \/ n.save[k].run
    BY <1>1, <1>6 DEF SaveAnswered, SaveFailed
  <2>2. QED
    BY <1>2, <2>1 DEF FrmPhase
<1>10. FrmPhase(p, m)
  BY <1>2, <1>3, <1>5, <1>8, <1>9 DEF FrmPhase
<1>11. ASSUME p.calm
       PROVE  p.sent # 0 /\ Sent(p, m, b)
  <2>1. f.calm /\ p.saved /\ n.save[k].run /\ f.sent # 0
    BY <1>1, <1>2, <1>8, <1>11 DEF SaveAnswered, FrmPhase
  <2>2. Sent(f, n, b)
    BY <1>2, <2>1 DEF FrmGood
  <2>3. k = 1 /\ 1 \in Tries /\ 2 \in Tries
    BY <2>1, <2>2 DEF Sent, Tries
  <2>4. m.save[1] = w /\ m.save[2] = n.save[2]
    BY <1>5, <2>3
  <2>5. QED
    BY <1>3, <1>8, <2>1, <2>2, <2>3, <2>4 DEF Sent
<1>12. FrmGood(p, m, b)
  BY <1>2, <1>5, <1>7, <1>8, <1>10, <1>11 DEF FrmGood
<1>13. frm' = p /\ frmNet' = m /\ frmBook' = b
  BY <1>1, <1>3, <1>4, <1>6 DEF SaveAnswered, SaveFailed
<1>14. QED
  BY <1>12, <1>13 DEF FrmInv
-----------------------------------------------------------------------------
(* The form at its start, and all its steps. *)
FrmStarting ==
    \E mode \in {"new", "edit", "copy"}, a \in Defaults :
      frm = FrmStart(mode, a) /\ frmNet = FrmNetStart(mode) /\ frmBook = FrmBooks

LEMMA FrmStartKeeps == FrmStarting => FrmInv
<1> SUFFICES ASSUME NEW mode \in {"new", "edit", "copy"}, NEW a \in Defaults,
                    frm = FrmStart(mode, a), frmNet = FrmNetStart(mode), frmBook = FrmBooks
             PROVE  FrmInv
  BY DEF FrmStarting
<1>1. PICK zero \in FrmSums : zero = [b \in FrmAccount |-> 0]
  BY NothingTyped
<1>2. PICK none : none = [b \in FrmAccount |-> NaN]
  OBVIOUS
<1>3. none \in [FrmAccount -> Int \cup {NaN}]
  BY <1>2
<1>4. PICK r, s \in FrmRow : /\ r = Row(a, Blank) /\ s = Row(NoAcct, Blank)
                             /\ r.text = Blank /\ s.text = Blank
  <2>1. a \in FrmAccount \cup {NoAcct} /\ NoAcct \in FrmAccount \cup {NoAcct}
    BY FrmAssumption
  <2>2. Row(a, Blank) \in FrmRow /\ Row(a, Blank).text = Blank
    BY <2>1, RowTyped, BlankTyped
  <2>3. Row(NoAcct, Blank) \in FrmRow /\ Row(NoAcct, Blank).text = Blank
    BY <2>1, RowTyped, BlankTyped
  <2>4. QED
    BY <2>2, <2>3
<1>5. PICK rows : rows = <<r, s>>
  OBVIOUS
<1>6. /\ rows \in Seq(FrmRow) /\ Len(rows) = 2
      /\ rows[1].text = Blank /\ rows[2].text = Blank
  <2>1. r \in FrmRow /\ s \in FrmRow
    BY <1>4
  <2>2. rows \in Seq(FrmRow) /\ Len(rows) = 2 /\ rows[1] = r /\ rows[2] = s
    BY <1>5, <2>1
  <2>3. QED
    BY <1>4, <2>2
<1>7. PICK fresh \in BOOLEAN : fresh <=> mode = "new"
  OBVIOUS
<1>8. PICK p : p = [mode |-> mode, open |-> TRUE, loading |-> ~fresh, rows |-> rows,
                    orig |-> zero, known |-> FALSE, bal |-> Balance, edits |-> 0, sent |-> 0,
                    saved |-> FALSE, mirror |-> fresh, hand |-> 0, calm |-> TRUE,
                    shown |-> none, rest |-> 0]
  OBVIOUS
<1>9. p \in FrmShape
  BY <1>1, <1>3, <1>6, <1>7, <1>8, FrmAssumption DEF FrmShape, FrmSums
<1>10. frm = p
  <2>1. PICK x, y : x = (mode # "new") /\ y = (mode = "new")
    OBVIOUS
  <2>2. x = ~fresh /\ y = fresh
    BY <1>7, <2>1
  <2>3. frm = [mode |-> mode, open |-> TRUE, loading |-> x, rows |-> rows,
               orig |-> zero, known |-> FALSE, bal |-> Balance, edits |-> 0, sent |-> 0,
               saved |-> FALSE, mirror |-> y, hand |-> 0, calm |-> TRUE, shown |-> none,
               rest |-> 0]
    BY <1>1, <1>2, <1>4, <1>5, <2>1 DEF FrmStart
  <2>4. QED
    BY <1>8, <2>2, <2>3
<1>11. PICK n : n = frmNet
  OBVIOUS
<1>12. /\ n \in FrmAnswers /\ (n.tx <=> ~fresh)
       /\ \A k \in Tries : ~n.save[k].out /\ ~n.save[k].run
  <2>1. PICK f : f = [k \in Tries |-> NoWrite]
    OBVIOUS
  <2>2. /\ f \in [Tries -> FrmWrite]
        /\ \A k \in Tries : ~f[k].out /\ ~f[k].run
    BY <2>1, NothingTyped
  <2>3. PICK x : x = (mode # "new")
    OBVIOUS
  <2>4. x = ~fresh
    BY <1>7, <2>3
  <2>5. n = [accounts |-> TRUE, tx |-> x, save |-> f]
    BY <1>11, <2>1, <2>3 DEF FrmNetStart
  <2>6. QED
    BY <2>2, <2>4, <2>5 DEF FrmAnswers
<1>13. FrmPhase(p, n)
  <2>1. Len(p.rows) \in 1..MaxRows
    <3>1. p.rows = rows
      BY <1>8
    <3>2. 2 \in 1..MaxRows
      BY FrmAssumption
    <3>3. QED
      BY <1>6, <3>1, <3>2
  <2>2. (n.tx <=> p.loading) /\ (n.tx => p.sent = 0 /\ p.mode # "new")
    BY <1>7, <1>8, <1>12
  <2>3. QED
    BY <1>12, <2>1, <2>2 DEF FrmPhase
<1>14. p.mirror => p.mode = "new" /\ Mirrors(p.rows, p.hand)
  BY <1>6, <1>7, <1>8 DEF Mirrors
<1>15. Unsent(p, n, FrmBooks)
  <2>1. ~n.tx => zero = OwnSums("new")
    BY <1>1 DEF OwnSums
  <2>2. ~n.tx => p.mode = "new"
    BY <1>7, <1>8, <1>12
  <2>3. p.orig = zero /\ ~p.saved /\ ~p.known
    BY <1>8
  <2>4. QED
    BY <2>1, <2>2, <2>3 DEF Unsent
<1>16. p.sent = 0
  BY <1>8
<1>17. FrmGood(p, n, FrmBooks)
  BY <1>9, <1>12, <1>13, <1>14, <1>15, <1>16, BooksTyped DEF FrmGood
<1>18. QED
  BY <1>10, <1>11, <1>17 DEF FrmInv

LEMMA FrmStepKeeps == FrmInv /\ [FrmNext]_frmVars => FrmInv'
<1> SUFFICES ASSUME FrmInv, [FrmNext]_frmVars PROVE FrmInv'
  OBVIOUS
<1>1. CASE UNCHANGED frmVars
  BY <1>1 DEF frmVars, FrmInv
<1>2. CASE SubmitClick \/ CtrlEnter
  BY <1>2, SubmitKeeps DEF SubmitClick, CtrlEnter
<1>3. CASE AddRow \/ \E i \in 1..MaxRows : RemoveRow(i)
  BY <1>3, FormRowsKeep
<1>4. CASE \E i \in 1..MaxRows : \/ \E x \in Texts : TypeAmount(i, x)
                                 \/ \E a \in FrmAccount : PickAccount(i, a)
                                 \/ BlurAmount(i)
  BY <1>4, TypeKeeps, PickRowKeeps, BlurKeeps
<1>5. CASE \/ \E ok \in BOOLEAN : FrmAccountsAnswered(ok) \/ FrmLoaded(ok)
           \/ \E k \in Tries : SaveRuns(k) \/ SaveAnswered(k) \/ SaveFailed(k)
           \/ CloseForm
  BY <1>5, AccountsKeep, LoadedKeeps, RunsKeep, AnsweredKeeps, ShutFormKeeps
<1>6. QED
  BY <1>1, <1>2, <1>3, <1>4, <1>5 DEF FrmNext

LEMMA FormMirrored == FrmInv => FrmMirrored
<1> SUFFICES ASSUME FrmInv, frm.mirror PROVE FrmMirrored
  BY DEF FrmMirrored
<1>1. PICK rows \in Seq(FrmRow) : rows = frm.rows
  BY DEF FrmInv, FrmGood, FrmShape
<1>2. PICK h \in 0..2 : h = frm.hand /\ Mirrors(rows, h)
  BY <1>1 DEF FrmInv, FrmGood, Mirrors
<1>3. PICK x, y \in FrmText : x = rows[1].text /\ y = rows[2].text
  <2>1. rows[1] \in FrmRow /\ rows[2] \in FrmRow
    BY <1>2, Element DEF Mirrors
  <2>2. QED
    BY <2>1 DEF FrmRow
<1>4. ASSUME NEW u \in FrmText, NEW v \in FrmText, v = Opposite(u)
      PROVE  /\ IsNum(u.lead) <=> IsNum(v.lead)
             /\ IsNum(u.lead) => u.lead + v.lead = 0 /\ v.lead + u.lead = 0
  <2>1. CASE IsNum(u.lead)
    <3>1. PICK m \in Int : m = u.lead
      BY <2>1, NotNumber DEF FrmText
    <3>2. v.lead = -m /\ -m \in Int
      BY <1>4, <2>1, <3>1, PlainTyped DEF Opposite
    <3>3. QED
      BY <2>1, <3>1, <3>2, NotNumber
  <2>2. CASE ~IsNum(u.lead)
    BY <1>4, <2>2, BlankTyped, NotNumber DEF Opposite
  <2>3. QED
    BY <2>1, <2>2
<1>5. CASE h = 0
  BY <1>1, <1>2, <1>3, <1>5, BlankTyped, NotNumber DEF Mirrors, FrmMirrored
<1>6. CASE h = 1
  <2>1. y = Opposite(x)
    BY <1>2, <1>3, <1>6 DEF Mirrors
  <2>2. QED
    BY <1>1, <1>3, <1>4, <2>1 DEF FrmMirrored
<1>7. CASE h = 2
  <2>1. x = Opposite(y)
    BY <1>2, <1>3, <1>7 DEF Mirrors
  <2>2. QED
    BY <1>1, <1>3, <1>4, <2>1 DEF FrmMirrored
<1>8. QED
  BY <1>5, <1>6, <1>7

LEMMA FormProjected == FrmInv => FrmProjected
<1> SUFFICES ASSUME FrmInv, frm.saved, frm.calm
             PROVE  /\ frm.mode = "edit" => frm.rest = 0
                    /\ \A a \in FrmAccount :
                         IsNum(frm.shown[a]) =>
                           frmBook.bal[a] = frm.shown[a] - OfImbalance(frm.rest, a)
  BY DEF FrmProjected
<1>1. frm.sent # 0 /\ Sent(frm, frmNet, frmBook)
  BY DEF FrmInv, FrmGood, Unsent
<1>2. QED
  BY <1>1 DEF Sent

(* The picker's highlight. *)
Picks == [open : BOOLEAN, field : BOOLEAN, query : Query \cup {NoQuery}, hi : Int,
          known : BOOLEAN, picked : BOOLEAN]
PickInv ==
    /\ pick \in Picks
    /\ pick.hi >= -1 /\ (pick.hi > 0 => pick.hi < Shows(pick))

LEMMA FormTypes == FrmInv /\ PickInv => FrmTypeOK
<1> SUFFICES ASSUME FrmInv, PickInv PROVE FrmTypeOK
  OBVIOUS
<1>1. frm.rows \in Seq(FrmRow) /\ frm.orig \in FrmSums /\ frmBook.bal \in FrmSums
  BY DEF FrmInv, FrmGood, FrmShape, FrmServer
<1>2. ASSUME NEW i \in DOMAIN frm.rows
      PROVE  frm.rows[i].acct \in FrmAccount \cup {NoAcct}
  <2>1. frm.rows[i] \in FrmRow
    BY <1>1, <1>2, Element
  <2>2. QED
    BY <2>1 DEF FrmRow
<1>3. QED
  BY <1>1, <1>2 DEF FrmInv, FrmGood, FrmPhase, FrmSums, PickInv, FrmTypeOK
LEMMA PickStartKeeps == pick = PickStart => PickInv
BY DEF PickStart, PickInv, Picks

LEMMA PickShutKeeps ==
    ASSUME PickInv, NEW p, p = PickerShut(pick), NEW picked \in BOOLEAN,
           pick' = p \/ pick' = [p EXCEPT !.picked = picked]
    PROVE  PickInv'
<1>1. PICK m \in Int : m = IF NoQuery = pick.query THEN pick.hi ELSE 0
  BY DEF PickInv, Picks
<1>2. PICK q : q = [pick EXCEPT !.query = NoQuery, !.hi = m]
  OBVIOUS
<1>3. p = [q EXCEPT !.open = FALSE, !.field = FALSE]
  BY <1>1, <1>2 DEF PickerShut, Queried
<1>4. p \in Picks /\ p.query = NoQuery /\ p.known = pick.known /\ p.hi = m
  BY <1>1, <1>2, <1>3 DEF PickInv, Picks
<1>5. /\ pick' \in Picks /\ pick'.query = NoQuery /\ pick'.known = pick.known
      /\ pick'.hi = m
  <2>1. CASE pick' = p
    BY <1>4, <2>1
  <2>2. CASE pick' = [p EXCEPT !.picked = picked]
    BY <1>4, <2>2 DEF Picks
  <2>3. QED
    BY <2>1, <2>2
<1>6. pick'.hi > 0 => pick'.hi < Shows(pick')
  BY <1>1, <1>5 DEF PickInv, Shows
<1>7. QED
  BY <1>1, <1>5, <1>6 DEF PickInv

LEMMA PickStepKeeps == PickInv /\ [PickNext]_pick => PickInv'
<1> SUFFICES ASSUME PickInv, [PickNext]_pick PROVE PickInv'
  OBVIOUS
<1>1. pick \in Picks /\ pick.hi >= -1 /\ (pick.hi > 0 => pick.hi < Shows(pick))
  BY DEF PickInv
<1>2. PICK h \in Int : h = pick.hi
  BY <1>1 DEF Picks
<1>3. PICK n \in Nat : n = Shows(pick)
  BY <1>1, FrmAssumption DEF Shows, Picks
<1>4. CASE UNCHANGED pick
  BY <1>4 DEF PickInv, Shows
<1>5. CASE PickerAccounts
  <2>1. pick' \in Picks /\ pick'.hi = h
    BY <1>1, <1>2, <1>5 DEF PickerAccounts, Picks
  <2>2. n = 0
    BY <1>3, <1>5 DEF PickerAccounts, Shows
  <2>3. QED
    BY <1>1, <1>2, <1>3, <2>1, <2>2 DEF PickInv
<1>6. CASE PickerClick \/ PickerKeyOpens
  <2>1. pick' \in Picks /\ pick'.hi = h /\ pick'.known = pick.known /\ pick'.query = pick.query
    BY <1>1, <1>2, <1>6 DEF PickerClick, PickerKeyOpens, Picks
  <2>2. Shows(pick') = n
    BY <1>3, <2>1 DEF Shows
  <2>3. QED
    BY <1>1, <1>2, <1>3, <2>1, <2>2 DEF PickInv
<1>7. CASE PickerArrow \/ \E i \in 0..Hits[NoQuery] : PickerHover(i)
  <2>1. PICK m \in Int : pick' = [pick EXCEPT !.hi = m] /\ m >= -1 /\ (m > 0 => m < n)
    <3>1. CASE \E i \in 0..Hits[NoQuery] : PickerHover(i)
      BY <1>3, <3>1 DEF PickerHover
    <3>2. CASE PickerArrow
      <4>1. \A j \in Int : /\ j >= -1 => Down(pick, j) \in Int /\ Down(pick, j) >= -1
                           /\ j >= -1 => (Down(pick, j) > 0 => Down(pick, j) < n)
        BY <1>3 DEF Down, Least
      <4>2. \A j \in Int : /\ Up(pick, j) \in Int /\ Up(pick, j) >= -1
                           /\ (j > 0 => j < n) => (Up(pick, j) > 0 => Up(pick, j) < n)
        BY <1>3 DEF Up
      <4>3. PICK d, u : /\ d = IF pick.field THEN Down(pick, Down(pick, h)) ELSE Down(pick, h)
                        /\ u = IF pick.field THEN Up(pick, Up(pick, h)) ELSE Up(pick, h)
        OBVIOUS
      <4>4. d \in Int /\ d >= -1 /\ (d > 0 => d < n)
        BY <1>1, <1>2, <4>1, <4>3
      <4>5. u \in Int /\ u >= -1 /\ (u > 0 => u < n)
        BY <1>1, <1>2, <1>3, <4>2, <4>3
      <4>6. pick' = [pick EXCEPT !.hi = d] \/ pick' = [pick EXCEPT !.hi = u]
        BY <1>1, <1>2, <3>2, <4>3 DEF PickerArrow, Picks
      <4>7. QED
        BY <4>4, <4>5, <4>6
    <3>3. QED
      BY <1>7, <3>1, <3>2
  <2>2. pick' \in Picks /\ pick'.hi = m /\ pick'.known = pick.known /\ pick'.query = pick.query
    BY <1>1, <2>1 DEF Picks
  <2>3. Shows(pick') = n
    BY <1>3, <2>2 DEF Shows
  <2>4. QED
    BY <2>1, <2>2, <2>3 DEF PickInv
<1>8. CASE PickerTakes \/ PickerLeft
  <2>1. PICK p : p = PickerShut(pick)
    OBVIOUS
  <2>2. pick' = p \/ pick' = [p EXCEPT !.picked = TRUE]
    BY <1>8, <2>1 DEF PickerTakes, PickerLeft
  <2>3. QED
    BY <2>1, <2>2, PickShutKeeps
<1>9. ASSUME NEW q \in Query \cup {NoQuery}, PickerQuery(q)
      PROVE  PickInv'
  <2>1. PICK m \in Int : m = IF q = pick.query THEN h ELSE 0
    BY <1>2
  <2>2. pick' = [pick EXCEPT !.query = q, !.hi = m]
    BY <1>1, <1>2, <1>9, <2>1 DEF PickerQuery, Queried, Picks
  <2>3. pick' \in Picks /\ pick'.hi = m /\ pick'.known = pick.known /\ pick'.query = q
    BY <1>1, <1>9, <2>2 DEF Picks
  <2>4. m > 0 => Shows(pick') = n /\ m = h
    BY <1>3, <2>1, <2>3 DEF Shows
  <2>5. QED
    BY <1>1, <1>2, <1>3, <2>1, <2>3, <2>4 DEF PickInv
<1>10. QED
  BY <1>4, <1>5, <1>6, <1>7, <1>8, <1>9 DEF PickNext
=============================================================================
