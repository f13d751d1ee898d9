-------------------------- MODULE PlaidSyncProofs --------------------------
(***************************************************************************)
(* Invariance proofs for PlaidSync, for every number of requests, every    *)
(* feed and every bound.                                                   *)
(***************************************************************************)
EXTENDS PlaidSyncPromise, TLAPS

-----------------------------------------------------------------------------
(* Types.  A step of a Sync keeps its types because of where its program   *)
(* counter stands: behind the fetch there is a page after its cursor,      *)
(* under the cap there is room for one more page, and an entry in hand is  *)
(* an entry.                                                               *)

Bounded(t) ==
    /\ t.cur <= published
    /\ t.pc \in {"stage", "drop", "inherit", "upsert"} => t.cur < published
    /\ t.pc \in {"idle", "lock", "fetch"} => t.pages < MaxSyncPages
    /\ t.pc \in {"drop", "inherit", "upsert"} => t.ent \in Entry

SyncBounds == \A s \in Syncer : Bounded(sync[s])

ImportHolds ==
    \A i \in Importer :
        imp[i].pc # "idle" => imp[i].id \in Txn /\ imp[i].row \in Row

TypeInv == TypeOK /\ SyncBounds /\ ImportHolds

LEMMA FeedPages ==
    ASSUME NEW k \in Nat, k < Len(Feed)
    PROVE  /\ Feed[k + 1].updated \subseteq Entry
           /\ Feed[k + 1].removed \subseteq Txn
<1>1. Feed[k + 1] \in Page
  BY ConstantsAssumption
<1>2. QED
  BY <1>1 DEF Page

LEMMA RestingTypes ==
    /\ \A l \in {"idle", "suggest"} : Emptied(l) \in SyncState
    /\ NoSync \in SyncState
    /\ NoImport \in ImportState
<1>1. MaxSyncPages \in Nat /\ 0 \in 0..MaxSyncPages
  BY ConstantsAssumption
<1>2. ASSUME NEW l \in {"idle", "suggest"}
      PROVE  Emptied(l) \in SyncState
  BY <1>1 DEF Emptied, SyncState, NoEntry
<1>3. NoImport \in ImportState
  BY DEF NoImport, ImportState
<1>4. QED
  BY <1>2, <1>3 DEF NoSync

LEMMA WithoutType ==
    ASSUME TypeOK, NEW ids
    PROVE  Without(ids) \in [Txn -> Row \cup {NoRow}]
BY DEF TypeOK, Without

LEMMA UpsertedType ==
    ASSUME TypeOK, NEW e \in Entry, NEW d \in BOOLEAN
    PROVE  Upserted(e, d) \in [Txn -> Row \cup {NoRow}]
<1>1. Dismissed(e.id) \in BOOLEAN
  BY DEF TypeOK, Dismissed, Row, Entry
<1>2. [amt |-> e.amt, pend |-> e.pend, pending |-> e.pending,
       dismissed |-> Dismissed(e.id) \/ d] \in Row
  BY <1>1 DEF Entry, Row
<1>3. QED
  BY <1>2 DEF Upserted, TypeOK, Entry

LEMMA UpsertedRow ==
    ASSUME TypeOK, NEW e \in Entry, NEW d \in BOOLEAN
    PROVE  Upserted(e, d)[e.id] \in Row
<1>1. Dismissed(e.id) \in BOOLEAN
  BY DEF TypeOK, Dismissed, Row, Entry
<1>2. [amt |-> e.amt, pend |-> e.pend, pending |-> e.pending,
       dismissed |-> Dismissed(e.id) \/ d] \in Row
  BY <1>1 DEF Entry, Row
<1>3. QED
  BY <1>2 DEF Upserted, TypeOK, Entry

LEMMA RestingBounded ==
    ASSUME TypeOK, NEW l \in {"idle", "suggest"}
    PROVE  Bounded(Emptied(l))
BY ConstantsAssumption DEF Bounded, Emptied, TypeOK

(* What every step of a Sync has to establish about the Sync's own state.  *)
LEMMA SyncStepTypes ==
    ASSUME TypeInv, SyncFrame, NEW s \in Syncer,
           NEW t, t \in SyncState, Bounded(t), sync' = [sync EXCEPT ![s] = t],
           cursor' \in 0..published, furthest' \in cursor'..published,
           replayed' \subseteq 1..published, lock' \in Syncer \cup {NoSyncer},
           staged' \in [Txn -> Row \cup {NoRow}], faults' \in 0..MaxFaults
    PROVE  TypeInv'
<1>1. TypeOK'
  BY DEF TypeInv, TypeOK, SyncFrame, hist
<1>2. SyncBounds'
  BY DEF TypeInv, TypeOK, SyncBounds, Bounded, SyncFrame
<1>3. ImportHolds'
  BY DEF TypeInv, TypeOK, ImportHolds, SyncFrame
<1>4. QED
  BY <1>1, <1>2, <1>3 DEF TypeInv

LEMMA SyncStepKeepsTypes ==
    ASSUME TypeInv, NEW s \in Syncer, ReadItem(s) \/ SyncStep(s) \/ SyncFault(s)
    PROVE  TypeInv'
<1> USE DEF TypeInv
<1> DEFINE t == sync[s]
<1>0. /\ t \in SyncState /\ Bounded(t)
      /\ cursor \in 0..published /\ published \in 0..Len(Feed)
      /\ cursor \in Nat /\ published \in Nat /\ cursor <= published
      /\ furthest \in cursor..published /\ replayed \subseteq 1..published
      /\ lock \in Syncer \cup {NoSyncer}
      /\ staged \in [Txn -> Row \cup {NoRow}]
      /\ faults \in 0..MaxFaults
      /\ sync \in [Syncer -> SyncState]
      /\ MaxSyncPages \in Nat \ {0} /\ MaxFaults \in Nat /\ Len(Feed) \in Nat
  BY ConstantsAssumption DEF TypeOK, SyncBounds
<1>1. CASE ReadItem(s)
  <2> DEFINE u == [t EXCEPT !.pc = "lock", !.cur = cursor]
  <2>1. u \in SyncState /\ Bounded(u) /\ sync' = [sync EXCEPT ![s] = u]
    BY <1>0, <1>1 DEF ReadItem, SyncState, Bounded, Holding, Fetching
  <2>2. QED
    BY <2>1, <1>0, <1>1, SyncStepTypes DEF progress, ReadItem
<1>2. CASE TryLock(s)
  <2> DEFINE u == [t EXCEPT !.pc = "fetch"]
  <2>1. u \in SyncState /\ Bounded(u) /\ sync' = [sync EXCEPT ![s] = u]
    BY <1>0, <1>2 DEF TryLock, SyncState, Bounded, Holding, Fetching
  <2>2. QED
    BY <2>1, <1>0, <1>2, SyncStepTypes DEF progress, TryLock
<1>3. CASE SkipFetch(s)
  <2> DEFINE u == [t EXCEPT !.pc = "suggest"]
  <2>1. u \in SyncState /\ Bounded(u) /\ sync' = [sync EXCEPT ![s] = u]
    BY <1>0, <1>3 DEF SkipFetch, SyncState, Bounded, Holding, Fetching
  <2>2. QED
    BY <2>1, <1>0, <1>3, SyncStepTypes DEF progress, SkipFetch
<1>4. CASE FetchPage(s)
  <2> DEFINE u == [t EXCEPT !.pc = "stage", !.todo = Feed[t.cur + 1].updated,
                            !.more = t.cur + 1 < published, !.pages = @ + 1]
  <2>1. t.cur \in Nat /\ t.cur < Len(Feed)
    BY <1>0, <1>4 DEF FetchPage, SyncState
  <2>2. Feed[t.cur + 1].updated \subseteq Entry
    BY <2>1, FeedPages
  <2>3. u \in SyncState /\ Bounded(u) /\ sync' = [sync EXCEPT ![s] = u]
    BY <1>0, <1>4, <2>1, <2>2
    DEF FetchPage, SyncState, Bounded, Holding, Fetching
  <2>4. replayed' \subseteq 1..published
    BY <1>0, <1>4, <2>1 DEF FetchPage
  <2>5. QED
    BY <2>3, <2>4, <1>0, <1>4, SyncStepTypes DEF FetchPage
<1>5. CASE FetchNothing(s)
  <2> DEFINE u == [t EXCEPT !.pc = "persist"]
  <2>8. u \in SyncState /\ Bounded(u) /\ sync' = [sync EXCEPT ![s] = u]
    BY <1>0, <1>5
    DEF FetchNothing, SyncState, Bounded, Holding, Fetching
  <2>9. QED
    BY <2>8, <1>0, <1>5, SyncStepTypes DEF progress, FetchNothing
<1>6. CASE StageFresh(s)
  <2>1. PICK e \in t.todo : /\ staged' = Upserted(e, FALSE)
                            /\ sync' = [sync EXCEPT ![s].todo = @ \ {e}]
    BY <1>6 DEF StageFresh
  <2>2. e \in Entry /\ staged' \in [Txn -> Row \cup {NoRow}]
    BY <1>0, <2>1, UpsertedType DEF SyncState
  <2> DEFINE u == [t EXCEPT !.todo = t.todo \ {e}]
  <2>8. u \in SyncState /\ Bounded(u) /\ sync' = [sync EXCEPT ![s] = u]
    BY <1>0, <1>6, <2>1
    DEF StageFresh, SyncState, Bounded, Holding, Fetching
  <2>9. QED
    BY <2>8, <1>0, <1>6, <2>2, SyncStepTypes DEF progress, StageFresh
<1>7. CASE CheckPredecessor(s)
  <2>1. PICK e \in t.todo :
            sync' = [sync EXCEPT ![s].ent = e,
                                 ![s].pc = IF ValueMatches(e.pend, e.amt)
                                           THEN "drop" ELSE "inherit"]
    BY <1>7 DEF CheckPredecessor
  <2>2. e \in Entry
    BY <1>0, <2>1 DEF SyncState
  <2> DEFINE u == [t EXCEPT !.ent = e, !.pc = IF ValueMatches(e.pend, e.amt)
                                            THEN "drop" ELSE "inherit"]
  <2>8. u \in SyncState /\ Bounded(u) /\ sync' = [sync EXCEPT ![s] = u]
    BY <1>0, <1>7, <2>1, <2>2
    DEF CheckPredecessor, SyncState, Bounded, Holding, Fetching
  <2>9. QED
    BY <2>8, <1>0, <1>7, SyncStepTypes DEF progress, CheckPredecessor
<1>8. CASE DropReplaced(s)
  <2>1. staged' \in [Txn -> Row \cup {NoRow}]
    BY <1>8, WithoutType DEF DropReplaced
  <2> DEFINE u == [t EXCEPT !.pc = "stage", !.todo = @ \ {t.ent}, !.ent = NoEntry,
                            !.inherit = FALSE]
  <2>8. u \in SyncState /\ Bounded(u) /\ sync' = [sync EXCEPT ![s] = u]
    BY <1>0, <1>8
    DEF DropReplaced, Treated, SyncState, Bounded, Holding, Fetching
  <2>9. QED
    BY <2>8, <1>0, <1>8, <2>1, SyncStepTypes DEF progress, DropReplaced
<1>9. CASE ReadDismissed(s)
  <2>1. Dismissed(t.ent.pend) \in BOOLEAN
    BY DEF Dismissed
  <2> DEFINE u == [t EXCEPT !.pc = "upsert", !.inherit = Dismissed(t.ent.pend)]
  <2>8. u \in SyncState /\ Bounded(u) /\ sync' = [sync EXCEPT ![s] = u]
    BY <1>0, <1>9, <2>1
    DEF ReadDismissed, SyncState, Bounded, Holding, Fetching
  <2>9. QED
    BY <2>8, <1>0, <1>9, SyncStepTypes DEF progress, ReadDismissed
<1>10. CASE StageSuccessor(s)
  <2>1. t.ent \in Entry /\ t.inherit \in BOOLEAN
    BY <1>0, <1>10 DEF StageSuccessor, Bounded, SyncState
  <2>2. staged' \in [Txn -> Row \cup {NoRow}]
    BY <2>1, <1>10, UpsertedType DEF StageSuccessor
  <2> DEFINE u == [t EXCEPT !.pc = "stage", !.todo = @ \ {t.ent}, !.ent = NoEntry,
                            !.inherit = FALSE]
  <2>8. u \in SyncState /\ Bounded(u) /\ sync' = [sync EXCEPT ![s] = u]
    BY <1>0, <1>10
    DEF StageSuccessor, Treated, SyncState, Bounded, Holding, Fetching
  <2>9. QED
    BY <2>8, <1>0, <1>10, <2>2, SyncStepTypes DEF progress, StageSuccessor
<1>11. CASE DropZeroed(s)
  <2>1. PICK e \in t.todo : /\ staged' = WithoutUndismissed({e.id, e.pend})
                            /\ sync' = [sync EXCEPT ![s].todo = @ \ {e}]
    BY <1>11 DEF DropZeroed
  <2>2. staged' \in [Txn -> Row \cup {NoRow}]
    BY <2>1, WithoutType DEF WithoutUndismissed
  <2> DEFINE u == [t EXCEPT !.todo = t.todo \ {e}]
  <2>8. u \in SyncState /\ Bounded(u) /\ sync' = [sync EXCEPT ![s] = u]
    BY <1>0, <1>11, <2>1
    DEF DropZeroed, SyncState, Bounded, Holding, Fetching
  <2>9. QED
    BY <2>8, <1>0, <1>11, <2>2, SyncStepTypes DEF progress, DropZeroed
<1>12. CASE ApplyRemoved(s)
  <2>1. staged' \in [Txn -> Row \cup {NoRow}]
    BY <1>12, WithoutType DEF ApplyRemoved, WithoutUndismissed
  <2> DEFINE u == [t EXCEPT !.cur = @ + 1,
                            !.pc = IF t.more /\ UnderCap(s)
                                   THEN "fetch" ELSE "persist"]
  <2>8. u \in SyncState /\ Bounded(u) /\ sync' = [sync EXCEPT ![s] = u]
    BY <1>0, <1>12
    DEF ApplyRemoved, UnderCap, SyncState, Bounded, Holding, Fetching
  <2>9. QED
    BY <2>8, <1>0, <1>12, <2>1, SyncStepTypes DEF progress, ApplyRemoved
<1>13. CASE PersistCursor(s)
  <2>1. cursor' \in 0..published /\ furthest' \in cursor'..published
    BY <1>0, <1>13 DEF PersistCursor, NextCursor, Bounded, SyncState
  <2> DEFINE u == [t EXCEPT !.pc = "unlock"]
  <2>8. u \in SyncState /\ Bounded(u) /\ sync' = [sync EXCEPT ![s] = u]
    BY <1>0, <1>13
    DEF PersistCursor, SyncState, Bounded, Holding, Fetching
  <2>9. QED
    BY <2>8, <1>0, <1>13, <2>1, SyncStepTypes DEF PersistCursor
<1>14. CASE Unlock(s)
  <2> DEFINE l == IF t.pc = "unlock" THEN "suggest" ELSE "idle"
             u == Emptied(l)
  <2>1. u \in SyncState /\ Bounded(u)
    BY RestingTypes, RestingBounded
  <2>2. sync' = [sync EXCEPT ![s] = u]
    BY <1>14 DEF Unlock
  <2>3. QED
    BY <2>1, <2>2, <1>0, <1>14, SyncStepTypes DEF progress, Unlock
<1>15. CASE ServeSuggestions(s)
  <2>1. NoSync \in SyncState /\ Bounded(NoSync)
    BY RestingTypes, RestingBounded DEF NoSync
  <2>2. TypeOK'
    BY <1>15, <2>1 DEF ServeSuggestions, TypeOK, hist, bounds, progress
  <2>3. SyncBounds'
    BY <1>0, <1>15, <2>1 DEF ServeSuggestions, SyncBounds, Bounded
  <2>4. ImportHolds'
    BY <1>15 DEF ServeSuggestions, ImportHolds
  <2>5. QED
    BY <2>2, <2>3, <2>4
<1>16. CASE SyncFault(s)
  <2> DEFINE u == AfterFault(s)
  <2>1. NoSync \in SyncState /\ Bounded(NoSync) /\ faults' \in 0..MaxFaults
    BY <1>0, <1>16, RestingTypes, RestingBounded DEF SyncFault, NoSync
  <2>2. [t EXCEPT !.pc = "fail"] \in SyncState /\ Bounded([t EXCEPT !.pc = "fail"])
    BY <1>0 DEF SyncState, Bounded, Holding, Fetching
  <2>3. u \in SyncState /\ Bounded(u)
    BY <2>1, <2>2 DEF AfterFault
  <2>4. sync' = [sync EXCEPT ![s] = u]
    BY <1>16 DEF SyncFault
  <2>5. QED
    BY <2>1, <2>3, <2>4, <1>0, <1>16, SyncStepTypes DEF progress, SyncFault
<1>17. QED
  BY <1>1, <1>2, <1>3, <1>4, <1>5, <1>6, <1>7, <1>8, <1>9, <1>10, <1>11,
     <1>12, <1>13, <1>14, <1>15, <1>16 DEF SyncStep

LEMMA ImportStepKeepsTypes ==
    ASSUME TypeInv, NEW i \in Importer, ReadStaged(i) \/ ImportStep(i)
    PROVE  TypeInv'
<1> USE DEF TypeInv
<1>0. /\ imp[i] \in ImportState /\ NoImport \in ImportState
      /\ imp \in [Importer -> ImportState] /\ imp[i].id \in Txn \cup {NoTxn}
      /\ staged \in [Txn -> Row \cup {NoRow}]
      /\ book \in [Txn -> Seq(Amount)] /\ shown \subseteq Txn
      /\ faults \in 0..MaxFaults /\ MaxFaults \in Nat
  BY RestingTypes, ConstantsAssumption DEF TypeOK, ImportState
<1>1. imp' \in [Importer -> ImportState] /\ ImportHolds'
  <2>1. \E u \in ImportState : /\ imp' = [imp EXCEPT ![i] = u]
                               /\ u.pc # "idle" => u.id \in Txn /\ u.row \in Row
    <3>1. CASE ReadStaged(i)
      <4>1. PICK id \in shown : /\ staged[id] # NoRow
                                /\ imp' = [imp EXCEPT ![i] =
                                     [pc |-> "dedupe", id |-> id,
                                      row |-> staged[id]]]
        BY <3>1 DEF ReadStaged
      <4>2. id \in Txn /\ staged[id] \in Row
        BY <4>1, <1>0
      <4>3. [pc |-> "dedupe", id |-> id, row |-> staged[id]] \in ImportState
        BY <4>2 DEF ImportState
      <4>4. QED
        BY <4>1, <4>2, <4>3
    <3>2. CASE SkipImported(i) \/ FailRow(i) \/ DeleteStaged(i)
               \/ DeleteStagedFails(i)
      BY <3>2, <1>0 DEF SkipImported, FailRow, DeleteStaged, DeleteStagedFails,
                        NoImport
    <3>3. ASSUME imp[i].pc # "idle",
                 NEW l \in {"create", "pending", "cleanup"},
                 imp' = [imp EXCEPT ![i].pc = l]
          PROVE  \E u \in ImportState :
                     /\ imp' = [imp EXCEPT ![i] = u]
                     /\ u.pc # "idle" => u.id \in Txn /\ u.row \in Row
      <4> DEFINE u == [imp[i] EXCEPT !.pc = l]
      <4>1. u \in ImportState /\ imp' = [imp EXCEPT ![i] = u]
        BY <3>3, <1>0 DEF ImportState
      <4>2. u.id = imp[i].id /\ u.row = imp[i].row
        BY <1>0 DEF ImportState
      <4>3. QED
        BY <4>1, <4>2, <3>3 DEF ImportHolds
    <3>4. CASE PassDedupe(i) \/ CheckPending(i) \/ CreateTransaction(i)
               \/ DuplicateViolation(i)
      BY <3>3, <3>4 DEF PassDedupe, CheckPending, CreateTransaction,
                        DuplicateViolation
    <3>5. QED
      BY <3>1, <3>2, <3>4 DEF ImportStep
  <2>2. QED
    BY <2>1, <1>0 DEF ImportHolds
<1>2. staged' \in [Txn -> Row \cup {NoRow}] /\ faults' \in 0..MaxFaults
  BY <1>0, WithoutType
  DEF ReadStaged, ImportStep, SkipImported, PassDedupe, CheckPending,
      CreateTransaction, DuplicateViolation, FailRow, DeleteStaged,
      DeleteStagedFails
<1>3. book' \in [Txn -> Seq(Amount)] /\ everBooked' \subseteq Txn
  <2>1. CASE CreateTransaction(i)
    <3>1. imp[i].id \in Txn /\ imp[i].row.amt \in Amount
      BY <2>1 DEF CreateTransaction, ImportHolds, Row
    <3>2. Append(book[imp[i].id], imp[i].row.amt) \in Seq(Amount)
      BY <3>1, <1>0
    <3>3. QED
      BY <3>1, <3>2, <2>1, <1>0 DEF CreateTransaction, TypeOK
  <2>2. CASE UNCHANGED <<book, everBooked>>
    BY <2>2 DEF TypeOK
  <2>3. QED
    BY <2>1, <2>2
    DEF ReadStaged, ImportStep, SkipImported, PassDedupe, CheckPending,
        DuplicateViolation, FailRow, DeleteStaged, DeleteStagedFails
<1>4. UNCHANGED <<published, progress, lock, sync, shown, everDismissed, edits>>
  BY DEF ReadStaged, ImportStep, SkipImported, PassDedupe, CheckPending,
         CreateTransaction, DuplicateViolation, FailRow, DeleteStaged,
         DeleteStagedFails, ImportFrame
<1>5. TypeOK' /\ SyncBounds'
  BY <1>1, <1>2, <1>3, <1>4 DEF TypeOK, SyncBounds, Bounded, progress
<1>6. QED
  BY <1>1, <1>5

LEMMA OtherStepKeepsTypes ==
    ASSUME TypeInv, Publish \/ (\E id \in Txn : UserStep(id)) \/ Crash
    PROVE  TypeInv'
<1> USE DEF TypeInv
<1>1. CASE Publish
  <2>1. published' \in 0..Len(Feed) /\ published <= published'
        /\ published \in Nat /\ published' \in Nat
    BY <1>1, ConstantsAssumption DEF Publish, TypeOK
  <2>2. TypeOK'
    BY <1>1, <2>1 DEF Publish, TypeOK, hist, bounds, progress
  <2>3. SyncBounds'
    BY <1>1, <2>1 DEF Publish, TypeOK, SyncBounds, Bounded, SyncState
  <2>4. ImportHolds'
    BY <1>1 DEF Publish, ImportHolds
  <2>5. QED
    BY <2>2, <2>3, <2>4
<1>2. ASSUME NEW id \in Txn, Dismiss(id)
      PROVE  TypeInv'
  <2>1. staged[id] \in Row
    BY <1>2 DEF Dismiss, TypeOK
  <2>2. staged' \in [Txn -> Row \cup {NoRow}]
    BY <1>2, <2>1 DEF Dismiss, TypeOK, Row
  <2>3. QED
    BY <1>2, <2>2 DEF Dismiss, TypeOK, SyncBounds, Bounded, ImportHolds, bounds,
                      progress
<1>3. ASSUME NEW id \in Txn, NEW as \in Seq(Amount), EditBook(id, as)
      PROVE  TypeInv'
  <2>1. edits' \in 0..MaxBookEdits
    BY <1>3, ConstantsAssumption DEF EditBook, TypeOK
  <2>2. QED
    BY <1>3, <2>1 DEF EditBook, TypeOK, SyncBounds, Bounded, ImportHolds, hist,
                      progress
<1>4. CASE Crash
  <2>1. NoSync \in SyncState /\ Bounded(NoSync) /\ NoImport \in ImportState
    BY RestingTypes, RestingBounded DEF NoSync
  <2>2. faults' \in 0..MaxFaults
    BY <1>4, ConstantsAssumption DEF Crash, TypeOK
  <2>3. TypeOK'
    BY <1>4, <2>1, <2>2 DEF Crash, TypeOK, hist, progress
  <2>4. SyncBounds'
    BY <1>4, <2>1 DEF Crash, SyncBounds, Bounded
  <2>5. ImportHolds'
    BY <1>4 DEF Crash, ImportHolds, NoImport
  <2>6. QED
    BY <2>3, <2>4, <2>5
<1>5. <<>> \in Seq(Amount) /\ \A a \in Amount : <<a>> \in Seq(Amount)
  OBVIOUS
<1>6. QED
  BY <1>1, <1>2, <1>3, <1>4, <1>5 DEF UserStep

LEMMA InitTypes == Init => TypeInv
<1>1. /\ 0 \in 0..Len(Feed) /\ 0 \in 0..0 /\ 0 < MaxSyncPages
      /\ 0 \in 0..MaxFaults /\ 0 \in 0..MaxBookEdits
      /\ <<>> \in Seq(Amount)
  BY ConstantsAssumption
<1>2. Init => TypeOK
  BY <1>1, RestingTypes DEF Init, TypeOK
<1>3. Init => SyncBounds /\ ImportHolds
  BY <1>1 DEF Init, SyncBounds, Bounded, ImportHolds, NoSync, Emptied, NoImport
<1>4. QED
  BY <1>2, <1>3 DEF TypeInv

LEMMA StepTypes == TypeInv /\ [Next]_vars => TypeInv'
<1>1. ASSUME TypeInv, UNCHANGED vars
      PROVE  TypeInv'
  BY <1>1 DEF TypeInv, TypeOK, SyncBounds, Bounded, ImportHolds, vars, hist, bounds, progress
<1>2. QED
  BY <1>1, SyncStepKeepsTypes, ImportStepKeepsTypes, OtherStepKeepsTypes DEF Next

(* The state keeps its types in every run: what a request holds between    *)
(* its statements fits, whatever the others did in between.                *)
THEOREM TypeCorrect == Spec => []TypeOK
<1>1. TypeInv => TypeOK
  BY DEF TypeInv
<1>2. QED
  BY InitTypes, StepTypes, <1>1, PTL DEF Spec

LEMMA TypesAlways == Spec => []TypeInv
BY InitTypes, StepTypes, PTL DEF Spec
-----------------------------------------------------------------------------
(* The advisory lock.                                                      *)

LEMMA SyncStepKeepsLock ==
    ASSUME TypeOK, SingleFetcher, NEW s \in Syncer,
           ReadItem(s) \/ SyncStep(s) \/ SyncFault(s)
    PROVE  SingleFetcher'
<1>1. NoSyncer \notin Syncer /\ sync \in [Syncer -> SyncState]
  BY SentinelAssumption DEF TypeOK
<1>2. CASE TryLock(s)
  <2>1. \A r \in Syncer : sync[r].pc \notin Holding
    BY <1>1, <1>2 DEF TryLock, LockFree, SingleFetcher
  <2>2. \A r \in Syncer \ {s} : sync'[r] = sync[r]
    BY <1>1, <1>2 DEF TryLock
  <2>3. QED
    BY <1>2, <2>1, <2>2 DEF TryLock, SingleFetcher
<1>3. CASE Unlock(s)
  <2>1. \A r \in Syncer \ {s} : sync[r].pc \notin Holding /\ sync'[r] = sync[r]
    BY <1>1, <1>3 DEF Unlock, SingleFetcher, Holding, Fetching
  <2>2. sync'[s].pc \in {"suggest", "idle"}
    BY <1>1, <1>3 DEF Unlock, Emptied
  <2>3. QED
    BY <2>1, <2>2 DEF SingleFetcher, Holding, Fetching
<1>4. ASSUME lock' = lock, \A r \in Syncer \ {s} : sync'[r] = sync[r],
             sync'[s].pc \in Holding => sync[s].pc \in Holding
      PROVE  SingleFetcher'
  BY <1>4 DEF SingleFetcher
<1>5. CASE ReadItem(s) \/ SkipFetch(s) \/ ServeSuggestions(s)
  <2>1. sync'[s].pc \in {"lock", "suggest", "idle"}
    BY <1>1, <1>5 DEF ReadItem, SkipFetch, ServeSuggestions, NoSync, Emptied,
                      SyncState
  <2>2. sync'[s].pc \notin Holding
    BY <2>1 DEF Holding, Fetching
  <2>3. QED
    BY <1>1, <1>4, <1>5, <2>2 DEF ReadItem, SkipFetch, ServeSuggestions
<1>6. CASE \/ FetchPage(s) \/ FetchNothing(s) \/ StageFresh(s)
           \/ CheckPredecessor(s) \/ DropReplaced(s) \/ ReadDismissed(s)
           \/ StageSuccessor(s) \/ DropZeroed(s) \/ ApplyRemoved(s)
           \/ PersistCursor(s)
  <2>1. sync[s].pc \in Holding
    BY <1>6 DEF FetchPage, FetchNothing, StageFresh, CheckPredecessor,
                DropReplaced, ReadDismissed, StageSuccessor, DropZeroed,
                ApplyRemoved, PersistCursor, Holding, Fetching
  <2>2. lock' = lock /\ \A r \in Syncer \ {s} : sync'[r] = sync[r]
    BY <1>1, <1>6 DEF FetchPage, FetchNothing, StageFresh, CheckPredecessor,
                      DropReplaced, ReadDismissed, StageSuccessor, DropZeroed,
                      ApplyRemoved, PersistCursor, Treated
  <2>3. QED
    BY <1>4, <2>1, <2>2
<1>7. CASE SyncFault(s)
  <2>1. lock' = lock /\ \A r \in Syncer \ {s} : sync'[r] = sync[r]
    BY <1>1, <1>7 DEF SyncFault
  <2>2. sync'[s].pc \in Holding => sync[s].pc \in Holding
    BY <1>1, <1>7 DEF SyncFault, AfterFault, NoSync, Emptied, Holding, Fetching
  <2>3. QED
    BY <1>4, <2>1, <2>2
<1>8. QED
  BY <1>2, <1>3, <1>5, <1>6, <1>7 DEF SyncStep

(* Between the lock and its deferred unlock no other Sync of the item      *)
(* fetches, stages or persists, on error paths and across restarts too.    *)
THEOREM LockProtects == Spec => []SingleFetcher
<1>1. Init => SingleFetcher
  BY DEF Init, SingleFetcher, NoSync, Emptied, Holding, Fetching
<1>2. ASSUME TypeInv, SingleFetcher, [Next]_vars
      PROVE  SingleFetcher'
  <2>1. ASSUME NEW s \in Syncer, ReadItem(s) \/ SyncStep(s) \/ SyncFault(s)
        PROVE  SingleFetcher'
    BY <1>2, <2>1, SyncStepKeepsLock DEF TypeInv
  <2>2. ASSUME NEW i \in Importer, ReadStaged(i) \/ ImportStep(i)
        PROVE  UNCHANGED <<lock, sync>>
    BY <2>2 DEF ReadStaged, ImportStep, SkipImported, PassDedupe, CheckPending,
                CreateTransaction, DuplicateViolation, FailRow, DeleteStaged,
                DeleteStagedFails, ImportFrame
  <2>3. ASSUME Publish \/ (\E id \in Txn : UserStep(id)) \/ UNCHANGED vars
        PROVE  UNCHANGED <<lock, sync>>
    BY <2>3 DEF Publish, UserStep, Dismiss, EditBook, vars
  <2>4. CASE Crash
    BY <2>4 DEF Crash, SingleFetcher, NoSync, Emptied, Holding, Fetching
  <2>5. UNCHANGED <<lock, sync>> => SingleFetcher'
    BY <1>2 DEF SingleFetcher
  <2>6. QED
    BY <1>2, <2>1, <2>2, <2>3, <2>4, <2>5 DEF Next
<1>3. QED
  BY <1>1, <1>2, TypesAlways, PTL DEF Spec
-----------------------------------------------------------------------------
(* The partial unique index.                                               *)

(* Racing imports of one bank transaction leave one ledger transaction.    *)
THEOREM ImportsOnce == Spec => []ImportedOnce
<1>1. Init => ImportedOnce
  <2>1. Len(<<>>) <= 1
    OBVIOUS
  <2>2. QED
    BY <2>1 DEF Init, ImportedOnce
<1>2. ASSUME TypeInv, ImportedOnce, [Next]_vars
      PROVE  ImportedOnce'
  <2>1. book \in [Txn -> Seq(Amount)]
    BY <1>2 DEF TypeInv, TypeOK
  <2>2. ASSUME NEW i \in Importer, CreateTransaction(i)
        PROVE  ImportedOnce'
    <3>1. imp[i].id \in Txn /\ book[imp[i].id] = <<>> /\ imp[i].row.amt \in Amount
      BY <1>2, <2>2 DEF CreateTransaction, IndexAllows, Imported, TypeInv,
                        ImportHolds, Row
    <3>2. Len(Append(book[imp[i].id], imp[i].row.amt)) = 1
      BY <3>1
    <3>3. QED
      BY <1>2, <2>1, <2>2, <3>1, <3>2 DEF CreateTransaction, ImportedOnce
  <2>3. ASSUME NEW id \in Txn, NEW as, Len(as) <= 1, EditBook(id, as)
        PROVE  ImportedOnce'
    BY <1>2, <2>1, <2>3 DEF EditBook, ImportedOnce
  <2>4. ASSUME NEW id \in Txn, UserStep(id), book' # book
        PROVE  \E as : Len(as) <= 1 /\ EditBook(id, as)
    <3>1. Len(<<>>) <= 1 /\ \A a \in Amount : Len(<<a>>) <= 1
      OBVIOUS
    <3>2. ~Dismiss(id)
      BY <2>4 DEF Dismiss
    <3>3. QED
      BY <2>4, <3>1, <3>2 DEF UserStep
  <2>5. book' = book \/ (\E i \in Importer : CreateTransaction(i))
                    \/ (\E id \in Txn : UserStep(id))
    BY <1>2 DEF Next, vars, Publish, Crash, ReadItem, SyncStep, SyncFault, TryLock,
                SkipFetch, FetchPage, FetchNothing, StageFresh, CheckPredecessor,
                DropReplaced, ReadDismissed, StageSuccessor, DropZeroed,
                ApplyRemoved, PersistCursor, Unlock, ServeSuggestions, SyncFrame,
                ReadStaged, ImportStep, SkipImported, PassDedupe, CheckPending,
                DuplicateViolation, FailRow, DeleteStaged, DeleteStagedFails
  <2>6. QED
    BY <1>2, <2>2, <2>3, <2>4, <2>5 DEF ImportedOnce
<1>3. QED
  BY <1>1, <1>2, TypesAlways, PTL DEF Spec
-----------------------------------------------------------------------------
(* Where rows come from, and why they go.  Every staged row and every row  *)
(* an import has read carries an entry the bank published with an amount,  *)
(* and what a Sync has in hand is of the page behind its cursor.  Hence a  *)
(* staged row goes for two reasons only: it is settled by an import, or    *)
(* the page a Sync applies takes it back.                                  *)

Staging  == {"stage", "drop", "inherit", "upsert"}
Handling == {"drop", "inherit", "upsert"}

FromBank(id, row) ==
    \E e \in Published : /\ e.id = id /\ e.amt = row.amt /\ e.amt # 0
                         /\ e.pend = row.pend /\ e.pending = row.pending

SourcedRows == \A id \in Txn : staged[id] # NoRow => FromBank(id, staged[id])

SourcedImports ==
    \A i \in Importer : imp[i].pc # "idle" => FromBank(imp[i].id, imp[i].row)

PageInHand(t) ==
    /\ t.pc \in Staging => t.todo \subseteq Feed[t.cur + 1].updated
    /\ t.pc \in Handling => t.ent \in t.todo /\ t.ent.amt # 0 /\ t.ent.pend \in Txn
    /\ t.pc = "drop" => t.ent.pend \in everBooked

PagesInHand == \A s \in Syncer : PageInHand(sync[s])

BookedEver == \A id \in Txn : Imported(id) => id \in everBooked

ImportFound(i) ==
    /\ imp[i].pc = "pending" => imp[i].row.pend # NoTxn
    /\ imp[i].pc = "cleanup" => SettledByImport(imp[i].id)

ImportsFound == \A i \in Importer : ImportFound(i)

SourceInv ==
    SourcedRows /\ SourcedImports /\ PagesInHand /\ BookedEver /\ ImportsFound

LEMMA HistoryGrows ==
    ASSUME TypeInv, [Next]_vars
    PROVE  /\ Published \subseteq Published'
           /\ published \in Nat /\ published' \in Nat /\ published <= published'
           /\ everBooked \subseteq everBooked'
           /\ everDismissed \subseteq everDismissed'
<1>0. published \in Nat
  BY ConstantsAssumption DEF TypeInv, TypeOK
<1>1. published' = published \/ published' = published + 1
  BY DEF Next, vars, Publish, Crash, ReadItem, SyncStep, SyncFault,
         TryLock, SkipFetch, FetchPage, FetchNothing, StageFresh, CheckPredecessor,
         DropReplaced, ReadDismissed, StageSuccessor, DropZeroed, ApplyRemoved,
         PersistCursor, Unlock, ServeSuggestions, SyncFrame, ReadStaged, ImportStep,
         SkipImported, PassDedupe, CheckPending, CreateTransaction,
         DuplicateViolation, FailRow, DeleteStaged, DeleteStagedFails, ImportFrame,
         UserStep, Dismiss, EditBook
<1>2. everBooked \subseteq everBooked' /\ everDismissed \subseteq everDismissed'
  BY DEF Next, vars, hist, Publish, Crash, ReadItem, SyncStep, SyncFault,
         TryLock, SkipFetch, FetchPage, FetchNothing, StageFresh, CheckPredecessor,
         DropReplaced, ReadDismissed, StageSuccessor, DropZeroed, ApplyRemoved,
         PersistCursor, Unlock, ServeSuggestions, SyncFrame, ReadStaged, ImportStep,
         SkipImported, PassDedupe, CheckPending, CreateTransaction,
         DuplicateViolation, FailRow, DeleteStaged, DeleteStagedFails, ImportFrame,
         UserStep, Dismiss, EditBook
<1>3. 1..published \subseteq 1..published'
  BY <1>0, <1>1
<1>4. QED
  BY <1>0, <1>1, <1>2, <1>3 DEF Published

LEMMA SourcesStay ==
    ASSUME Published \subseteq Published', everBooked \subseteq everBooked',
           NEW id
    PROVE  /\ SettledByImport(id) => SettledByImport(id)'
           /\ \A row : FromBank(id, row) =>
                \E e \in Published' : /\ e.id = id /\ e.amt = row.amt /\ e.amt # 0
                                      /\ e.pend = row.pend
                                      /\ e.pending = row.pending
<1>1. Predecessors(id) \subseteq Predecessors(id)'
  BY DEF Predecessors
<1>2. SettledByImport(id) => SettledByImport(id)'
  BY <1>1 DEF SettledByImport
<1>3. QED
  BY <1>2 DEF FromBank

(* The page a Sync is staging is published. *)
LEMMA PagePublished ==
    ASSUME TypeInv, NEW s \in Syncer, sync[s].pc \in Staging
    PROVE  /\ sync[s].cur \in Nat /\ sync[s].cur < published
           /\ sync[s].cur + 1 \in 1..published /\ published \in Nat
           /\ Feed[sync[s].cur + 1].updated \subseteq Published
           /\ Feed[sync[s].cur + 1].updated \subseteq Entry
           /\ Feed[sync[s].cur + 1].removed \subseteq Txn
<1>1. sync[s].cur \in Nat /\ published \in 0..Len(Feed) /\ sync[s].cur < published
  BY DEF TypeInv, TypeOK, SyncBounds, Bounded, SyncState, Staging
<1>2. Len(Feed) \in Nat
  BY ConstantsAssumption
<1>3. sync[s].cur < Len(Feed) /\ sync[s].cur + 1 \in 1..published /\ published \in Nat
  BY <1>1, <1>2
<1>4. QED
  BY <1>1, <1>3, FeedPages DEF Published

(* The four ways a step changes the staged rows. *)
Restaged ==
    \E e \in Published \cap Entry, d \in BOOLEAN :
        e.amt # 0 /\ staged' = Upserted(e, d)

Cleaned ==
    \E ids : /\ staged' = Without(ids)
             /\ \A id \in ids \cap Txn : SettledByImport(id)

TakenBack(s) ==
    /\ sync[s].pc = "stage"
    /\ \E ids : /\ staged' = WithoutUndismissed(ids)
                /\ \A id \in ids \cap Txn : Retracted(sync[s].cur + 1, id)

Flagged ==
    \E id \in Txn : /\ staged[id] # NoRow
                    /\ staged' = [staged EXCEPT ![id].dismissed = TRUE]

LEMMA SyncChangesRows ==
    ASSUME TypeInv, SourceInv, NEW s \in Syncer,
           ReadItem(s) \/ SyncStep(s) \/ SyncFault(s)
    PROVE  staged' = staged \/ Restaged \/ Cleaned \/ TakenBack(s)
<1> DEFINE t == sync[s]
<1>0. PageInHand(t)
  BY DEF SourceInv, PagesInHand
<1>1. CASE StageFresh(s)
  <2>1. t.pc \in Staging
    BY <1>1 DEF StageFresh, Staging
  <2>2. PICK e \in t.todo : e.amt # 0 /\ staged' = Upserted(e, FALSE)
    BY <1>1 DEF StageFresh
  <2>3. e \in Published \cap Entry
    BY <1>0, <2>1, <2>2, PagePublished DEF PageInHand
  <2>4. QED
    BY <2>2, <2>3 DEF Restaged
<1>2. CASE DropReplaced(s)
  <2>1. t.pc \in Staging /\ t.ent \in t.todo /\ t.ent.pend \in everBooked
        /\ t.ent.pend \in Txn
    BY <1>0, <1>2 DEF DropReplaced, PageInHand, Staging, Handling
  <2>2. t.ent \in Published /\ t.ent \in Entry
    BY <1>0, <2>1, PagePublished DEF PageInHand
  <2>3. t.ent.pend \in Predecessors(t.ent.id)
    BY <2>1, <2>2, SentinelAssumption DEF Predecessors
  <2>4. SettledByImport(t.ent.id) /\ SettledByImport(t.ent.pend)
    BY <2>1, <2>3 DEF SettledByImport
  <2>5. staged' = Without({t.ent.id, t.ent.pend})
    BY <1>2 DEF DropReplaced
  <2>6. QED
    BY <2>4, <2>5 DEF Cleaned
<1>3. CASE StageSuccessor(s)
  <2>1. t.pc \in Staging /\ t.ent \in t.todo /\ t.ent.amt # 0
    BY <1>0, <1>3 DEF StageSuccessor, PageInHand, Staging, Handling
  <2>2. t.ent \in Published \cap Entry
    BY <1>0, <2>1, PagePublished DEF PageInHand
  <2>3. t.inherit \in BOOLEAN
    BY DEF TypeInv, TypeOK, SyncState
  <2>4. staged' = Upserted(t.ent, t.inherit)
    BY <1>3 DEF StageSuccessor
  <2>5. QED
    BY <2>1, <2>2, <2>3, <2>4 DEF Restaged
<1>4. CASE DropZeroed(s)
  <2>1. t.pc = "stage" /\ t.pc \in Staging
    BY <1>4 DEF DropZeroed, Staging
  <2>2. PICK e \in t.todo : e.amt = 0 /\ staged' = WithoutUndismissed({e.id, e.pend})
    BY <1>4 DEF DropZeroed
  <2>3. e \in Feed[t.cur + 1].updated
    BY <1>0, <2>1, <2>2 DEF PageInHand
  <2>4. \A id \in {e.id, e.pend} \cap Txn : Retracted(t.cur + 1, id)
    BY <2>2, <2>3 DEF Retracted
  <2>5. QED
    BY <2>1, <2>2, <2>4 DEF TakenBack
<1>5. CASE ApplyRemoved(s)
  <2>1. \A id \in Feed[t.cur + 1].removed \cap Txn : Retracted(t.cur + 1, id)
    BY DEF Retracted
  <2>2. QED
    BY <1>5, <2>1 DEF ApplyRemoved, TakenBack
<1>6. ASSUME ~StageFresh(s), ~DropReplaced(s), ~StageSuccessor(s), ~DropZeroed(s),
             ~ApplyRemoved(s)
      PROVE  staged' = staged
  BY <1>6 DEF ReadItem, SyncStep, SyncFault, TryLock, SkipFetch, FetchPage,
              FetchNothing, CheckPredecessor, ReadDismissed, PersistCursor, Unlock,
              ServeSuggestions
<1>7. QED
  BY <1>1, <1>2, <1>3, <1>4, <1>5, <1>6

LEMMA RowsChange ==
    ASSUME TypeInv, SourceInv, [Next]_vars
    PROVE  \/ staged' = staged \/ Restaged \/ Cleaned \/ Flagged
           \/ \E s \in Syncer :
                 TakenBack(s) /\ (ReadItem(s) \/ SyncStep(s) \/ SyncFault(s))
<1>1. ASSUME NEW s \in Syncer, ReadItem(s) \/ SyncStep(s) \/ SyncFault(s)
      PROVE  staged' = staged \/ Restaged \/ Cleaned \/ TakenBack(s)
  BY <1>1, SyncChangesRows
<1>2. ASSUME NEW i \in Importer, ReadStaged(i) \/ ImportStep(i)
      PROVE  staged' = staged \/ Cleaned
  <2>1. CASE DeleteStaged(i)
    <3>1. SettledByImport(imp[i].id) /\ staged' = Without({imp[i].id})
      BY <2>1 DEF DeleteStaged, SourceInv, ImportsFound, ImportFound
    <3>2. QED
      BY <3>1 DEF Cleaned
  <2>2. CASE ~DeleteStaged(i)
    BY <1>2, <2>2 DEF ReadStaged, ImportStep, SkipImported, PassDedupe,
       CheckPending, CreateTransaction, DuplicateViolation, FailRow,
       DeleteStagedFails
  <2>3. QED
    BY <2>1, <2>2
<1>3. ASSUME NEW id \in Txn, UserStep(id)
      PROVE  staged' = staged \/ Flagged
  <2>1. Dismiss(id) => Flagged
    BY DEF Dismiss, Flagged
  <2>2. QED
    BY <1>3, <2>1 DEF UserStep, EditBook
<1>4. Publish \/ Crash \/ UNCHANGED vars => staged' = staged
  BY DEF Publish, Crash, vars
<1>5. QED
  BY <1>1, <1>2, <1>3, <1>4 DEF Next

(* Whatever a step does to the rows, they stay the bank's. *)
LEMMA RowsStaySourced ==
    ASSUME TypeInv, SourceInv, [Next]_vars
    PROVE  SourcedRows'
<1>0. /\ staged \in [Txn -> Row \cup {NoRow}] /\ Published \subseteq Published'
      /\ NoRow \notin Row
  BY HistoryGrows, SentinelAssumption DEF TypeInv, TypeOK
<1> DEFINE Sourced(id, row) ==
        \E e \in Published' : /\ e.id = id /\ e.amt = row.amt /\ e.amt # 0
                              /\ e.pend = row.pend /\ e.pending = row.pending
<1>1. ASSUME NEW id \in Txn, staged[id] # NoRow
      PROVE  Sourced(id, staged[id])
  BY <1>0, <1>1 DEF SourceInv, SourcedRows, FromBank
<1>2. ASSUME NEW id \in Txn, staged'[id] # NoRow
      PROVE  Sourced(id, staged'[id])
  <2>1. CASE staged'[id] = staged[id]
    BY <1>1, <1>2, <2>1
  <2>2. CASE Restaged
    <3>1. PICK e \in Published \cap Entry, d \in BOOLEAN :
              e.amt # 0 /\ staged' = Upserted(e, d)
      BY <2>2 DEF Restaged
    <3>2. CASE id = e.id
      <4>1. staged'[id] = [amt |-> e.amt, pend |-> e.pend, pending |-> e.pending,
                           dismissed |-> Dismissed(e.id) \/ d]
        BY <1>0, <3>1, <3>2 DEF Upserted
      <4>2. e \in Published' /\ e.amt # 0 /\ e.id = id
        BY <1>0, <3>1, <3>2
      <4>3. QED
        BY <4>1, <4>2
    <3>3. CASE id # e.id
      BY <1>0, <2>1, <3>1, <3>3 DEF Upserted
    <3>4. QED
      BY <3>2, <3>3
  <2>3. CASE Cleaned \/ \E s \in Syncer : TakenBack(s)
    <3>1. PICK ids : staged' = Without(ids)
      BY <2>3 DEF Cleaned, TakenBack, WithoutUndismissed
    <3>2. QED
      BY <1>0, <1>2, <2>1, <3>1 DEF Without
  <2>4. CASE Flagged
    <3>1. PICK j \in Txn : /\ staged[j] # NoRow
                           /\ staged' = [staged EXCEPT ![j].dismissed = TRUE]
      BY <2>4 DEF Flagged
    <3>2. CASE id = j
      <4>1. staged[j] \in Row
        BY <1>0, <3>1
      <4>2. /\ staged'[id].amt = staged[id].amt /\ staged'[id].pend = staged[id].pend
            /\ staged'[id].pending = staged[id].pending /\ staged[id] # NoRow
        BY <1>0, <3>1, <3>2, <4>1 DEF Row
      <4>3. QED
        BY <1>1, <4>2
    <3>3. CASE id # j
      BY <1>0, <2>1, <3>1, <3>3
    <3>4. QED
      BY <3>2, <3>3
  <2>5. QED
    BY <1>2, <2>1, <2>2, <2>3, <2>4, RowsChange
<1>3. QED
  BY <1>2 DEF SourcedRows, FromBank

LEMMA MatchedIsBooked ==
    ASSUME TypeInv, BookedEver, NEW id \in Txn, NEW a, ValueMatches(id, a)
    PROVE  id \in everBooked
<1>1. PICK k \in DOMAIN book[id] : book[id][k] = a
  BY DEF ValueMatches
<1>2. book[id] # <<>>
  BY <1>1
<1>3. QED
  BY <1>2 DEF BookedEver, Imported

(* What a Sync has in hand stays of its page, through every step of its.   *)
LEMMA SyncKeepsPage ==
    ASSUME TypeInv, SourceInv, NEW s \in Syncer,
           ReadItem(s) \/ SyncStep(s) \/ SyncFault(s)
    PROVE  /\ PageInHand(sync'[s])
           /\ \A r \in Syncer \ {s} : sync'[r] = sync[r]
           /\ everBooked' = everBooked
<1> DEFINE t == sync[s]
<1>0. /\ sync \in [Syncer -> SyncState] /\ t \in SyncState /\ PageInHand(t)
      /\ t.todo \subseteq Entry
  BY DEF TypeInv, TypeOK, SourceInv, PagesInHand, SyncState
<1>1. everBooked' = everBooked
  BY DEF ReadItem, SyncStep, SyncFault, TryLock, SkipFetch, FetchPage, FetchNothing,
         StageFresh, CheckPredecessor, DropReplaced, ReadDismissed, StageSuccessor,
         DropZeroed, ApplyRemoved, PersistCursor, Unlock, ServeSuggestions,
         SyncFrame, hist
<1>2. \A r \in Syncer \ {s} : sync'[r] = sync[r]
  BY <1>0 DEF ReadItem, SyncStep, SyncFault, TryLock, SkipFetch, FetchPage,
         FetchNothing, StageFresh, CheckPredecessor, DropReplaced, ReadDismissed,
         StageSuccessor, DropZeroed, ApplyRemoved, PersistCursor, Unlock,
         ServeSuggestions, Treated
<1>3. CASE FetchPage(s)
  <2>1. /\ sync'[s].pc = "stage" /\ sync'[s].cur = t.cur
        /\ sync'[s].todo = Feed[t.cur + 1].updated
    BY <1>0, <1>3 DEF FetchPage, SyncState
  <2>2. QED
    BY <1>1, <1>2, <2>1 DEF PageInHand, Handling
<1>4. CASE StageFresh(s) \/ DropZeroed(s)
  <2>1. PICK e \in t.todo : sync' = [sync EXCEPT ![s].todo = @ \ {e}]
    BY <1>4 DEF StageFresh, DropZeroed
  <2>2. t.pc = "stage"
    BY <1>4 DEF StageFresh, DropZeroed
  <2>3. /\ sync'[s].pc = "stage" /\ sync'[s].cur = t.cur
        /\ sync'[s].todo = t.todo \ {e}
    BY <1>0, <2>1, <2>2 DEF SyncState
  <2>4. QED
    BY <1>1, <1>2, <1>0, <2>2, <2>3 DEF PageInHand, Staging, Handling
<1>5. CASE CheckPredecessor(s)
  <2>1. PICK e \in t.todo : /\ e.amt # 0 /\ e.pend # NoTxn
                            /\ sync' = [sync EXCEPT ![s].ent = e,
                                  ![s].pc = IF ValueMatches(e.pend, e.amt)
                                            THEN "drop" ELSE "inherit"]
    BY <1>5 DEF CheckPredecessor
  <2>2. e.pend \in Txn /\ t.pc = "stage"
    BY <1>0, <1>5, <2>1 DEF Entry, CheckPredecessor
  <2>3. /\ sync'[s].pc = IF ValueMatches(e.pend, e.amt) THEN "drop" ELSE "inherit"
        /\ sync'[s].cur = t.cur /\ sync'[s].todo = t.todo /\ sync'[s].ent = e
    BY <1>0, <2>1 DEF SyncState
  <2>4. sync'[s].pc = "drop" => e.pend \in everBooked
    BY <2>2, <2>3, MatchedIsBooked DEF SourceInv
  <2>5. t.todo \subseteq Feed[t.cur + 1].updated
    BY <1>0, <2>2 DEF PageInHand, Staging
  <2>6. QED
    BY <1>1, <1>2, <2>1, <2>2, <2>3, <2>4, <2>5 DEF PageInHand
<1>6. CASE ReadDismissed(s)
  <2>1. t.pc = "inherit" /\ sync'[s].pc = "upsert"
        /\ sync'[s].cur = t.cur /\ sync'[s].todo = t.todo /\ sync'[s].ent = t.ent
    BY <1>0, <1>6 DEF ReadDismissed, SyncState
  <2>2. QED
    BY <1>1, <1>2, <1>0, <2>1 DEF PageInHand, Staging, Handling
<1>7. CASE DropReplaced(s) \/ StageSuccessor(s)
  <2>1. t.pc \in Staging
    BY <1>7 DEF DropReplaced, StageSuccessor, Staging
  <2>2. /\ sync'[s].pc = "stage" /\ sync'[s].cur = t.cur
        /\ sync'[s].todo = t.todo \ {t.ent}
    BY <1>0, <1>7 DEF DropReplaced, StageSuccessor, Treated, SyncState
  <2>3. QED
    BY <1>1, <1>2, <1>0, <2>1, <2>2 DEF PageInHand, Handling
<1>8. ASSUME ~FetchPage(s), ~StageFresh(s), ~DropZeroed(s), ~CheckPredecessor(s),
             ~ReadDismissed(s), ~DropReplaced(s), ~StageSuccessor(s)
      PROVE  sync'[s].pc \notin Staging
  BY <1>0, <1>8
  DEF ReadItem, SyncStep, SyncFault, TryLock, SkipFetch, FetchNothing, ApplyRemoved,
      PersistCursor, Unlock, ServeSuggestions, AfterFault, NoSync, Emptied,
      SyncState, Staging
<1>9. sync'[s].pc \notin Staging => PageInHand(sync'[s])
  BY DEF PageInHand, Staging, Handling
<1>10. QED
  BY <1>1, <1>2, <1>3, <1>4, <1>5, <1>6, <1>7, <1>8, <1>9

LEMMA PagesStayInHand ==
    ASSUME TypeInv, SourceInv, [Next]_vars
    PROVE  PagesInHand'
<1>1. ASSUME NEW s \in Syncer, ReadItem(s) \/ SyncStep(s) \/ SyncFault(s)
      PROVE  PagesInHand'
  <2>1. everBooked' = everBooked /\ \A r \in Syncer : PageInHand(sync'[r])
    BY <1>1, SyncKeepsPage DEF SourceInv, PagesInHand
  <2>2. QED
    BY <2>1 DEF PagesInHand, PageInHand
<1>2. ASSUME sync' = sync
      PROVE  PagesInHand'
  BY <1>2, HistoryGrows DEF SourceInv, PagesInHand, PageInHand
<1>3. CASE Crash
  BY <1>3 DEF Crash, PagesInHand, PageInHand, NoSync, Emptied, Staging, Handling
<1>4. ASSUME NEW i \in Importer, ReadStaged(i) \/ ImportStep(i)
      PROVE  sync' = sync
  BY <1>4 DEF ReadStaged, ImportStep, SkipImported, PassDedupe, CheckPending,
              CreateTransaction, DuplicateViolation, FailRow, DeleteStaged,
              DeleteStagedFails, ImportFrame
<1>5. Publish \/ (\E id \in Txn : UserStep(id)) \/ UNCHANGED vars => sync' = sync
  BY DEF Publish, UserStep, Dismiss, EditBook, vars
<1>6. QED
  BY <1>1, <1>2, <1>3, <1>4, <1>5 DEF Next

(* What an import has read and found out stays true, *)
LEMMA ImportKeepsSource ==
    ASSUME TypeInv, SourceInv, [Next]_vars, NEW i \in Importer,
           ReadStaged(i) \/ ImportStep(i)
    PROVE  /\ imp'[i].pc # "idle" => FromBank(imp'[i].id, imp'[i].row)
           /\ ImportFound(i)'
           /\ \A j \in Importer \ {i} : imp'[j] = imp[j]
           /\ Published' = Published
<1>0. /\ imp \in [Importer -> ImportState]
      /\ imp[i].pc # "idle" => /\ imp[i].id \in Txn /\ imp[i].row \in Row
                               /\ FromBank(imp[i].id, imp[i].row)
      /\ ImportFound(i)
  BY DEF TypeInv, TypeOK, ImportHolds, SourceInv, SourcedImports,
         ImportsFound
<1>1. /\ \A j \in Importer \ {i} : imp'[j] = imp[j]
      /\ Published' = Published
  BY <1>0 DEF ReadStaged, ImportStep, SkipImported, PassDedupe, CheckPending,
              CreateTransaction, DuplicateViolation, FailRow, DeleteStaged,
              DeleteStagedFails, ImportFrame, Published
<1>2. CASE ReadStaged(i)
  <2>1. PICK id \in shown : /\ staged[id] # NoRow
                            /\ imp' = [imp EXCEPT ![i] =
                                  [pc |-> "dedupe", id |-> id, row |-> staged[id]]]
    BY <1>2 DEF ReadStaged
  <2>2. id \in Txn
    BY <2>1 DEF TypeInv, TypeOK
  <2>3. FromBank(id, staged[id])
    BY <2>1, <2>2 DEF SourceInv, SourcedRows
  <2>4. imp'[i] = [pc |-> "dedupe", id |-> id, row |-> staged[id]]
    BY <1>0, <2>1
  <2>5. QED
    BY <1>1, <2>3, <2>4 DEF ImportFound
<1>3. CASE SkipImported(i) \/ FailRow(i) \/ DeleteStaged(i) \/ DeleteStagedFails(i)
  <2>1. imp'[i].pc = "idle"
    BY <1>0, <1>3 DEF SkipImported, FailRow, DeleteStaged, DeleteStagedFails,
                      NoImport
  <2>2. QED
    BY <1>1, <2>1 DEF ImportFound
<1>4. CASE PassDedupe(i)
  <2>1. /\ imp[i].pc # "idle" /\ imp'[i].pc \in {"create", "pending"}
        /\ imp'[i].id = imp[i].id /\ imp'[i].row = imp[i].row
        /\ imp'[i].pc = "pending" => imp[i].row.pend # NoTxn
    BY <1>0, <1>4 DEF PassDedupe, ImportState
  <2>2. QED
    BY <1>0, <1>1, <2>1 DEF ImportFound
<1>5. ASSUME NEW id, id = imp[i].id, imp[i].pc # "idle", SettledByImport(id)',
             imp' = [imp EXCEPT ![i].pc = "cleanup"]
      PROVE  FromBank(imp'[i].id, imp'[i].row) /\ ImportFound(i)'
  <2>1. /\ imp'[i].pc = "cleanup"
        /\ imp'[i].id = id /\ imp'[i].row = imp[i].row
    BY <1>0, <1>5 DEF ImportState
  <2>2. QED
    BY <1>0, <1>5, <2>1 DEF ImportFound
<1>6. CASE CheckPending(i)
  <2>1. imp[i].pc = "pending" /\ imp[i].row.pend # NoTxn
    BY <1>0, <1>6 DEF CheckPending, ImportFound
  <2>2. PICK id : id = imp[i].id
    OBVIOUS
  <2>3. PICK e \in Published : e.id = id /\ e.pend = imp[i].row.pend
    BY <1>0, <2>1, <2>2 DEF FromBank
  <2>4. e.pend \in Txn /\ e.pend \in Predecessors(id)
    BY <1>0, <2>1, <2>3 DEF Row, Predecessors
  <2>5. CASE PendingCovers(imp[i].row)
    <3>1. e.pend \in everBooked
      BY <2>3, <2>4, <2>5, MatchedIsBooked DEF PendingCovers, SourceInv
    <3>2. SettledByImport(id)
      BY <2>4, <3>1 DEF SettledByImport
    <3>3. SettledByImport(id)'
      BY <3>2, HistoryGrows, SourcesStay
    <3>4. imp' = [imp EXCEPT ![i].pc = "cleanup"]
      BY <1>6, <2>5 DEF CheckPending
    <3>5. QED
      BY <1>1, <1>5, <2>1, <2>2, <3>3, <3>4
  <2>6. CASE ~PendingCovers(imp[i].row)
    <3>1. /\ imp'[i].pc = "create"
          /\ imp'[i].id = imp[i].id /\ imp'[i].row = imp[i].row
      BY <1>0, <1>6, <2>6 DEF CheckPending, ImportState
    <3>2. QED
      BY <1>0, <1>1, <2>1, <3>1 DEF ImportFound
  <2>7. QED
    BY <2>5, <2>6
<1>7. CASE CreateTransaction(i)
  <2>1. imp[i].pc # "idle" /\ imp' = [imp EXCEPT ![i].pc = "cleanup"]
        /\ everBooked' = everBooked \cup {imp[i].id}
    BY <1>7 DEF CreateTransaction
  <2>2. PICK id : id = imp[i].id
    OBVIOUS
  <2>3. SettledByImport(id)'
    BY <2>1, <2>2 DEF SettledByImport
  <2>4. QED
    BY <1>1, <1>5, <2>1, <2>2, <2>3
<1>8. CASE DuplicateViolation(i)
  <2>1. imp[i].pc # "idle" /\ imp' = [imp EXCEPT ![i].pc = "cleanup"]
        /\ everBooked' = everBooked /\ Imported(imp[i].id)
    BY <1>8 DEF DuplicateViolation, IndexAllows
  <2>2. PICK id : id = imp[i].id
    OBVIOUS
  <2>3. SettledByImport(id)'
    BY <1>0, <2>1, <2>2 DEF SettledByImport, SourceInv, BookedEver
  <2>4. QED
    BY <1>1, <1>5, <2>1, <2>2, <2>3
<1>9. QED
  BY <1>2, <1>3, <1>4, <1>6, <1>7, <1>8 DEF ImportStep

LEMMA ImportsStaySourced ==
    ASSUME TypeInv, SourceInv, [Next]_vars
    PROVE  SourcedImports' /\ ImportsFound'
<1>0. Published \subseteq Published' /\ everBooked \subseteq everBooked'
  BY HistoryGrows
<1>1. ASSUME NEW i \in Importer, imp'[i] = imp[i]
      PROVE  (imp'[i].pc # "idle" => FromBank(imp[i].id, imp[i].row)')
             /\ ImportFound(i)'
  <2>1. PICK id, row : id = imp[i].id /\ row = imp[i].row
    OBVIOUS
  <2>2. /\ imp[i].pc # "idle" => FromBank(id, row)
        /\ imp[i].pc = "pending" => row.pend # NoTxn
        /\ imp[i].pc = "cleanup" => SettledByImport(id)
    BY <2>1 DEF SourceInv, SourcedImports, ImportsFound, ImportFound
  <2>3. /\ imp[i].pc # "idle" => FromBank(id, row)'
        /\ imp[i].pc = "cleanup" => SettledByImport(id)'
    BY <1>0, <2>2, SourcesStay DEF FromBank
  <2>4. QED
    BY <1>1, <2>1, <2>2, <2>3 DEF ImportFound
<1>2. ASSUME NEW i \in Importer, ReadStaged(i) \/ ImportStep(i)
      PROVE  SourcedImports' /\ ImportsFound'
  <2>1. /\ imp'[i].pc # "idle" => FromBank(imp'[i].id, imp'[i].row)
        /\ ImportFound(i)'
        /\ \A j \in Importer \ {i} : imp'[j] = imp[j]
        /\ Published' = Published
    BY <1>2, ImportKeepsSource
  <2>2. imp'[i].pc # "idle" => FromBank(imp[i].id, imp[i].row)'
    BY <2>1 DEF FromBank
  <2>3. QED
    BY <1>1, <2>1, <2>2 DEF SourcedImports, ImportsFound
<1>3. ASSUME imp' = imp
      PROVE  SourcedImports' /\ ImportsFound'
  BY <1>1, <1>3 DEF SourcedImports, ImportsFound
<1>4. CASE Crash
  BY <1>4 DEF Crash, NoImport, SourcedImports, ImportsFound, ImportFound
<1>5. ASSUME NEW s \in Syncer, ReadItem(s) \/ SyncStep(s) \/ SyncFault(s)
      PROVE  imp' = imp
  BY <1>5 DEF ReadItem, SyncStep, SyncFault, TryLock, SkipFetch, FetchPage,
     FetchNothing, StageFresh, CheckPredecessor, DropReplaced, ReadDismissed,
     StageSuccessor, DropZeroed, ApplyRemoved, PersistCursor, Unlock,
     ServeSuggestions, SyncFrame
<1>6. Publish \/ (\E id \in Txn : UserStep(id)) \/ UNCHANGED vars => imp' = imp
  BY DEF Publish, UserStep, Dismiss, EditBook, vars
<1>7. QED
  BY <1>2, <1>3, <1>4, <1>5, <1>6 DEF Next

LEMMA BookedStaysEver ==
    ASSUME TypeInv, SourceInv, [Next]_vars
    PROVE  BookedEver'
<1>0. /\ book \in [Txn -> Seq(Amount)] /\ everBooked \subseteq everBooked'
      /\ BookedEver
  BY HistoryGrows DEF TypeInv, TypeOK, SourceInv
<1>1. ASSUME NEW i \in Importer, CreateTransaction(i)
      PROVE  BookedEver'
  BY <1>0, <1>1 DEF CreateTransaction, BookedEver, Imported
<1>2. ASSUME NEW id \in Txn, NEW as, EditBook(id, as)
      PROVE  BookedEver'
  BY <1>0, <1>2 DEF EditBook, BookedEver, Imported
<1>3. book' = book \/ (\E i \in Importer : CreateTransaction(i))
                  \/ (\E id \in Txn, as \in Seq(Amount) : EditBook(id, as))
  <2>1. <<>> \in Seq(Amount) /\ \A a \in Amount : <<a>> \in Seq(Amount)
    OBVIOUS
  <2>2. ASSUME NEW id \in Txn, UserStep(id)
        PROVE  book' = book \/ \E as \in Seq(Amount) : EditBook(id, as)
    BY <2>1, <2>2 DEF UserStep, Dismiss
  <2>3. book' = book \/ (\E i \in Importer : CreateTransaction(i))
                    \/ (\E id \in Txn : UserStep(id))
    BY DEF Next, vars, Publish, Crash, ReadItem, SyncStep, SyncFault, TryLock,
           SkipFetch, FetchPage, FetchNothing, StageFresh, CheckPredecessor,
           DropReplaced, ReadDismissed, StageSuccessor, DropZeroed, ApplyRemoved,
           PersistCursor, Unlock, ServeSuggestions, SyncFrame, ReadStaged,
           ImportStep, SkipImported, PassDedupe, CheckPending, DuplicateViolation,
           FailRow, DeleteStaged, DeleteStagedFails
  <2>4. QED
    BY <2>2, <2>3
<1>4. QED
  BY <1>0, <1>1, <1>2, <1>3 DEF BookedEver, Imported

LEMMA InitSources == Init => SourceInv
<1> SUFFICES ASSUME Init PROVE SourceInv
  OBVIOUS
<1>1. SourcedRows /\ SourcedImports /\ ImportsFound
  BY DEF Init, SourcedRows, SourcedImports, ImportsFound, ImportFound, NoImport
<1>2. PagesInHand
  BY DEF Init, PagesInHand, PageInHand, NoSync, Emptied, Staging, Handling
<1>3. BookedEver
  BY DEF Init, BookedEver, Imported
<1>4. QED
  BY <1>1, <1>2, <1>3 DEF SourceInv

LEMMA StepSources == TypeInv /\ SourceInv /\ [Next]_vars => SourceInv'
BY RowsStaySourced, ImportsStaySourced, PagesStayInHand, BookedStaysEver
DEF SourceInv

LEMMA SourcesAlways == Spec => []SourceInv
BY InitSources, StepSources, TypesAlways, PTL DEF Spec

(* Why a row goes, and why a tombstone goes. *)
LEMMA RowGoes ==
    ASSUME TypeInv, SourceInv, [Next]_vars, NEW id \in Txn
    PROVE  /\ staged[id] # NoRow /\ staged'[id] = NoRow =>
                \/ SettledByImport(id)
                \/ \E s \in Syncer :
                      /\ TakenBack(s) /\ Retracted(sync[s].cur + 1, id)
                      /\ ReadItem(s) \/ SyncStep(s) \/ SyncFault(s)
           /\ Dismissed(id) => Dismissed(id)' \/ SettledByImport(id)
<1>0. staged \in [Txn -> Row \cup {NoRow}] /\ NoRow \notin Row
  BY SentinelAssumption DEF TypeInv, TypeOK
<1>1. CASE staged' = staged
  BY <1>1 DEF Dismissed
<1>2. CASE Restaged
  <2>1. PICK e \in Entry, d \in BOOLEAN : staged' = Upserted(e, d)
    BY <1>2 DEF Restaged
  <2>2. CASE e.id = id
    <3>1. staged'[id] = [amt |-> e.amt, pend |-> e.pend, pending |-> e.pending,
                         dismissed |-> Dismissed(id) \/ d]
      BY <1>0, <2>1, <2>2 DEF Upserted
    <3>2. staged'[id] \in Row
      BY <3>1 DEF Entry, Row, Dismissed
    <3>3. ASSUME Dismissed(id)
          PROVE  staged'[id].dismissed
      <4>1. PICK b : b = (Dismissed(id) \/ d)
        OBVIOUS
      <4>2. b = TRUE
        BY <3>3, <4>1
      <4>3. staged'[id].dismissed = b
        BY <3>1, <4>1
      <4>4. QED
        BY <4>2, <4>3
    <3>4. Dismissed(id) => Dismissed(id)'
      BY <1>0, <3>2, <3>3 DEF Dismissed
    <3>5. QED
      BY <1>0, <3>2, <3>4
  <2>3. CASE e.id # id
    <3>1. staged'[id] = staged[id]
      BY <1>0, <2>1, <2>3 DEF Upserted
    <3>2. QED
      BY <3>1 DEF Dismissed
  <2>4. QED
    BY <2>2, <2>3
<1>3. CASE Cleaned
  <2>1. PICK ids : /\ staged' = Without(ids)
                   /\ \A j \in ids \cap Txn : SettledByImport(j)
    BY <1>3 DEF Cleaned
  <2>2. staged'[id] = staged[id] \/ id \in ids
    BY <2>1 DEF Without
  <2>3. QED
    BY <2>1, <2>2 DEF Dismissed
<1>4. ASSUME NEW s \in Syncer, TakenBack(s),
             ReadItem(s) \/ SyncStep(s) \/ SyncFault(s)
      PROVE  /\ staged[id] # NoRow /\ staged'[id] = NoRow =>
                  Retracted(sync[s].cur + 1, id)
             /\ Dismissed(id) => Dismissed(id)'
  <2>1. PICK ids : /\ staged' = WithoutUndismissed(ids)
                   /\ \A j \in ids \cap Txn : Retracted(sync[s].cur + 1, j)
    BY <1>4 DEF TakenBack
  <2>2. staged'[id] = staged[id] \/ (id \in ids /\ ~Dismissed(id))
    BY <2>1 DEF WithoutUndismissed, Without
  <2>3. QED
    BY <2>1, <2>2 DEF Dismissed
<1>5. CASE Flagged
  <2>1. PICK j \in Txn : /\ staged[j] # NoRow
                         /\ staged' = [staged EXCEPT ![j].dismissed = TRUE]
    BY <1>5 DEF Flagged
  <2>2. CASE j = id
    <3>1. /\ staged[id] \in Row
          /\ staged'[id] = [staged[id] EXCEPT !.dismissed = TRUE]
      BY <1>0, <2>1, <2>2
    <3>2. staged'[id] \in Row /\ staged'[id].dismissed
      BY <3>1 DEF Row
    <3>3. QED
      BY <1>0, <3>2 DEF Dismissed
  <2>3. CASE j # id
    BY <1>0, <2>1, <2>3 DEF Dismissed
  <2>4. QED
    BY <2>2, <2>3
<1>6. QED
  BY <1>1, <1>2, <1>3, <1>4, <1>5, RowsChange

(* A dismissal outlives every removal, correction and restaging; only the  *)
(* import of the id, or of the pending one it replaces, ends it.           *)
THEOREM DismissalsLast == Spec => []DismissalDurable
<1>1. Init => DismissalDurable
  BY DEF Init, DismissalDurable
<1>2. ASSUME TypeInv, SourceInv, DismissalDurable, [Next]_vars
      PROVE  DismissalDurable'
  <2>1. ASSUME NEW id \in everDismissed'
        PROVE  Dismissed(id)' \/ SettledByImport(id)'
    <3>1. CASE id \in everDismissed
      <4>1. id \in Txn
        BY <1>2, <3>1 DEF TypeInv, TypeOK
      <4>2. Dismissed(id)' \/ SettledByImport(id)
        BY <1>2, <3>1, <4>1, RowGoes DEF DismissalDurable
      <4>3. QED
        BY <1>2, <4>2, HistoryGrows, SourcesStay
    <3>2. CASE id \notin everDismissed
      <4>1. PICK j \in Txn : Dismiss(j)
        BY <1>2, <2>1, <3>2
        DEF Next, vars, hist, Publish, Crash, ReadItem, SyncStep, SyncFault, TryLock,
            SkipFetch, FetchPage, FetchNothing, StageFresh, CheckPredecessor,
            DropReplaced, ReadDismissed, StageSuccessor, DropZeroed, ApplyRemoved,
            PersistCursor, Unlock, ServeSuggestions, SyncFrame, ReadStaged,
            ImportStep, SkipImported, PassDedupe, CheckPending, CreateTransaction,
            DuplicateViolation, FailRow, DeleteStaged, DeleteStagedFails,
            ImportFrame, UserStep, EditBook
      <4>2. j = id /\ staged[id] # NoRow
            /\ staged' = [staged EXCEPT ![id].dismissed = TRUE]
        BY <2>1, <3>2, <4>1 DEF Dismiss
      <4>3. staged[id] \in Row /\ id \in Txn /\ NoRow \notin Row
            /\ staged'[id] = [staged[id] EXCEPT !.dismissed = TRUE]
        BY <1>2, <4>1, <4>2, SentinelAssumption DEF TypeInv, TypeOK
      <4>4. staged'[id] \in Row /\ staged'[id].dismissed
        BY <4>3 DEF Row
      <4>5. QED
        BY <4>3, <4>4 DEF Dismissed
    <3>3. QED
      BY <3>1, <3>2
  <2>2. QED
    BY <2>1 DEF DismissalDurable
<1>3. QED
  BY <1>1, <1>2, TypesAlways, SourcesAlways, PTL DEF Spec
-----------------------------------------------------------------------------
(* Nothing is lost.  What stands at a page is secured up to the furthest   *)
(* cursor and up to the holder's own; on the page in hand, the entries     *)
(* that are done.  A holder ahead of the furthest cursor can only take     *)
(* back what a later page takes back; one that lags replays the page it    *)
(* has in hand, and what that page takes back stands no more.              *)

Secured(k) == \A id \in Txn : Standing(k, id) => Kept(id)

Behind(c) == \A k \in 1..c : Secured(k)

PageDone(t) ==
    t.pc \in Staging =>
        \A e \in Feed[t.cur + 1].updated \ t.todo :
            Standing(t.cur + 1, e.id) => Kept(e.id)

Ahead(t) ==
    /\ t.pc \notin Holding => t.cur <= furthest
    /\ t.pc \in Staging => t.cur + 1 \in replayed \/ furthest <= t.cur

Following(t) ==
    /\ t.pc \in Holding => Behind(t.cur)
    /\ PageDone(t)
    /\ Ahead(t)

KeptInv == Behind(furthest) /\ \A s \in Syncer : Following(sync[s])

LEMMA StandingBefore ==
    ASSUME TypeInv, [Next]_vars
    PROVE  /\ replayed \subseteq replayed'
           /\ \A k \in Nat, id \in Txn : Standing(k, id)' => Standing(k, id)
<1>1. published \in Nat /\ published' \in Nat /\ published <= published'
  BY HistoryGrows
<1>2. replayed \subseteq replayed'
  BY DEF Next, vars, progress, Publish, Crash, ReadItem, SyncStep, SyncFault,
         TryLock, SkipFetch, FetchPage, FetchNothing, StageFresh, CheckPredecessor,
         DropReplaced, ReadDismissed, StageSuccessor, DropZeroed, ApplyRemoved,
         PersistCursor, Unlock, ServeSuggestions, ReadStaged, ImportStep,
         SkipImported, PassDedupe, CheckPending, CreateTransaction,
         DuplicateViolation, FailRow, DeleteStaged, DeleteStagedFails, ImportFrame,
         UserStep, Dismiss, EditBook
<1>3. \A k \in Nat : k..published \subseteq k..published'
  BY <1>1
<1>4. QED
  BY <1>2, <1>3 DEF Standing, Reported, Retracted

(* A step takes nothing that still stands, behind the furthest cursor or   *)
(* up to the page in the holder's hand. *)
LEMMA KeptStays ==
    ASSUME TypeInv, SourceInv, SingleFetcher, KeptInv, [Next]_vars,
           NEW k \in Nat, NEW id \in Txn, Standing(k, id)', Kept(id),
           \/ k <= furthest
           \/ \E r \in Syncer : sync[r].pc \in Holding /\ k <= sync[r].cur + 1
    PROVE  Kept(id)'
<1>1. SettledByImport(id) => SettledByImport(id)'
  BY HistoryGrows, SourcesStay
<1>2. ASSUME NEW s \in Syncer, TakenBack(s), Retracted(sync[s].cur + 1, id)
      PROVE  FALSE
  <2>0. PICK j : j = sync[s].cur + 1
    OBVIOUS
  <2>1. sync[s].pc \in Staging /\ sync[s].pc \in Holding
    BY <1>2 DEF TakenBack, Staging, Holding, Fetching
  <2>2. sync[s].cur \in Nat /\ j \in 1..published /\ published \in Nat
    BY <2>0, <2>1, PagePublished
  <2>3. furthest \in Nat
    BY DEF TypeInv, TypeOK
  <2>4. j \in replayed \/ furthest <= sync[s].cur
    BY <2>0, <2>1 DEF KeptInv, Following, Ahead
  <2>5. \A r \in Syncer : sync[r].pc \in Holding => r = s
    BY <2>1 DEF SingleFetcher
  <2>6. j \in replayed \/ k <= j
    BY <2>0, <2>2, <2>3, <2>4, <2>5
  <2>7. published' \in Nat /\ published <= published'
    BY HistoryGrows
  <2>8. j \in (k..published') \cup replayed'
    BY <2>2, <2>6, <2>7, StandingBefore
  <2>9. ~Retracted(j, id)'
    BY <2>8 DEF Standing
  <2>10. QED
    BY <1>2, <2>0, <2>9 DEF Retracted
<1>3. CASE SettledByImport(id)
  BY <1>1, <1>3 DEF Kept
<1>4. CASE staged[id] # NoRow
  BY <1>1, <1>2, <1>4, RowGoes DEF Kept
<1>5. QED
  BY <1>3, <1>4 DEF Kept

LEMMA SecuredStays ==
    ASSUME TypeInv, SourceInv, SingleFetcher, KeptInv, [Next]_vars
    PROVE  /\ \A k \in 1..furthest : Secured(k)'
           /\ \A r \in Syncer : sync[r].pc \in Holding =>
                 \A k \in 1..sync[r].cur : Secured(k)'
           /\ \A r \in Syncer : sync[r].pc \in Staging =>
                 \A k : k = sync[r].cur + 1 =>
                    \A e \in Feed[k].updated \ sync[r].todo :
                       Standing(k, e.id)' => Kept(e.id)'
<1>0. /\ furthest \in Nat
      /\ \A r \in Syncer : sync[r].cur \in Nat
  BY DEF TypeInv, TypeOK, SyncState
<1>1. ASSUME NEW k \in 1..furthest, NEW id \in Txn, Standing(k, id)'
      PROVE  Kept(id)'
  <2>1. k \in Nat /\ k <= furthest
    BY <1>0
  <2>2. Kept(id)
    BY <1>1, <2>1, StandingBefore DEF KeptInv, Behind, Secured
  <2>3. QED
    BY <1>1, <2>1, <2>2, KeptStays
<1>2. ASSUME NEW r \in Syncer, sync[r].pc \in Holding, NEW k \in 1..sync[r].cur,
             NEW id \in Txn, Standing(k, id)'
      PROVE  Kept(id)'
  <2>1. k \in Nat /\ k <= sync[r].cur + 1
    BY <1>0
  <2>2. Kept(id)
    BY <1>2, <2>1, StandingBefore DEF KeptInv, Following, Behind, Secured
  <2>3. QED
    BY <1>2, <2>1, <2>2, KeptStays
<1>3. ASSUME NEW r \in Syncer, sync[r].pc \in Staging, NEW k, k = sync[r].cur + 1,
             NEW e \in Feed[k].updated \ sync[r].todo, Standing(k, e.id)'
      PROVE  Kept(e.id)'
  <2>1. k \in Nat /\ k <= sync[r].cur + 1 /\ sync[r].pc \in Holding
    BY <1>0, <1>3 DEF Staging, Holding, Fetching
  <2>2. e.id \in Txn
    BY <1>3, PagePublished DEF Entry
  <2>3. Kept(e.id)
    BY <1>3, <2>1, <2>2, StandingBefore DEF KeptInv, Following, PageDone
  <2>4. QED
    BY <1>3, <2>1, <2>2, <2>3, KeptStays
<1>4. QED
  BY <1>1, <1>2, <1>3 DEF Secured

(* A Sync whose page, cursor and place between lock and unlock are as      *)
(* before still follows. *)
LEMMA FollowingStays ==
    ASSUME TypeInv, SourceInv, SingleFetcher, KeptInv, [Next]_vars,
           furthest' = furthest, NEW s \in Syncer,
           sync'[s].cur = sync[s].cur,
           sync'[s].pc \in Holding <=> sync[s].pc \in Holding,
           sync'[s].pc \in Staging => /\ sync[s].pc \in Staging
                                      /\ sync'[s].todo = sync[s].todo
    PROVE  Following(sync[s])'
<1>1. PICK c : c = sync[s].cur
  OBVIOUS
<1>2. sync'[s].pc \in Holding => Behind(sync[s].cur)'
  BY <1>1, SecuredStays DEF Behind
<1>3. PageDone(sync[s])'
  BY <1>1, SecuredStays DEF PageDone
<1>4. Ahead(sync[s])'
  BY <1>1, StandingBefore DEF KeptInv, Following, Ahead
<1>5. QED
  BY <1>2, <1>3, <1>4 DEF Following

(* The entry a Sync has just dealt with is kept, or stands no more. *)
LEMMA FollowingEntry ==
    ASSUME TypeInv, SourceInv, SingleFetcher, KeptInv, [Next]_vars,
           furthest' = furthest, NEW s \in Syncer, NEW e, NEW k,
           k = sync[s].cur + 1, sync[s].pc \in Staging,
           sync'[s].cur = sync[s].cur, sync'[s].pc = "stage",
           sync'[s].todo = sync[s].todo \ {e},
           Standing(k, e.id)' => Kept(e.id)'
    PROVE  Following(sync[s])'
<1>1. sync[s].pc \in Holding
  BY DEF Staging, Holding, Fetching
<1>2. Behind(sync[s].cur)'
  <2>1. PICK c : c = sync[s].cur
    OBVIOUS
  <2>2. QED
    BY <1>1, <2>1, SecuredStays DEF Behind
<1>3. ASSUME NEW f \in Feed[k].updated \ sync'[s].todo, Standing(k, f.id)'
      PROVE  Kept(f.id)'
  <2>1. CASE f = e
    BY <1>3, <2>1
  <2>2. CASE f # e
    BY <1>3, <2>2, SecuredStays
  <2>3. QED
    BY <2>1, <2>2
<1>4. PageDone(sync[s])'
  BY <1>3 DEF PageDone
<1>5. Ahead(sync[s])'
  BY <1>1, StandingBefore DEF KeptInv, Following, Ahead, Holding, Fetching
<1>6. QED
  BY <1>2, <1>4, <1>5 DEF Following

LEMMA SyncFollows ==
    ASSUME TypeInv, SourceInv, SingleFetcher, KeptInv, NEW s \in Syncer,
           ReadItem(s) \/ SyncStep(s) \/ SyncFault(s), ~PersistCursor(s)
    PROVE  Following(sync[s])'
<1> DEFINE t == sync[s]
<1>0. /\ sync \in [Syncer -> SyncState] /\ t \in SyncState /\ t.cur \in Nat
      /\ furthest \in Nat /\ cursor \in Nat /\ cursor <= furthest
      /\ staged \in [Txn -> Row \cup {NoRow}] /\ NoRow \notin Row
  BY SentinelAssumption DEF TypeInv, TypeOK, SyncState
<1>1. furthest' = furthest /\ [Next]_vars
  <2>1. furthest' = furthest
    BY DEF ReadItem, SyncStep, SyncFault, TryLock, SkipFetch, FetchPage,
           FetchNothing, StageFresh, CheckPredecessor, DropReplaced, ReadDismissed,
           StageSuccessor, DropZeroed, ApplyRemoved, Unlock, ServeSuggestions,
           progress
  <2>2. QED
    BY <2>1 DEF Next
<1>2. Following(t) /\ PageInHand(t)
  BY DEF KeptInv, SourceInv, PagesInHand
<1>3. CASE ReadItem(s) \/ SkipFetch(s) \/ Unlock(s) \/ ServeSuggestions(s)
           \/ (SyncFault(s) /\ t.pc \notin Fetching)
  <2>1. sync'[s].pc \in {"lock", "suggest", "idle"} /\ sync'[s].cur <= furthest
    BY <1>0, <1>2, <1>3 DEF ReadItem, SkipFetch, Unlock, ServeSuggestions, SyncFault,
       AfterFault, NoSync, Emptied, SyncState, Following, Ahead, Holding, Fetching
  <2>2. QED
    BY <1>1, <2>1 DEF Following, PageDone, Ahead, Holding, Fetching, Staging
<1>4. CASE TryLock(s)
  <2>1. sync'[s].pc = "fetch" /\ sync'[s].cur = t.cur /\ t.cur <= furthest
    BY <1>0, <1>2, <1>4 DEF TryLock, SyncState, Following, Ahead, Holding, Fetching
  <2>2. \A k \in 1..t.cur : k \in 1..furthest
    BY <1>0, <2>1
  <2>3. \A k \in 1..sync'[s].cur : Secured(k)'
    BY <1>1, <2>1, <2>2, SecuredStays
  <2>4. QED
    BY <2>1, <2>3 DEF Following, Behind, PageDone, Ahead, Holding, Fetching, Staging
<1>5. CASE FetchPage(s)
  <2>1. /\ t.pc \in Holding /\ sync'[s].pc = "stage" /\ sync'[s].cur = t.cur
        /\ sync'[s].todo = Feed[t.cur + 1].updated
        /\ t.cur + 1 \in replayed' \/ furthest <= t.cur
    BY <1>0, <1>5 DEF FetchPage, SyncState, Holding, Fetching
  <2>2. \A k \in 1..sync'[s].cur : Secured(k)'
    BY <1>1, <2>1, SecuredStays
  <2>3. QED
    BY <1>1, <2>1, <2>2
    DEF Following, Behind, PageDone, Ahead, Holding, Fetching, Staging
<1>6. CASE FetchNothing(s) \/ (SyncFault(s) /\ t.pc \in Fetching)
  <2>1. /\ t.pc \in Holding /\ sync'[s].pc \in {"persist", "fail"}
        /\ sync'[s].cur = t.cur
    BY <1>0, <1>6 DEF FetchNothing, SyncFault, AfterFault, SyncState, Holding, Fetching
  <2>2. sync'[s].pc \in Holding /\ sync'[s].pc \notin Staging
    BY <2>1 DEF Holding, Fetching, Staging
  <2>3. QED
    BY <1>1, <2>1, <2>2, FollowingStays
<1>7. CASE CheckPredecessor(s) \/ ReadDismissed(s)
  <2>1. /\ t.pc \in {"stage", "inherit"} /\ sync'[s].cur = t.cur
        /\ sync'[s].pc \in {"drop", "inherit", "upsert"} /\ sync'[s].todo = t.todo
    <3>1. CASE CheckPredecessor(s)
      <4>1. PICK e \in t.todo :
                sync' = [sync EXCEPT ![s].ent = e,
                                     ![s].pc = IF ValueMatches(e.pend, e.amt)
                                               THEN "drop" ELSE "inherit"]
        BY <3>1 DEF CheckPredecessor
      <4>2. QED
        BY <1>0, <3>1, <4>1 DEF CheckPredecessor, SyncState
    <3>2. CASE ReadDismissed(s)
      BY <1>0, <3>2 DEF ReadDismissed, SyncState
    <3>3. QED
      BY <1>7, <3>1, <3>2
  <2>2. /\ sync'[s].pc \in Holding /\ t.pc \in Holding /\ t.pc \in Staging
    BY <2>1 DEF Holding, Fetching, Staging
  <2>3. QED
    BY <1>1, <2>1, <2>2, FollowingStays
<1>8. CASE StageFresh(s)
  <2>1. PICK e \in t.todo : /\ staged' = Upserted(e, FALSE)
                            /\ sync' = [sync EXCEPT ![s].todo = @ \ {e}]
    BY <1>8 DEF StageFresh
  <2>2. t.pc = "stage" /\ t.pc \in Staging
    BY <1>8 DEF StageFresh, Staging
  <2>3. e \in Entry /\ e.id \in Txn
    BY <1>0, <2>1 DEF SyncState, Entry
  <2>4. staged'[e.id] # NoRow
    BY <1>0, <2>1, <2>3, UpsertedRow DEF TypeInv
  <2>5. /\ sync'[s].cur = t.cur /\ sync'[s].pc = "stage"
        /\ sync'[s].todo = t.todo \ {e}
    BY <1>0, <2>1, <2>2 DEF SyncState
  <2>6. Kept(e.id)'
    BY <2>4 DEF Kept
  <2>7. QED
    BY <1>1, <2>2, <2>5, <2>6, FollowingEntry
<1>9. CASE StageSuccessor(s) \/ DropReplaced(s)
  <2>1. PICK e \in Entry : e = t.ent
    BY <1>2, <1>9 DEF StageSuccessor, DropReplaced, TypeInv, SyncBounds, Bounded
  <2>2. t.pc \in Staging /\ t.pc \in Handling
    BY <1>9 DEF StageSuccessor, DropReplaced, Staging, Handling
  <2>3. /\ sync'[s].cur = t.cur /\ sync'[s].pc = "stage"
        /\ sync'[s].todo = t.todo \ {e}
    BY <1>0, <1>9, <2>1 DEF StageSuccessor, DropReplaced, Treated, SyncState
  <2>4. Kept(e.id)'
    <3>1. CASE StageSuccessor(s)
      <4>1. staged' = Upserted(e, t.inherit) /\ t.inherit \in BOOLEAN
        BY <1>0, <2>1, <3>1 DEF StageSuccessor, SyncState
      <4>2. staged'[e.id] # NoRow
        BY <1>0, <2>1, <4>1, UpsertedRow DEF TypeInv
      <4>3. QED
        BY <4>2 DEF Kept
    <3>2. CASE DropReplaced(s)
      <4>1. e \in t.todo /\ e.pend \in everBooked /\ e.pend \in Txn
        BY <1>2, <2>1, <3>2 DEF DropReplaced, PageInHand, Handling
      <4>2. e \in Published
        BY <1>2, <2>2, <4>1, PagePublished DEF PageInHand
      <4>3. e.pend \in Predecessors(e.id)
        BY <4>1, <4>2, SentinelAssumption DEF Predecessors
      <4>4. SettledByImport(e.id)'
        BY <1>1, <4>1, <4>3, HistoryGrows, SourcesStay DEF SettledByImport
      <4>5. QED
        BY <4>4 DEF Kept
    <3>3. QED
      BY <1>9, <3>1, <3>2
  <2>5. QED
    BY <1>1, <2>2, <2>3, <2>4, FollowingEntry
<1>10. CASE DropZeroed(s)
  <2>1. PICK e \in t.todo : /\ e.amt = 0
                            /\ sync' = [sync EXCEPT ![s].todo = @ \ {e}]
    BY <1>10 DEF DropZeroed
  <2>2. t.pc = "stage" /\ t.pc \in Staging
    BY <1>10 DEF DropZeroed, Staging
  <2>3. PICK k : k = t.cur + 1
    OBVIOUS
  <2>4. /\ sync'[s].cur = t.cur /\ sync'[s].pc = "stage"
        /\ sync'[s].todo = t.todo \ {e}
    BY <1>0, <2>1, <2>2 DEF SyncState
  <2>5. k \in 1..published /\ e \in Feed[k].updated /\ published \in Nat /\ k \in Nat
    BY <1>2, <2>1, <2>2, <2>3, PagePublished DEF PageInHand
  <2>6. published' \in Nat /\ published <= published'
    BY <1>1, HistoryGrows
  <2>7. k \in k..published'
    BY <2>5, <2>6
  <2>8. ~Standing(k, e.id)'
    BY <2>1, <2>5, <2>7 DEF Standing, Retracted
  <2>9. QED
    BY <1>1, <2>2, <2>3, <2>4, <2>8, FollowingEntry
<1>11. CASE ApplyRemoved(s)
  <2>1. PICK k : k = t.cur + 1
    OBVIOUS
  <2>2. /\ t.pc \in Staging /\ t.pc \in Holding /\ t.todo = {}
        /\ sync'[s].pc \in {"fetch", "persist"} /\ sync'[s].cur = k
    BY <1>0, <1>11, <2>1
    DEF ApplyRemoved, SyncState, Staging, Holding, Fetching
  <2>3. \A e \in Feed[k].updated : Standing(k, e.id)' => Kept(e.id)'
    BY <1>1, <2>1, <2>2, SecuredStays
  <2>4. Secured(k)'
    BY <2>3 DEF Secured, Standing, Reported
  <2>5. \A j \in 1..k : j = k \/ j \in 1..t.cur
    BY <1>0, <2>1
  <2>6. Behind(sync[s].cur)'
    BY <1>1, <2>2, <2>4, <2>5, SecuredStays DEF Behind
  <2>7. QED
    BY <2>2, <2>6 DEF Following, PageDone, Ahead, Holding, Fetching, Staging
<1>12. QED
  BY <1>3, <1>4, <1>5, <1>6, <1>7, <1>8, <1>9, <1>10, <1>11 DEF SyncStep

LEMMA PersistFollows ==
    ASSUME TypeInv, SourceInv, SingleFetcher, KeptInv, NEW s \in Syncer,
           PersistCursor(s)
    PROVE  KeptInv'
<1> DEFINE t == sync[s]
<1>0. /\ sync \in [Syncer -> SyncState] /\ t.pc = "persist" /\ t.cur \in Nat
      /\ furthest \in Nat /\ \A r \in Syncer : sync[r].cur \in Nat
  BY DEF TypeInv, TypeOK, SyncState, PersistCursor
<1>1. [Next]_vars
  BY DEF Next, SyncStep
<1>2. /\ cursor' = t.cur /\ furthest' \in {furthest, t.cur} /\ furthest <= furthest'
      /\ furthest' \in Nat
      /\ sync'[s].pc = "unlock" /\ sync'[s].cur = t.cur
      /\ \A r \in Syncer \ {s} : sync'[r] = sync[r]
  BY <1>0 DEF PersistCursor, NextCursor, SyncState
<1>3. t.pc \in Holding
  BY <1>0 DEF Holding, Fetching
<1>4. Behind(furthest)'
  BY <1>1, <1>2, <1>3, SecuredStays DEF Behind
<1>5. Following(sync[s])'
  <2>1. \A k \in 1..sync'[s].cur : Secured(k)'
    BY <1>1, <1>2, <1>3, SecuredStays
  <2>2. QED
    BY <1>2, <2>1 DEF Following, Behind, PageDone, Ahead, Holding, Fetching, Staging
<1>6. ASSUME NEW r \in Syncer \ {s}
      PROVE  Following(sync[r])'
  <2>1. sync[r].pc \notin Holding /\ sync'[r] = sync[r]
    BY <1>2, <1>3 DEF SingleFetcher
  <2>2. sync[r].cur <= furthest'
    BY <1>0, <1>2, <2>1 DEF KeptInv, Following, Ahead
  <2>3. sync[r].pc \notin Staging
    BY <2>1 DEF Holding, Fetching, Staging
  <2>4. QED
    BY <2>1, <2>2, <2>3 DEF Following, PageDone, Ahead
<1>7. QED
  BY <1>4, <1>5, <1>6 DEF KeptInv

LEMMA StepKept ==
    ASSUME TypeInv, SourceInv, SingleFetcher, KeptInv, [Next]_vars
    PROVE  KeptInv'
<1>1. ASSUME furthest' = furthest
      PROVE  Behind(furthest)'
  BY <1>1, SecuredStays DEF Behind
<1>2. ASSUME NEW s \in Syncer, ReadItem(s) \/ SyncStep(s) \/ SyncFault(s)
      PROVE  KeptInv'
  <2>1. CASE PersistCursor(s)
    BY <2>1, PersistFollows
  <2>2. CASE ~PersistCursor(s)
    <3>1. furthest' = furthest
      BY <1>2, <2>2 DEF ReadItem, SyncStep, SyncFault, TryLock, SkipFetch, FetchPage,
         FetchNothing, StageFresh, CheckPredecessor, DropReplaced, ReadDismissed,
         StageSuccessor, DropZeroed, ApplyRemoved, Unlock, ServeSuggestions, progress
    <3>2. Following(sync[s])'
      BY <1>2, <2>2, SyncFollows
    <3>3. ASSUME NEW r \in Syncer \ {s}
          PROVE  Following(sync[r])'
      <4>1. sync'[r] = sync[r]
        BY <1>2, SyncKeepsPage
      <4>2. QED
        BY <3>1, <4>1, FollowingStays
    <3>4. QED
      BY <1>1, <3>1, <3>2, <3>3 DEF KeptInv
  <2>3. QED
    BY <2>1, <2>2
<1>3. ASSUME sync' = sync, furthest' = furthest
      PROVE  KeptInv'
  BY <1>1, <1>3, FollowingStays DEF KeptInv
<1>4. CASE Crash
  <2>1. furthest' = furthest /\ \A s \in Syncer : sync'[s] = NoSync
    BY <1>4 DEF Crash, progress
  <2>2. 0 <= furthest
    BY DEF TypeInv, TypeOK
  <2>3. \A s \in Syncer : Following(sync[s])'
    BY <2>1, <2>2
    DEF Following, PageDone, Ahead, NoSync, Emptied, Holding, Fetching, Staging
  <2>4. QED
    BY <1>1, <2>1, <2>3 DEF KeptInv
<1>5. ASSUME NEW i \in Importer, ReadStaged(i) \/ ImportStep(i)
      PROVE  sync' = sync /\ furthest' = furthest
  BY <1>5 DEF ReadStaged, ImportStep, SkipImported, PassDedupe, CheckPending,
              CreateTransaction, DuplicateViolation, FailRow, DeleteStaged,
              DeleteStagedFails, ImportFrame, progress
<1>6. Publish \/ (\E id \in Txn : UserStep(id)) \/ UNCHANGED vars =>
          sync' = sync /\ furthest' = furthest
  BY DEF Publish, UserStep, Dismiss, EditBook, vars, progress
<1>7. QED
  BY <1>2, <1>3, <1>4, <1>5, <1>6 DEF Next

LEMMA InitKept == Init => KeptInv
<1> SUFFICES ASSUME Init PROVE KeptInv
  OBVIOUS
<1>1. Behind(furthest)
  BY DEF Init, Behind
<1>2. \A s \in Syncer : Following(sync[s])
  BY DEF Init, Following, PageDone, Ahead, NoSync, Emptied, Holding, Fetching, Staging
<1>3. QED
  BY <1>1, <1>2 DEF KeptInv

LEMMA KeptAlways == Spec => []KeptInv
BY InitKept, StepKept, TypesAlways, SourcesAlways, LockProtects, PTL DEF Spec

(* Whatever fails, crashes or runs at the same time: what the bank has     *)
(* reported behind the persisted cursor, and no later page and no page     *)
(* that a late sync applied again has taken back, is staged or settled.    *)
THEOREM NoneLost == Spec => []NothingLost
<1>1. ASSUME TypeInv, KeptInv
      PROVE  NothingLost
  <2>1. ASSUME NEW k \in 1..cursor, NEW id \in Txn, Standing(k, id)
        PROVE  Kept(id)
    <3>1. k \in 1..furthest
      BY <1>1, <2>1 DEF TypeInv, TypeOK
    <3>2. QED
      BY <1>1, <2>1, <3>1 DEF KeptInv, Behind, Secured
  <2>2. QED
    BY <2>1 DEF NothingLost, Owed
<1>2. QED
  BY <1>1, TypesAlways, KeptAlways, PTL

(* The copy of the cursor that is read before the lock is the only reason  *)
(* for a replay: with one Sync at a time the persisted cursor never goes   *)
(* back and no page is fetched from behind it, so that NothingLost speaks  *)
(* of everything the bank has not taken back since.                        *)
OneSync(s) ==
    /\ furthest = cursor /\ replayed = {}
    /\ sync[s].pc \in Fetching \cup {"lock"} => cursor <= sync[s].cur

LEMMA OneSyncStep ==
    ASSUME TypeInv, NEW s, Syncer = {s}, OneSync(s), [Next]_vars
    PROVE  OneSync(s)' /\ cursor' >= cursor
<1>0. /\ sync \in [Syncer -> SyncState] /\ s \in Syncer /\ sync[s].cur \in Nat
      /\ cursor \in Nat /\ furthest \in Nat
  BY DEF TypeInv, TypeOK, SyncState
<1>1. ASSUME ReadItem(s) \/ SyncStep(s) \/ SyncFault(s)
      PROVE  OneSync(s)' /\ cursor' >= cursor
  <2>1. CASE PersistCursor(s)
    BY <1>0, <2>1 DEF PersistCursor, NextCursor, OneSync, SyncState, Fetching
  <2>2. CASE FetchPage(s)
    BY <1>0, <2>2 DEF FetchPage, OneSync, SyncState, Fetching
  <2>3. CASE ~PersistCursor(s) /\ ~FetchPage(s)
    <3>1. UNCHANGED <<cursor, furthest, replayed>>
      BY <1>1, <2>3 DEF ReadItem, SyncStep, SyncFault, TryLock, SkipFetch,
         FetchNothing, StageFresh, CheckPredecessor, DropReplaced, ReadDismissed,
         StageSuccessor, DropZeroed, ApplyRemoved, Unlock, ServeSuggestions, progress
    <3>2. \/ sync'[s].pc \notin Fetching \cup {"lock"}
          \/ sync'[s].cur = cursor
          \/ /\ sync[s].pc \in Fetching \cup {"lock"}
             /\ sync'[s].cur \in {sync[s].cur, sync[s].cur + 1}
      <4>1. CASE StageFresh(s) \/ DropZeroed(s)
        <5>1. PICK e \in sync[s].todo : sync' = [sync EXCEPT ![s].todo = @ \ {e}]
          BY <4>1 DEF StageFresh, DropZeroed
        <5>2. sync'[s].cur = sync[s].cur /\ sync[s].pc = "stage"
          BY <1>0, <4>1, <5>1 DEF StageFresh, DropZeroed, SyncState
        <5>3. QED
          BY <5>2 DEF Fetching
      <4>2. CASE CheckPredecessor(s)
        <5>1. PICK e \in sync[s].todo, l \in {"drop", "inherit"} :
                  sync' = [sync EXCEPT ![s].ent = e, ![s].pc = l]
          BY <4>2 DEF CheckPredecessor
        <5>2. sync'[s].cur = sync[s].cur /\ sync[s].pc = "stage"
          BY <1>0, <4>2, <5>1 DEF CheckPredecessor, SyncState
        <5>3. QED
          BY <5>2 DEF Fetching
      <4>3. CASE ReadItem(s) \/ TryLock(s) \/ SkipFetch(s) \/ FetchNothing(s)
                 \/ ReadDismissed(s) \/ ApplyRemoved(s)
        BY <1>0, <4>3 DEF ReadItem, TryLock, SkipFetch, FetchNothing,
           ReadDismissed, ApplyRemoved, SyncState, Fetching
      <4>4. CASE DropReplaced(s) \/ StageSuccessor(s)
        BY <1>0, <4>4 DEF DropReplaced, StageSuccessor, Treated, SyncState, Fetching
      <4>5. CASE Unlock(s) \/ ServeSuggestions(s) \/ SyncFault(s)
        BY <1>0, <4>5 DEF Unlock, ServeSuggestions, SyncFault, AfterFault, NoSync,
           Emptied, SyncState, Fetching
      <4>6. QED
        BY <1>1, <2>3, <4>1, <4>2, <4>3, <4>4, <4>5 DEF SyncStep
    <3>3. QED
      BY <1>0, <3>1, <3>2 DEF OneSync
  <2>4. QED
    BY <2>1, <2>2, <2>3
<1>2. CASE Crash
  BY <1>0, <1>2 DEF Crash, OneSync, progress, NoSync, Emptied, Fetching
<1>3. ASSUME NEW i \in Importer, ReadStaged(i) \/ ImportStep(i)
      PROVE  UNCHANGED <<progress, sync>>
  BY <1>3 DEF ReadStaged, ImportStep, SkipImported, PassDedupe, CheckPending,
              CreateTransaction, DuplicateViolation, FailRow, DeleteStaged,
              DeleteStagedFails, ImportFrame
<1>4. Publish \/ (\E id \in Txn : UserStep(id)) \/ UNCHANGED vars =>
          UNCHANGED <<progress, sync>>
  BY DEF Publish, UserStep, Dismiss, EditBook, vars
<1>5. UNCHANGED <<progress, sync>> => OneSync(s)' /\ cursor' >= cursor
  BY <1>0 DEF progress, OneSync
<1>6. QED
  BY <1>0, <1>1, <1>2, <1>3, <1>4, <1>5 DEF Next

(* One Sync at a time never replays a page that is behind the cursor.      *)
THEOREM OneSyncNeverReplays ==
    ASSUME NEW s, Syncer = {s}
    PROVE  Spec => [](replayed = {}) /\ CursorNeverRegresses
<1>1. Init => OneSync(s)
  BY DEF Init, OneSync, NoSync, Emptied, Fetching
<1>2. TypeInv /\ OneSync(s) /\ [Next]_vars => OneSync(s)' /\ [cursor' >= cursor]_vars
  BY OneSyncStep
<1>3. OneSync(s) => replayed = {}
  BY DEF OneSync
<1>4. QED
  BY <1>1, <1>2, <1>3, TypesAlways, PTL DEF Spec, CursorNeverRegresses
-----------------------------------------------------------------------------
(* The refinement of OfferPromise.  A row is dismissed because the user    *)
(* dismissed it or the pending one it replaces, and a Sync that is about   *)
(* to hand a dismissal on has seen one.                                    *)

DismissalsKnown ==
    \A id \in Txn : Dismissed(id) =>
        ({id} \cup Predecessors(id)) \cap everDismissed # {}

Inherits(t) ==
    t.pc = "upsert" /\ t.inherit => t.ent.pend \in everDismissed

KnownInv == DismissalsKnown /\ \A s \in Syncer : Inherits(sync[s])

LEMMA PublishedEntries ==
    ASSUME TypeInv
    PROVE  /\ Published \subseteq Entries
           /\ Published \subseteq Entry
<1>1. published \in 0..Len(Feed) /\ Len(Feed) \in Nat
  BY ConstantsAssumption DEF TypeInv, TypeOK
<1>2. \A k \in 1..published : k \in 1..Len(Feed) /\ Feed[k] \in Page
  BY <1>1, ConstantsAssumption
<1>3. QED
  BY <1>2 DEF Published, Entries, Page

LEMMA NoGrandparents ==
    ASSUME TypeInv, PendingFirst, NEW e \in Published
    PROVE  Predecessors(e.pend) = {}
BY PublishedEntries DEF PendingFirst, Predecessors

LEMMA KnownStays ==
    ASSUME NEW id, Published \subseteq Published', everDismissed \subseteq everDismissed',
           ({id} \cup Predecessors(id)) \cap everDismissed # {}
    PROVE  (({id} \cup Predecessors(id)) \cap everDismissed # {})'
<1>1. Predecessors(id) \subseteq Predecessors(id)'
  BY DEF Predecessors
<1>2. QED
  BY <1>1

(* What a row's dismissal comes from. *)
LEMMA DismissalComes ==
    ASSUME TypeInv, SourceInv, KnownInv, [Next]_vars, NEW id \in Txn,
           Dismissed(id)', ~Dismissed(id)
    PROVE  \/ Dismiss(id)
           \/ \E s \in Syncer : /\ StageSuccessor(s) /\ sync[s].inherit
                                /\ sync[s].ent.id = id
<1>0. staged \in [Txn -> Row \cup {NoRow}] /\ NoRow \notin Row
  BY SentinelAssumption DEF TypeInv, TypeOK
<1>1. staged'[id] # staged[id]
  BY DEF Dismissed
<1>2. ASSUME NEW e \in Entry, NEW d \in BOOLEAN, staged' = Upserted(e, d)
      PROVE  e.id = id /\ d = TRUE
  <2>1. e.id = id
    BY <1>0, <1>1, <1>2 DEF Upserted
  <2>2. PICK b : b = (Dismissed(id) \/ d)
    OBVIOUS
  <2>3. staged'[id].dismissed = b
    BY <1>0, <1>2, <2>1, <2>2 DEF Upserted
  <2>4. b
    BY <2>3 DEF Dismissed
  <2>5. QED
    BY <2>1, <2>2, <2>4
<1>3. ASSUME NEW ids, staged' = Without(ids)
      PROVE  FALSE
  <2>1. staged'[id] = NoRow
    BY <1>1, <1>3 DEF Without
  <2>2. QED
    BY <2>1 DEF Dismissed
<1>4. ASSUME NEW s \in Syncer, ReadItem(s) \/ SyncStep(s) \/ SyncFault(s)
      PROVE  StageSuccessor(s) /\ sync[s].inherit /\ sync[s].ent.id = id
  <2>1. CASE StageFresh(s)
    <3>1. PICK e \in sync[s].todo : staged' = Upserted(e, FALSE)
      BY <2>1 DEF StageFresh
    <3>2. e \in Entry
      BY <3>1 DEF TypeInv, TypeOK, SyncState
    <3>3. QED
      BY <1>2, <3>1, <3>2
  <2>2. CASE StageSuccessor(s)
    <3>1. /\ sync[s].ent \in Entry /\ sync[s].inherit \in BOOLEAN
          /\ staged' = Upserted(sync[s].ent, sync[s].inherit)
      BY <2>2 DEF StageSuccessor, TypeInv, TypeOK, SyncState, SyncBounds, Bounded
    <3>2. QED
      BY <1>2, <2>2, <3>1
  <2>3. CASE DropReplaced(s) \/ DropZeroed(s) \/ ApplyRemoved(s)
    BY <1>3, <2>3 DEF DropReplaced, DropZeroed, ApplyRemoved, WithoutUndismissed
  <2>4. CASE ~StageFresh(s) /\ ~StageSuccessor(s) /\ ~DropReplaced(s)
             /\ ~DropZeroed(s) /\ ~ApplyRemoved(s)
    BY <1>1, <1>4, <2>4 DEF ReadItem, SyncStep, SyncFault, TryLock, SkipFetch,
       FetchPage, FetchNothing, CheckPredecessor, ReadDismissed, PersistCursor,
       Unlock, ServeSuggestions
  <2>5. QED
    BY <2>1, <2>2, <2>3, <2>4
<1>5. ASSUME NEW i \in Importer, ReadStaged(i) \/ ImportStep(i)
      PROVE  FALSE
  BY <1>1, <1>3, <1>5 DEF ReadStaged, ImportStep, SkipImported, PassDedupe,
     CheckPending, CreateTransaction, DuplicateViolation, FailRow, DeleteStaged,
     DeleteStagedFails
<1>6. ASSUME NEW j \in Txn, UserStep(j)
      PROVE  Dismiss(id)
  <2>1. Dismiss(j)
    BY <1>1, <1>6 DEF UserStep, EditBook
  <2>2. j = id
    BY <1>0, <1>1, <2>1 DEF Dismiss
  <2>3. QED
    BY <2>1, <2>2
<1>7. ~Publish /\ ~Crash /\ ~(UNCHANGED vars)
  BY <1>1 DEF Publish, Crash, vars
<1>8. QED
  BY <1>4, <1>5, <1>6, <1>7 DEF Next

LEMMA DismissalsStayKnown ==
    ASSUME TypeInv, SourceInv, KnownInv, [Next]_vars
    PROVE  DismissalsKnown'
<1>1. /\ Published \subseteq Published' /\ everDismissed \subseteq everDismissed'
  BY HistoryGrows
<1>2. ASSUME NEW id \in Txn, Dismissed(id)'
      PROVE  (({id} \cup Predecessors(id)) \cap everDismissed # {})'
  <2>1. CASE Dismissed(id)
    BY <1>1, <2>1, KnownStays DEF KnownInv, DismissalsKnown
  <2>2. CASE Dismiss(id)
    BY <2>2 DEF Dismiss
  <2>3. ASSUME NEW s \in Syncer, StageSuccessor(s), sync[s].inherit,
               sync[s].ent.id = id
        PROVE  (({id} \cup Predecessors(id)) \cap everDismissed # {})'
    <3>1. /\ sync[s].pc = "upsert" /\ sync[s].pc \in Staging
          /\ sync[s].pc \in Handling
      BY <2>3 DEF StageSuccessor, Staging, Handling
    <3>2. /\ sync[s].ent \in Published /\ sync[s].ent.pend \in Txn
          /\ sync[s].ent.pend \in everDismissed
      BY <2>3, <3>1, PagePublished
      DEF SourceInv, PagesInHand, PageInHand, KnownInv, Inherits
    <3>3. sync[s].ent.pend \in Predecessors(id)
      BY <2>3, <3>2, SentinelAssumption DEF Predecessors
    <3>4. QED
      BY <1>1, <3>2, <3>3, KnownStays
  <2>4. QED
    BY <1>2, <2>1, <2>2, <2>3, DismissalComes
<1>3. QED
  BY <1>2 DEF DismissalsKnown

LEMMA SyncStaysInheriting ==
    ASSUME TypeInv, SourceInv, KnownInv, PendingFirst, NEW s \in Syncer,
           ReadItem(s) \/ SyncStep(s) \/ SyncFault(s)
    PROVE  Inherits(sync'[s])
<1>0. sync \in [Syncer -> SyncState]
  BY DEF TypeInv, TypeOK
<1>1. CASE ReadDismissed(s)
  <2>1. PICK e : e = sync[s].ent
    OBVIOUS
  <2>2. /\ sync[s].pc \in Staging /\ sync[s].pc \in Handling
    BY <1>1 DEF ReadDismissed, Staging, Handling
  <2>3. e \in Published /\ e.pend \in Txn
    BY <2>1, <2>2, PagePublished DEF SourceInv, PagesInHand, PageInHand
  <2>4. sync'[s].inherit = Dismissed(e.pend) /\ sync'[s].ent = e
    BY <1>0, <1>1, <2>1 DEF ReadDismissed, SyncState
  <2>5. Dismissed(e.pend) => e.pend \in everDismissed
    BY <2>3, NoGrandparents DEF KnownInv, DismissalsKnown
  <2>6. QED
    BY <2>4, <2>5 DEF Inherits
<1>2. ASSUME ~ReadDismissed(s)
      PROVE  sync'[s].pc # "upsert"
  <2>1. CASE StageFresh(s) \/ DropZeroed(s)
    <3>1. PICK e \in sync[s].todo : sync' = [sync EXCEPT ![s].todo = @ \ {e}]
      BY <2>1 DEF StageFresh, DropZeroed
    <3>2. QED
      BY <1>0, <2>1, <3>1 DEF StageFresh, DropZeroed, SyncState
  <2>2. CASE CheckPredecessor(s)
    <3>1. PICK e \in sync[s].todo, l \in {"drop", "inherit"} :
              sync' = [sync EXCEPT ![s].ent = e, ![s].pc = l]
      BY <2>2 DEF CheckPredecessor
    <3>2. QED
      BY <1>0, <3>1 DEF SyncState
  <2>3. CASE ~StageFresh(s) /\ ~DropZeroed(s) /\ ~CheckPredecessor(s)
    BY <1>0, <1>2, <2>3 DEF ReadItem, SyncStep, SyncFault, TryLock, SkipFetch,
       FetchPage, FetchNothing, DropReplaced, StageSuccessor, ApplyRemoved,
       PersistCursor, Unlock, ServeSuggestions, AfterFault, Treated, NoSync,
       Emptied, SyncState
  <2>4. QED
    BY <2>1, <2>2, <2>3
<1>3. QED
  BY <1>1, <1>2 DEF Inherits

LEMMA StepKnown ==
    ASSUME TypeInv, SourceInv, KnownInv, PendingFirst, [Next]_vars
    PROVE  KnownInv'
<1>1. everDismissed \subseteq everDismissed'
  BY HistoryGrows
<1>2. ASSUME NEW r \in Syncer, sync'[r] = sync[r]
      PROVE  Inherits(sync[r])'
  BY <1>1, <1>2 DEF KnownInv, Inherits
<1>3. ASSUME NEW s \in Syncer, ReadItem(s) \/ SyncStep(s) \/ SyncFault(s)
      PROVE  \A r \in Syncer : Inherits(sync[r])'
  <2>1. \A r \in Syncer \ {s} : sync'[r] = sync[r]
    BY <1>3, SyncKeepsPage
  <2>2. Inherits(sync'[s])
    BY <1>3, SyncStaysInheriting
  <2>3. Inherits(sync[s])'
    BY <1>1, <2>2 DEF Inherits
  <2>4. QED
    BY <1>2, <2>1, <2>3
<1>4. CASE Crash
  <2>1. \A r \in Syncer : sync'[r].pc = "idle"
    BY <1>4 DEF Crash, NoSync, Emptied
  <2>2. \A r \in Syncer : Inherits(sync[r])'
    BY <2>1 DEF Inherits
  <2>3. QED
    BY <2>2, DismissalsStayKnown DEF KnownInv
<1>5. ASSUME NEW i \in Importer, ReadStaged(i) \/ ImportStep(i)
      PROVE  sync' = sync
  BY <1>5 DEF ReadStaged, ImportStep, SkipImported, PassDedupe, CheckPending,
              CreateTransaction, DuplicateViolation, FailRow, DeleteStaged,
              DeleteStagedFails, ImportFrame
<1>6. Publish \/ (\E id \in Txn : UserStep(id)) \/ UNCHANGED vars => sync' = sync
  BY DEF Publish, UserStep, Dismiss, EditBook, vars
<1>7. \A r \in Syncer : Inherits(sync[r])'
  BY <1>2, <1>3, <1>4, <1>5, <1>6 DEF Next, KnownInv
<1>8. QED
  BY <1>7, DismissalsStayKnown DEF KnownInv

LEMMA InitKnown == Init => KnownInv
BY DEF Init, KnownInv, DismissalsKnown, Dismissed, Inherits, NoSync, Emptied

(* What the promise reads of the bank changes with the pages only. *)
LEMMA BankStays ==
    ASSUME published' = published
    PROVE  /\ Reports' = Reports /\ Withdrawals' = Withdrawals
           /\ Published' = Published
BY DEF Reports, Withdrawals, Published

LEMMA OffersStay ==
    ASSUME staged' = staged, book' = book
    PROVE  Offers' = Offers /\ Bookings' = Bookings
BY DEF Offers, Visible, Bookings, Booked, Imported, ValueMatches

LEMMA OfferStays ==
    ASSUME NEW id, staged'[id] = staged[id], book' = book
    PROVE  Visible(id)' <=> Visible(id)
BY DEF Visible, Imported, ValueMatches

(* A row is of an entry the bank has reported. *)
LEMMA RowReported ==
    ASSUME TypeInv, NEW id \in Txn, NEW row, FromBank(id, row)
    PROVE  /\ row.amt \in Amount /\ <<id, row.amt>> \in Reports
           /\ <<id, row.pend>> \in Successions
<1>1. PICK e \in Published : /\ e.id = id /\ e.amt = row.amt
                            /\ e.pend = row.pend
  BY DEF FromBank
<1>2. e \in Entry /\ e \in Entries
  BY PublishedEntries
<1>3. QED
  BY <1>1, <1>2 DEF Reports, Successions, Entry

LEMMA SettledIsExcused ==
    ASSUME TypeInv, NEW id \in Txn
    PROVE  /\ SettledByImport(id) => Promise!Excused(id)
           /\ ({id} \cup Predecessors(id)) \cap everDismissed # {} =>
                  Promise!Excused(id)
           /\ \A k \in 1..published : Retracted(k, id) => Promise!Excused(id)
<1>1. Predecessors(id) \subseteq Promise!Pending(id)
  <2>1. ASSUME NEW pre \in Predecessors(id)
        PROVE  pre \in Txn /\ <<id, pre>> \in Successions
    <3>1. PICK e \in Published : e.id = id /\ e.pend = pre /\ pre # NoTxn
      BY DEF Predecessors
    <3>2. e \in Entry /\ e \in Entries
      BY PublishedEntries
    <3>3. QED
      BY <3>1, <3>2 DEF Successions, Entry
  <2>2. QED
    BY <2>1 DEF Promise!Pending
<1>2. QED
  BY <1>1 DEF Promise!Excused, SettledByImport, Withdrawals

(* Offers that only go, each for a reason. *)
LEMMA Withdrawn ==
    ASSUME UNCHANGED <<published, book, hist>>, Offers' \subseteq Offers,
           \A id \in Offers \ Offers' : Promise!Excused(id)
    PROVE  [Promise!Next]_(Promise!promise)
<1>1. /\ Reports' = Reports /\ Withdrawals' = Withdrawals /\ Bookings' = Bookings
      /\ everBooked' = everBooked /\ everDismissed' = everDismissed
  BY BankStays DEF Bookings, Booked, Imported, hist
<1> DEFINE ids == Offers \ Offers'
<1>2. CASE ids = {}
  BY <1>1, <1>2 DEF Promise!promise
<1>3. CASE ids # {}
  <2>1. Offers' = Offers \ ids /\ ids \in SUBSET Txn
    BY DEF Offers
  <2>2. Promise!Withdraw(ids)
    BY <1>1, <1>3, <2>1 DEF Promise!Withdraw
  <2>3. QED
    BY <2>1, <2>2 DEF Promise!Next
<1>4. QED
  BY <1>2, <1>3

LEMMA CleanedIsWithdrawn ==
    ASSUME TypeInv, UNCHANGED <<published, book, hist>>, Cleaned
    PROVE  [Promise!Next]_(Promise!promise)
<1>1. PICK ids : /\ staged' = Without(ids)
                 /\ \A id \in ids \cap Txn : SettledByImport(id)
  BY DEF Cleaned
<1>2. ASSUME NEW id \in Txn
      PROVE  /\ Visible(id)' => Visible(id)
             /\ Visible(id) /\ ~Visible(id)' => Promise!Excused(id)
  <2>1. CASE id \in ids
    <3>1. staged'[id] = NoRow
      BY <1>1, <2>1 DEF Without
    <3>2. QED
      BY <1>1, <2>1, <3>1, SettledIsExcused DEF Visible
  <2>2. CASE id \notin ids
    <3>1. staged'[id] = staged[id]
      BY <1>1, <2>2 DEF Without
    <3>2. QED
      BY <3>1, OfferStays
  <2>3. QED
    BY <2>1, <2>2
<1>3. Offers' \subseteq Offers /\ \A id \in Offers \ Offers' : Promise!Excused(id)
  BY <1>2 DEF Offers
<1>4. QED
  BY <1>3, Withdrawn

LEMMA TakenBackIsWithdrawn ==
    ASSUME TypeInv, NEW s \in Syncer, UNCHANGED <<published, book, hist>>,
           TakenBack(s)
    PROVE  [Promise!Next]_(Promise!promise)
<1>1. PICK k : k = sync[s].cur + 1
  OBVIOUS
<1>2. k \in 1..published
  BY <1>1, PagePublished DEF TakenBack, Staging
<1>3. PICK ids : /\ staged' = WithoutUndismissed(ids)
                 /\ \A id \in ids \cap Txn : Retracted(k, id)
  BY <1>1 DEF TakenBack
<1>4. ASSUME NEW id \in Txn
      PROVE  /\ Visible(id)' => Visible(id)
             /\ Visible(id) /\ ~Visible(id)' => Promise!Excused(id)
  <2>1. CASE staged'[id] = staged[id]
    BY <2>1, OfferStays
  <2>2. CASE staged'[id] # staged[id]
    <3>1. id \in ids /\ staged'[id] = NoRow
      BY <1>3, <2>2 DEF WithoutUndismissed, Without
    <3>2. QED
      BY <1>2, <1>3, <3>1, SettledIsExcused DEF Visible
  <2>3. QED
    BY <2>1, <2>2
<1>5. Offers' \subseteq Offers /\ \A id \in Offers \ Offers' : Promise!Excused(id)
  BY <1>4 DEF Offers
<1>6. QED
  BY <1>5, Withdrawn

LEMMA RestagedKeepsPromise ==
    ASSUME TypeInv, SourceInv, DismissalsKnown', ImportPending \/ StatusKept,
           UNCHANGED <<published, book, hist>>, Restaged
    PROVE  [Promise!Next]_(Promise!promise)
<1>0. /\ staged \in [Txn -> Row \cup {NoRow}] /\ NoRow \notin Row
      /\ Reports' = Reports /\ Withdrawals' = Withdrawals /\ Published' = Published
      /\ Bookings' = Bookings /\ everBooked' = everBooked
      /\ everDismissed' = everDismissed
  BY SentinelAssumption, BankStays
  DEF TypeInv, TypeOK, Bookings, Booked, Imported, hist
<1>1. PICK e \in Published \cap Entry, d \in BOOLEAN :
          e.amt # 0 /\ staged' = Upserted(e, d)
  BY DEF Restaged
<1>2. PICK x : x = e.id
  OBVIOUS
<1>3. x \in Txn /\ e.amt \in Amount /\ e.pend \in Txn \cup {NoTxn}
      /\ e.pending \in BOOLEAN
  BY <1>1, <1>2 DEF Entry
<1>4. /\ staged'[x] # NoRow /\ staged'[x].pending = e.pending
      /\ staged'[x].pend = e.pend /\ staged'[x].amt = e.amt
  <2>1. PICK b \in BOOLEAN : b = (Dismissed(x) \/ d)
    OBVIOUS
  <2>2. staged'[x] = [amt |-> e.amt, pend |-> e.pend, pending |-> e.pending,
                      dismissed |-> b]
    BY <1>0, <1>1, <1>2, <1>3, <2>1 DEF Upserted
  <2>3. [amt |-> e.amt, pend |-> e.pend, pending |-> e.pending,
         dismissed |-> b] \in Row
    BY <1>3 DEF Row
  <2>4. QED
    BY <1>0, <2>2, <2>3
<1>5. \A id \in Txn \ {x} : Visible(id)' <=> Visible(id)
  <2>1. \A id \in Txn \ {x} : staged'[id] = staged[id]
    BY <1>0, <1>1, <1>2 DEF Upserted
  <2>2. QED
    BY <2>1, OfferStays
<1>6. CASE Visible(x)' /\ ~Visible(x)
  <2>1. Offers' = Offers \cup {x}
    BY <1>3, <1>5, <1>6 DEF Offers
  <2>2. <<x, e.amt>> \in Reports
    BY <1>1, <1>2 DEF Reports
  <2>3. Bookings[x] = NoAmount
    BY <1>3, <1>6 DEF Visible, Imported, Bookings, Booked
  <2>4. Promise!Offer(x)
    BY <1>0, <1>3, <2>1, <2>2, <2>3 DEF Promise!Offer
  <2>5. QED
    BY <1>3, <2>4 DEF Promise!Next
<1>7. CASE Visible(x) /\ ~Visible(x)'
  <2>1. Offers' \subseteq Offers /\ Offers \ Offers' = {x}
    BY <1>3, <1>5, <1>7 DEF Offers
  <2>2. CASE Dismissed(x)'
    <3>1. ({x} \cup Predecessors(x)) \cap everDismissed # {}
      BY <1>0, <1>3, <2>2 DEF DismissalsKnown, Predecessors
    <3>2. QED
      BY <1>3, <2>1, <3>1, SettledIsExcused, Withdrawn
  <2>3. CASE ~ImportPending /\ e.pending
    <3>1. PICK f \in Published : f.id = x /\ f.pending = staged[x].pending
      BY <1>3, <1>7 DEF Visible, SourceInv, SourcedRows, FromBank
    <3>2. ~f.pending
      BY <1>7, <2>3, <3>1 DEF Visible
    <3>3. e \in Entries /\ f \in Entries
      BY <1>1, <3>1, PublishedEntries
    <3>4. QED
      BY <1>2, <2>3, <3>1, <3>2, <3>3 DEF StatusKept
  <2>4. CASE e.pend # NoTxn /\ ValueMatches(e.pend, e.amt)
    <3>1. e.pend \in everBooked /\ e.pend \in Predecessors(x)
      BY <1>1, <1>2, <1>3, <2>4, MatchedIsBooked DEF SourceInv, Predecessors
    <3>2. SettledByImport(x)
      BY <3>1 DEF SettledByImport
    <3>3. QED
      BY <1>3, <2>1, <3>2, SettledIsExcused, Withdrawn
  <2>5. QED
    BY <1>4, <1>7, <2>2, <2>3, <2>4 DEF Visible, Dismissed, Imported, ValueMatches
<1>8. CASE Visible(x)' <=> Visible(x)
  <2>1. Offers' = Offers
    BY <1>5, <1>8 DEF Offers
  <2>2. QED
    BY <1>0, <2>1 DEF Promise!promise
<1>9. QED
  BY <1>6, <1>7, <1>8

LEMMA SyncKeepsPromised ==
    ASSUME TypeInv, SourceInv, KnownInv', ImportPending \/ StatusKept,
           NEW s \in Syncer, ReadItem(s) \/ SyncStep(s) \/ SyncFault(s)
    PROVE  [Promise!Next]_(Promise!promise)
<1>1. UNCHANGED <<published, book, hist>>
  BY DEF ReadItem, SyncStep, SyncFault, TryLock, SkipFetch, FetchPage, FetchNothing,
         StageFresh, CheckPredecessor, DropReplaced, ReadDismissed, StageSuccessor,
         DropZeroed, ApplyRemoved, PersistCursor, Unlock, ServeSuggestions, SyncFrame
<1>2. CASE staged' = staged
  BY <1>1, <1>2, OffersStay, Withdrawn
<1>3. CASE Restaged
  BY <1>1, <1>3, RestagedKeepsPromise DEF KnownInv
<1>4. CASE Cleaned
  BY <1>1, <1>4, CleanedIsWithdrawn
<1>5. CASE TakenBack(s)
  BY <1>1, <1>5, TakenBackIsWithdrawn
<1>6. QED
  BY <1>2, <1>3, <1>4, <1>5, SyncChangesRows

LEMMA DismissKeepsPromise ==
    ASSUME TypeInv, NEW id \in Txn, Dismiss(id)
    PROVE  Promise!Dismiss(id)
<1>0. /\ staged \in [Txn -> Row \cup {NoRow}] /\ staged[id] # NoRow
      /\ staged' = [staged EXCEPT ![id].dismissed = TRUE]
      /\ book' = book /\ published' = published /\ everBooked' = everBooked
      /\ everDismissed' = everDismissed \cup {id}
  BY DEF TypeInv, TypeOK, Dismiss
<1>1. ~Visible(id)'
  <2>1. /\ staged[id] \in Row
        /\ staged'[id] = [staged[id] EXCEPT !.dismissed = TRUE]
    BY <1>0
  <2>2. staged'[id].dismissed
    BY <2>1 DEF Row
  <2>3. QED
    BY <2>2 DEF Visible
<1>2. \A j \in Txn \ {id} : Visible(j)' <=> Visible(j)
  <2>1. \A j \in Txn \ {id} : staged'[j] = staged[j]
    BY <1>0
  <2>2. QED
    BY <1>0, <2>1, OfferStays
<1>3. Offers' = Offers \ {id}
  BY <1>1, <1>2 DEF Offers
<1>4. /\ Reports' = Reports /\ Withdrawals' = Withdrawals /\ Bookings' = Bookings
  BY <1>0, BankStays DEF Bookings, Booked, Imported
<1>5. QED
  BY <1>0, <1>3, <1>4 DEF Promise!Dismiss

(* An id whose row replaces none of these books is offered as before. *)
LEMMA OfferUntouched ==
    ASSUME NEW id \in Txn, NEW j \in Txn \ {id}, staged' = staged,
           staged[j] # NoRow => staged[j].pend # id,
           NEW seq, book \in [Txn -> Seq(Amount)],
           staged \in [Txn -> Row \cup {NoRow}],
           book' = [book EXCEPT ![id] = seq]
    PROVE  Visible(j)' <=> Visible(j)
<1>1. CASE staged[j] = NoRow
  BY <1>1 DEF Visible
<1>2. CASE staged[j] # NoRow
  <2>1. PICK p : p = staged[j].pend
    OBVIOUS
  <2>2. p # id /\ p \in Txn \cup {NoTxn}
    BY <1>2, <2>1 DEF Row
  <2>3. book'[j] = book[j] /\ (p # NoTxn => book'[p] = book[p])
    BY <2>2
  <2>4. staged'[j].pend = p /\ staged'[j] = staged[j]
    BY <2>1
  <2>5. Imported(j)' <=> Imported(j)
    BY <2>3 DEF Imported
  <2>6. ASSUME NEW a, p # NoTxn
        PROVE  ValueMatches(p, a)' <=> ValueMatches(p, a)
    BY <2>3, <2>6 DEF ValueMatches
  <2>7. PICK a : a = staged[j].amt
    OBVIOUS
  <2>8. Visible(j) <=>
            /\ staged[j] # NoRow /\ ~staged[j].dismissed
            /\ ImportPending \/ ~staged[j].pending
            /\ ~Imported(j) /\ (p # NoTxn => ~ValueMatches(p, a))
    BY <2>1, <2>7 DEF Visible
  <2>9. Visible(j)' <=>
            /\ staged'[j] # NoRow /\ ~staged'[j].dismissed
            /\ ImportPending \/ ~staged'[j].pending
            /\ ~Imported(j)' /\ (p # NoTxn => ~ValueMatches(p, a)')
    BY <2>4, <2>7 DEF Visible
  <2>10. QED
    BY <2>4, <2>5, <2>6, <2>8, <2>9
<1>3. QED
  BY <1>1, <1>2

LEMMA BookKeepsPromise ==
    ASSUME TypeInv, SourceInv, NEW i \in Importer, CreateTransaction(i)
    PROVE  Promise!Next
<1>1. PICK id \in Txn, row \in Row : id = imp[i].id /\ row = imp[i].row
  BY DEF CreateTransaction, TypeInv, ImportHolds
<1>2. FromBank(id, row)
  BY <1>1 DEF CreateTransaction, SourceInv, SourcedImports
<1>3. PICK a \in Amount : a = row.amt /\ <<id, a>> \in Reports
  BY <1>2, RowReported
<1>4. /\ staged' = staged /\ book[id] = <<>> /\ published' = published
      /\ book' = [book EXCEPT ![id] = <<a>>]
      /\ everBooked' = everBooked \cup {id} /\ everDismissed' = everDismissed
      /\ book \in [Txn -> Seq(Amount)] /\ staged \in [Txn -> Row \cup {NoRow}]
  <2>1. /\ staged' = staged /\ book[id] = <<>> /\ published' = published
        /\ book' = [book EXCEPT ![id] = Append(book[id], a)]
        /\ everBooked' = everBooked \cup {id} /\ everDismissed' = everDismissed
    BY <1>1, <1>3 DEF CreateTransaction, IndexAllows, Imported, ImportFrame
  <2>2. Append(book[id], a) = <<a>>
    BY <2>1
  <2>3. QED
    BY <2>1, <2>2 DEF TypeInv, TypeOK
<1>5. /\ Bookings[id] = NoAmount /\ Bookings' = [Bookings EXCEPT ![id] = a]
  <2>1. ASSUME NEW j \in Txn
        PROVE  Booked(j)' = IF j = id THEN a ELSE Booked(j)
    <3>1. <<a>> # <<>> /\ <<a>>[1] = a
      OBVIOUS
    <3>2. QED
      BY <1>4, <3>1 DEF Booked, Imported
  <2>2. QED
    BY <1>4, <2>1 DEF Bookings, Booked, Imported
<1> DEFINE gone == Offers \ (Offers' \cup {id})
<1>6. \A j \in Txn \ {id} : /\ Visible(j)' => Visible(j)
                            /\ Visible(j) /\ ~Visible(j)' =>
                                  id \in Promise!Pending(j)
  <2>1. ASSUME NEW j \in Txn \ {id}, staged[j] # NoRow, staged[j].pend = id
        PROVE  /\ Visible(j)' => Visible(j)
               /\ id \in Promise!Pending(j)
    <3>1. <<j, id>> \in Successions
      BY <2>1, RowReported DEF SourceInv, SourcedRows
    <3>2. ~ValueMatches(id, staged[j].amt)
      BY <1>4 DEF ValueMatches
    <3>3. book'[j] = book[j]
      BY <1>4
    <3>4. Visible(j)' => Visible(j)
      BY <1>4, <2>1, <3>2, <3>3 DEF Visible, Imported
    <3>5. QED
      BY <3>1, <3>4 DEF Promise!Pending
  <2>2. ASSUME NEW j \in Txn \ {id}, staged[j] # NoRow => staged[j].pend # id
        PROVE  Visible(j)' <=> Visible(j)
    <3>1. PICK seq : seq = <<a>>
      OBVIOUS
    <3>2. QED
      BY <1>4, <2>2, <3>1, OfferUntouched
  <2>3. QED
    BY <2>1, <2>2
<1>7. ~Visible(id)'
  <2>1. book'[id] = <<a>> /\ <<a>> # <<>>
    BY <1>4
  <2>2. QED
    BY <2>1 DEF Visible, Imported
<1>8. /\ gone \in SUBSET {j \in Txn : id \in Promise!Pending(j)}
      /\ Offers' = Offers \ ({id} \cup gone)
  BY <1>6, <1>7 DEF Offers
<1>9. Reports' = Reports /\ Withdrawals' = Withdrawals
  BY <1>4, BankStays
<1>10. Promise!Book(id, a)
  BY <1>3, <1>4, <1>5, <1>8, <1>9 DEF Promise!Book
<1>11. QED
  BY <1>10 DEF Promise!Next

LEMMA EditKeepsPromise ==
    ASSUME TypeInv, SourceInv, NEW id \in Txn, NEW amounts,
           amounts = <<>> \/ \E a \in Amount : amounts = <<a>>, EditBook(id, amounts)
    PROVE  Promise!Next
<1>1. /\ book[id] # <<>> /\ book' = [book EXCEPT ![id] = amounts]
      /\ staged' = staged /\ published' = published
      /\ everBooked' = everBooked /\ everDismissed' = everDismissed
      /\ book \in [Txn -> Seq(Amount)] /\ staged \in [Txn -> Row \cup {NoRow}]
  BY DEF EditBook, Imported, hist, TypeInv, TypeOK
<1>2. Bookings[id] # NoAmount
  <2>1. book[id][1] \in Amount
    BY <1>1
  <2>2. QED
    BY <1>1, <2>1, NoAmountAssumption DEF Bookings, Booked, Imported
<1>3. PICK a \in Amount \cup {NoAmount} :
          a = IF amounts = <<>> THEN NoAmount ELSE amounts[1]
  <2>1. ASSUME NEW b \in Amount, amounts = <<b>>
        PROVE  amounts # <<>> /\ amounts[1] \in Amount
    BY <2>1
  <2>2. QED
    BY <2>1
<1>4. Bookings' = [Bookings EXCEPT ![id] = a]
  BY <1>1, <1>3 DEF Bookings, Booked, Imported
<1> DEFINE touched == {j \in Txn : id \in {j} \cup Promise!Pending(j)}
           now     == Offers' \cap touched
<1>5. \A j \in Txn \ touched : Visible(j)' <=> Visible(j)
  <2>1. ASSUME NEW j \in Txn \ touched, staged[j] # NoRow
        PROVE  staged[j].pend # id
    <3>1. <<j, staged[j].pend>> \in Successions
      BY <2>1, RowReported DEF SourceInv, SourcedRows
    <3>2. QED
      BY <2>1, <3>1 DEF Promise!Pending
  <2>2. QED
    BY <1>1, <2>1, OfferUntouched
<1>6. Offers' = (Offers \ touched) \cup now /\ now \in SUBSET touched
  BY <1>5 DEF Offers
<1>7. ASSUME NEW j \in now
      PROVE  Bookings'[j] = NoAmount /\ \E b \in Amount : <<j, b>> \in Reports
  <2>1. j \in Txn /\ Visible(j)'
    BY <1>7 DEF Offers
  <2>2. ~Imported(j)' /\ staged[j] # NoRow
    BY <1>1, <2>1 DEF Visible
  <2>3. Bookings'[j] = NoAmount
    BY <2>1, <2>2 DEF Bookings, Booked
  <2>4. QED
    BY <2>1, <2>2, <2>3, RowReported DEF SourceInv, SourcedRows
<1>8. Reports' = Reports /\ Withdrawals' = Withdrawals
  BY <1>1, BankStays
<1>9. Promise!Rebook(id, a)
  BY <1>1, <1>2, <1>4, <1>6, <1>7, <1>8 DEF Promise!Rebook
<1>10. QED
  BY <1>3, <1>9 DEF Promise!Next

LEMMA PublishKeepsPromise ==
    ASSUME TypeInv, TypeInv', Publish
    PROVE  Promise!Bank
<1>1. /\ Offers' = Offers /\ Bookings' = Bookings
      /\ everBooked' = everBooked /\ everDismissed' = everDismissed
  BY OffersStay DEF Publish, hist
<1>2. 1..published \subseteq 1..published' /\ Published \subseteq Published'
  <2>1. published \in Nat /\ published' = published + 1
    BY ConstantsAssumption DEF TypeInv, TypeOK, Publish
  <2>2. 1..published \subseteq 1..published'
    BY <2>1
  <2>3. QED
    BY <2>2 DEF Published
<1>3. Reports \subseteq Reports' /\ Withdrawals \subseteq Withdrawals'
  BY <1>2 DEF Reports, Withdrawals
<1>4. Published' \subseteq Entry
  <2>1. TypeInv => Published \subseteq Entry
    BY PublishedEntries
  <2>2. published' \in 0..Len(Feed) /\ Len(Feed) \in Nat
    BY ConstantsAssumption DEF TypeInv, TypeOK
  <2>3. \A k \in 1..published' : k \in 1..Len(Feed) /\ Feed[k] \in Page
    BY <2>2, ConstantsAssumption
  <2>4. QED
    BY <2>3 DEF Published, Page
<1>5. Reports' \subseteq Txn \X Amount /\ Withdrawals' \subseteq Txn
  BY <1>4 DEF Reports, Withdrawals, Entry
<1>6. QED
  BY <1>1, <1>3, <1>5 DEF Promise!Bank

LEMMA StepKeepsPromise ==
    ASSUME TypeInv, TypeInv', SourceInv, KnownInv', ImportPending \/ StatusKept,
           [Next]_vars
    PROVE  [Promise!Next]_(Promise!promise)
<1>1. CASE Publish
  BY <1>1, PublishKeepsPromise DEF Promise!Next
<1>2. ASSUME NEW s \in Syncer, ReadItem(s) \/ SyncStep(s) \/ SyncFault(s)
      PROVE  [Promise!Next]_(Promise!promise)
  BY <1>2, SyncKeepsPromised
<1>3. ASSUME NEW i \in Importer, ReadStaged(i) \/ ImportStep(i)
      PROVE  [Promise!Next]_(Promise!promise)
  <2>1. CASE CreateTransaction(i)
    BY <2>1, BookKeepsPromise
  <2>2. CASE DeleteStaged(i)
    <3>1. SettledByImport(imp[i].id) /\ staged' = Without({imp[i].id})
      BY <2>2 DEF DeleteStaged, SourceInv, ImportsFound, ImportFound
    <3>2. Cleaned
      BY <3>1 DEF Cleaned
    <3>3. UNCHANGED <<published, book, hist>>
      BY <2>2 DEF DeleteStaged, ImportFrame, hist
    <3>4. QED
      BY <3>2, <3>3, CleanedIsWithdrawn
  <2>3. CASE ~CreateTransaction(i) /\ ~DeleteStaged(i)
    <3>1. UNCHANGED <<published, book, hist>> /\ staged' = staged
      BY <1>3, <2>3 DEF ReadStaged, ImportStep, SkipImported, PassDedupe,
         CheckPending, DuplicateViolation, FailRow, DeleteStagedFails,
         ImportFrame, hist
    <3>2. QED
      BY <3>1, OffersStay, Withdrawn
  <2>4. QED
    BY <2>1, <2>2, <2>3
<1>4. ASSUME NEW id \in Txn, UserStep(id)
      PROVE  [Promise!Next]_(Promise!promise)
  <2>1. CASE Dismiss(id)
    BY <2>1, DismissKeepsPromise DEF Promise!Next
  <2>2. CASE EditBook(id, <<>>)
    <3>1. PICK amounts : amounts = <<>>
      OBVIOUS
    <3>2. QED
      BY <2>2, <3>1, EditKeepsPromise
  <2>3. ASSUME NEW a \in Amount, EditBook(id, <<a>>)
        PROVE  [Promise!Next]_(Promise!promise)
    <3>1. PICK amounts : amounts = <<a>>
      OBVIOUS
    <3>2. QED
      BY <2>3, <3>1, EditKeepsPromise
  <2>4. QED
    BY <1>4, <2>1, <2>2, <2>3 DEF UserStep
<1>5. Crash \/ UNCHANGED vars => UNCHANGED <<published, book, hist>> /\ staged' = staged
  BY DEF Crash, vars
<1>6. CASE Crash \/ UNCHANGED vars
  BY <1>5, <1>6, OffersStay, Withdrawn
<1>7. QED
  BY <1>1, <1>2, <1>3, <1>4, <1>6 DEF Next

LEMMA InitKeepsPromise == Init => Promise!Init
<1> SUFFICES ASSUME Init PROVE Promise!Init
  OBVIOUS
<1>1. published = 0 /\ 1..published = {}
  BY DEF Init
<1>2. Reports = {} /\ Withdrawals = {}
  BY <1>1 DEF Reports, Withdrawals, Published
<1>3. Offers = {} /\ Bookings = [id \in Txn |-> NoAmount]
  BY DEF Init, Offers, Visible, Bookings, Booked, Imported
<1>4. QED
  BY <1>2, <1>3 DEF Init, Promise!Init

(* Sync, stageDelta, DismissStaged and Import, in whatever order their     *)
(* statements interleave, fail or are cut short, keep the promise made to  *)
(* the owner of the book: an offer comes and goes only for a reason, and   *)
(* a booking is of an amount the bank has reported, once.                  *)
THEOREM SyncImplementsPromise ==
    ASSUME PendingFirst, ImportPending \/ StatusKept
    PROVE  Spec => KeepsPromise
<1>1. Spec => []KnownInv
  BY InitKnown, StepKnown, TypesAlways, SourcesAlways, PTL DEF Spec
<1>2. TypeInv /\ TypeInv' /\ SourceInv /\ KnownInv' /\ [Next]_vars =>
          [Promise!Next]_(Promise!promise)
  BY StepKeepsPromise
<1>3. QED
  BY <1>1, <1>2, InitKeepsPromise, TypesAlways, SourcesAlways, PTL
  DEF Spec, KeepsPromise, Promise!Spec
-----------------------------------------------------------------------------
(* One tab: one Sync and one Import at a time.  What is staged has been    *)
(* reported no later than in the page that is being applied, so that what  *)
(* a response shows was reported behind the persisted cursor; and a        *)
(* pending transaction that was withdrawn behind the cursor is not staged  *)
(* any more, unless it was dismissed. *)
ReportedBy(c, id) == \E k \in 1..c : Reported(k, id)
Reached(c) == \A id \in Txn : staged[id] # NoRow => ReportedBy(c, id)

Advance(t) ==
    /\ t.pc \in {"idle", "lock"} => t.pages = 0
    /\ t.pc = "lock" => t.cur = cursor
    /\ t.pc \in {"fetch", "persist"} => t.cur = cursor + t.pages
    /\ t.pc \in Staging => t.cur + 1 = cursor + t.pages
    /\ t.pc = "unlock" => t.cur = cursor

Front(t) ==
    /\ Reached(cursor + MaxSyncPages)
    /\ t.pc \in Staging /\ ~t.more => Reached(t.cur + 1)
    /\ t.pc = "persist" => Reached(t.cur)
    /\ t.pc \in {"unlock", "suggest"} => Reached(cursor)

Cleared(c) ==
    \A j \in 1..c, pre \in Txn :
        WithdrawnFor(j, pre) => staged[pre] = NoRow \/ Dismissed(pre)
Clearing(t) == Cleared(cursor) /\ (t.pc \in Fetching => Cleared(t.cur))

TabInv(s) ==
    /\ lock # NoSyncer => sync[s].pc \in Holding
    /\ Advance(sync[s]) /\ Front(sync[s]) /\ Clearing(sync[s])
    /\ \A id \in shown : ReportedBy(cursor, id)

(* How a row may change: it goes, stays, or is reported by page n. *)
RowMoves(n, id) ==
    staged'[id] = NoRow \/ staged'[id] = staged[id] \/ Reported(n, id)

LEMMA ReachedStays ==
    ASSUME TypeInv, NEW c \in Nat, NEW d \in Nat, NEW n \in 1..d, c <= d, Reached(c),
           \A id \in Txn : RowMoves(n, id)
    PROVE  \A id \in Txn : staged'[id] # NoRow => ReportedBy(d, id)
<1> SUFFICES ASSUME NEW id \in Txn, staged'[id] # NoRow PROVE ReportedBy(d, id)
  OBVIOUS
<1>1. CASE Reported(n, id)
  BY <1>1 DEF ReportedBy
<1>2. CASE staged[id] # NoRow
  <2>1. PICK k \in 1..c : Reported(k, id)
    BY <1>2 DEF Reached, ReportedBy
  <2>2. k \in 1..d
    OBVIOUS
  <2>3. QED
    BY <2>1, <2>2 DEF ReportedBy
<1>3. QED
  BY <1>1, <1>2 DEF RowMoves

LEMMA ClearedStays ==
    ASSUME TypeInv, NEW c \in Nat, NEW n \in 1..Len(Feed), c < n, Cleared(c),
           \A id \in Txn : RowMoves(n, id)
    PROVE  \A j \in 1..c, pre \in Txn :
             WithdrawnFor(j, pre) => staged'[pre] = NoRow \/ Dismissed(pre)'
<1> SUFFICES ASSUME NEW j \in 1..c, NEW pre \in Txn, WithdrawnFor(j, pre)
             PROVE  staged'[pre] = NoRow \/ Dismissed(pre)'
  OBVIOUS
<1>1. n \in (j + 1)..Len(Feed)
  BY ConstantsAssumption
<1>2. ~Reported(n, pre)
  BY <1>1 DEF WithdrawnFor
<1>3. staged[pre] = NoRow \/ Dismissed(pre)
  BY DEF Cleared
<1>4. QED
  BY <1>2, <1>3 DEF RowMoves, Dismissed

(* Every other step. *)
RowStays(id) ==
    staged'[id] # NoRow => staged[id] # NoRow /\ (Dismissed(id) => Dismissed(id)')

LEMMA NothingStaged ==
    ASSUME TypeInv, \A id \in Txn : RowStays(id), NEW c
    PROVE  /\ Reached(c) => \A id \in Txn : staged'[id] # NoRow => ReportedBy(c, id)
           /\ Cleared(c) => \A j \in 1..c, pre \in Txn :
                WithdrawnFor(j, pre) => staged'[pre] = NoRow \/ Dismissed(pre)'
BY DEF Reached, Cleared, Dismissed, RowStays

LEMMA UpsertMoves ==
    ASSUME TypeInv, NEW n, NEW e \in Entry, e \in Feed[n].updated, e.amt # 0, NEW d,
           staged' = Upserted(e, d), NEW id \in Txn
    PROVE  RowMoves(n, id)
<1>1. staged \in [Txn -> Row \cup {NoRow}]
  BY DEF TypeInv, TypeOK
<1>2. CASE id = e.id
  BY <1>2 DEF RowMoves, Reported
<1>3. CASE id # e.id
  BY <1>1, <1>3 DEF RowMoves, Upserted
<1>4. QED
  BY <1>2, <1>3

LEMMA WithoutMoves ==
    ASSUME TypeInv, NEW ids, staged' = Without(ids), NEW id \in Txn
    PROVE  RowStays(id) /\ (staged'[id] = NoRow \/ staged'[id] = staged[id])
BY DEF Without, RowStays, Dismissed

(* A step in a page: the rows move as the page says. *)
InPage(s) ==
    \/ StageFresh(s) \/ CheckPredecessor(s) \/ DropReplaced(s)
    \/ ReadDismissed(s) \/ StageSuccessor(s) \/ DropZeroed(s)

LEMMA PageMoves ==
    ASSUME TypeInv, SourceInv, NEW s \in Syncer, InPage(s)
    PROVE  /\ sync[s].pc \in Staging /\ sync'[s].pc \in Staging
           /\ sync'[s].cur = sync[s].cur /\ sync'[s].pages = sync[s].pages
           /\ sync'[s].more = sync[s].more
           /\ \A id \in Txn : RowMoves(sync[s].cur + 1, id)
<1> DEFINE t == sync[s]
<1>0. /\ sync \in [Syncer -> SyncState] /\ t \in SyncState /\ PageInHand(t)
  BY DEF TypeInv, TypeOK, SourceInv, PagesInHand
<1>1. CASE StageFresh(s) \/ DropZeroed(s)
  <2>1. PICK e \in t.todo : /\ sync' = [sync EXCEPT ![s].todo = @ \ {e}]
                            /\ \/ e.amt # 0 /\ staged' = Upserted(e, FALSE)
                               \/ staged' = WithoutUndismissed({e.id, e.pend})
    BY <1>1 DEF StageFresh, DropZeroed
  <2>2. t.pc = "stage" /\ t.pc \in Staging
    BY <1>1 DEF StageFresh, DropZeroed, Staging
  <2>3. e \in Entry /\ e \in Feed[t.cur + 1].updated
    BY <1>0, <2>1, <2>2 DEF PageInHand, SyncState
  <2>4. \A id \in Txn : RowMoves(t.cur + 1, id)
    <3>1. CASE e.amt # 0 /\ staged' = Upserted(e, FALSE)
      BY <2>3, <3>1, UpsertMoves
    <3>2. CASE staged' = WithoutUndismissed({e.id, e.pend})
      BY <3>2, WithoutMoves DEF WithoutUndismissed, RowMoves
    <3>3. QED
      BY <2>1, <3>1, <3>2
  <2>5. QED
    BY <1>0, <2>1, <2>2, <2>4 DEF SyncState
<1>2. CASE CheckPredecessor(s)
  <2>1. PICK e \in t.todo, l \in {"drop", "inherit"} :
            sync' = [sync EXCEPT ![s].ent = e, ![s].pc = l]
    BY <1>2 DEF CheckPredecessor
  <2>2. t.pc = "stage" /\ staged' = staged
    BY <1>2 DEF CheckPredecessor
  <2>3. QED
    BY <1>0, <2>1, <2>2 DEF SyncState, Staging, RowMoves
<1>3. CASE ReadDismissed(s)
  BY <1>0, <1>3 DEF ReadDismissed, SyncState, Staging, RowMoves
<1>4. CASE DropReplaced(s) \/ StageSuccessor(s)
  <2>1. t.pc \in Staging /\ t.pc \in Handling
    BY <1>4 DEF DropReplaced, StageSuccessor, Staging, Handling
  <2>2. /\ sync'[s].pc = "stage" /\ sync'[s].cur = t.cur /\ sync'[s].pages = t.pages
        /\ sync'[s].more = t.more
    BY <1>0, <1>4 DEF DropReplaced, StageSuccessor, Treated, SyncState
  <2>3. t.ent \in Entry /\ t.ent \in Feed[t.cur + 1].updated /\ t.ent.amt # 0
    BY <1>0, <2>1 DEF PageInHand, SyncState
  <2>4. \A id \in Txn : RowMoves(t.cur + 1, id)
    <3>1. CASE DropReplaced(s)
      BY <3>1, WithoutMoves DEF DropReplaced, RowMoves
    <3>2. CASE StageSuccessor(s)
      BY <2>3, <3>2, UpsertMoves DEF StageSuccessor
    <3>3. QED
      BY <1>4, <3>1, <3>2
  <2>5. QED
    BY <2>1, <2>2, <2>4 DEF Staging
<1>5. QED
  BY <1>1, <1>2, <1>3, <1>4 DEF InPage
LEMMA AllReported == ASSUME SourceInv PROVE Reached(published)
<1> SUFFICES ASSUME NEW id \in Txn, staged[id] # NoRow PROVE ReportedBy(published, id)
  BY DEF Reached
<1>1. PICK e \in Published : e.id = id /\ e.amt # 0
  BY DEF SourceInv, SourcedRows, FromBank
<1>2. PICK k \in 1..published : e \in Feed[k].updated
  BY DEF Published
<1>3. QED
  BY <1>1, <1>2 DEF ReportedBy, Reported

(* A step in a page. *)
LEMMA PageKeepsTab ==
    ASSUME TypeInv, SourceInv, NEW s \in Syncer, OneSync(s), TabInv(s), InPage(s)
    PROVE  TabInv(s)'
<1>1. PICK c, n : c = cursor /\ n = sync[s].cur
  OBVIOUS
<1>2. /\ sync[s].pc \in Staging /\ sync'[s].pc \in Staging
      /\ sync'[s].cur = n /\ sync'[s].pages = sync[s].pages
      /\ sync'[s].more = sync[s].more
      /\ \A id \in Txn : RowMoves(n + 1, id)
  BY <1>1, PageMoves
<1>3. cursor' = c /\ lock' = lock /\ shown' = shown
  BY <1>1 DEF InPage, StageFresh, CheckPredecessor, DropReplaced, ReadDismissed,
              StageSuccessor, DropZeroed, SyncFrame, progress
<1>4. /\ c \in Nat /\ n \in Nat /\ c <= n /\ n + 1 \in 1..Len(Feed)
      /\ n + 1 = c + sync[s].pages /\ sync[s].pages \in 0..MaxSyncPages
      /\ MaxSyncPages \in Nat
  <2>1. sync[s] \in SyncState /\ published \in 0..Len(Feed)
    BY DEF TypeInv, TypeOK
  <2>2. n \in Nat /\ n + 1 \in 1..published
    BY <1>1, <1>2, PagePublished
  <2>3. c <= n /\ n + 1 = c + sync[s].pages
    BY <1>1, <1>2 DEF OneSync, TabInv, Advance, Staging, Fetching
  <2>4. c \in Nat
    BY <1>1 DEF TypeInv, TypeOK
  <2>5. QED
    BY <2>1, <2>2, <2>3, <2>4, ConstantsAssumption DEF SyncState
<1>5. /\ \A id \in Txn : staged'[id] # NoRow => ReportedBy(c + MaxSyncPages, id)
      /\ ~sync[s].more => \A id \in Txn : staged'[id] # NoRow => ReportedBy(n + 1, id)
  <2>1. Reached(c + MaxSyncPages) /\ (~sync[s].more => Reached(n + 1))
    BY <1>1, <1>2 DEF TabInv, Front
  <2>2. n + 1 \in 1..(c + MaxSyncPages) /\ n + 1 \in 1..(n + 1)
        /\ c + MaxSyncPages \in Nat /\ n + 1 \in Nat
    BY <1>4
  <2>3. QED
    BY <1>2, <2>1, <2>2, ReachedStays
<1>6. /\ \A j \in 1..c, pre \in Txn :
             WithdrawnFor(j, pre) => staged'[pre] = NoRow \/ Dismissed(pre)'
      /\ \A j \in 1..n, pre \in Txn :
             WithdrawnFor(j, pre) => staged'[pre] = NoRow \/ Dismissed(pre)'
  <2>1. Cleared(c) /\ Cleared(n)
    BY <1>1, <1>2 DEF TabInv, Clearing, Staging, Fetching
  <2>2. c < n + 1 /\ n < n + 1
    BY <1>4
  <2>3. QED
    BY <1>2, <1>4, <2>1, <2>2, ClearedStays
<1>7. Advance(sync[s])'
  BY <1>2, <1>3, <1>4 DEF Advance, Staging
<1>8. Front(sync[s])'
  BY <1>2, <1>3, <1>5 DEF Front, Reached, Staging
<1>9. Clearing(sync[s])'
  BY <1>2, <1>3, <1>6 DEF Clearing, Cleared
<1>10. (lock # NoSyncer => sync[s].pc \in Holding)'
  BY <1>2 DEF Staging, Holding, Fetching
<1>11. (\A id \in shown : ReportedBy(cursor, id))'
  BY <1>1, <1>3 DEF TabInv, ReportedBy
<1>12. QED
  BY <1>7, <1>8, <1>9, <1>10, <1>11 DEF TabInv

(* The end of a page. *)
LEMMA RemovedKeepsTab ==
    ASSUME TypeInv, SourceInv, NEW s \in Syncer, OneSync(s), TabInv(s), ApplyRemoved(s)
    PROVE  TabInv(s)'
<1>1. PICK c, n : c = cursor /\ n = sync[s].cur
  OBVIOUS
<1>2. /\ sync[s].pc = "stage" /\ sync[s].pc \in Staging
      /\ sync'[s].pc = (IF sync[s].more /\ UnderCap(s) THEN "fetch" ELSE "persist")
      /\ sync'[s].cur = n + 1 /\ sync'[s].pages = sync[s].pages
      /\ cursor' = c /\ lock' = lock /\ shown' = shown
      /\ staged' = WithoutUndismissed(Feed[n + 1].removed)
  BY <1>1 DEF ApplyRemoved, Staging, SyncFrame, progress, TypeInv, TypeOK, SyncState
<1>3. /\ c \in Nat /\ n \in Nat /\ n + 1 = c + sync[s].pages
      /\ sync[s].pages \in 0..MaxSyncPages /\ MaxSyncPages \in Nat
  BY <1>1, <1>2, ConstantsAssumption
  DEF TypeInv, TypeOK, SyncState, TabInv, Advance
<1>4. \A id \in Txn : RowStays(id)
  BY <1>2, WithoutMoves DEF WithoutUndismissed
<1>5. /\ \A id \in Txn : staged'[id] # NoRow => ReportedBy(c + MaxSyncPages, id)
      /\ sync'[s].pc = "persist" =>
           \A id \in Txn : staged'[id] # NoRow => ReportedBy(n + 1, id)
  <2>1. Reached(c + MaxSyncPages) /\ (~sync[s].more => Reached(n + 1))
    BY <1>1, <1>2 DEF TabInv, Front
  <2>2. sync[s].more /\ ~UnderCap(s) => n + 1 = c + MaxSyncPages
    BY <1>3 DEF UnderCap
  <2>3. sync'[s].pc = "persist" => Reached(n + 1)
    BY <1>2, <2>1, <2>2
  <2>4. QED
    BY <1>4, <2>1, <2>3, NothingStaged
<1>6. /\ \A j \in 1..c, pre \in Txn :
             WithdrawnFor(j, pre) => staged'[pre] = NoRow \/ Dismissed(pre)'
      /\ \A j \in 1..n, pre \in Txn :
             WithdrawnFor(j, pre) => staged'[pre] = NoRow \/ Dismissed(pre)'
  <2>1. Cleared(c) /\ Cleared(n)
    BY <1>1, <1>2 DEF TabInv, Clearing, Fetching
  <2>2. QED
    BY <1>4, <2>1, NothingStaged
<1>7. \A pre \in Txn :
          WithdrawnFor(n + 1, pre) => staged'[pre] = NoRow \/ Dismissed(pre)'
  <2> SUFFICES ASSUME NEW pre \in Txn, WithdrawnFor(n + 1, pre)
               PROVE  staged'[pre] = NoRow \/ Dismissed(pre)'
    OBVIOUS
  <2>1. pre \in Feed[n + 1].removed
    BY DEF WithdrawnFor
  <2>2. CASE Dismissed(pre)
    BY <1>4, <2>2 DEF RowStays
  <2>3. CASE ~Dismissed(pre)
    BY <1>2, <2>1, <2>3 DEF WithoutUndismissed, Without
  <2>4. QED
    BY <2>2, <2>3
<1>8. \A j \in 1..(n + 1), pre \in Txn :
          WithdrawnFor(j, pre) => staged'[pre] = NoRow \/ Dismissed(pre)'
  <2>1. \A j \in 1..(n + 1) : j \in 1..n \/ j = n + 1
    BY <1>3
  <2>2. QED
    BY <1>6, <1>7, <2>1
<1>9. Advance(sync[s])'
  BY <1>2, <1>3 DEF Advance, Staging
<1>10. Front(sync[s])'
  BY <1>2, <1>5 DEF Front, Reached, Staging
<1>11. Clearing(sync[s])'
  BY <1>2, <1>6, <1>8 DEF Clearing, Cleared
<1>12. (lock # NoSyncer => sync[s].pc \in Holding)'
  BY <1>2 DEF Holding, Fetching
<1>13. (\A id \in shown : ReportedBy(cursor, id))'
  BY <1>1, <1>2 DEF TabInv, ReportedBy
<1>14. QED
  BY <1>9, <1>10, <1>11, <1>12, <1>13 DEF TabInv

(* The persisted cursor moves on to what was staged. *)
LEMMA PersistKeepsTab ==
    ASSUME TypeInv, SourceInv, NEW s \in Syncer, OneSync(s), TabInv(s), PersistCursor(s)
    PROVE  TabInv(s)'
<1>1. PICK c, n : c = cursor /\ n = sync[s].cur
  OBVIOUS
<1>2. /\ sync[s].pc = "persist" /\ sync'[s].pc = "unlock"
      /\ sync'[s].cur = n /\ cursor' = n
      /\ lock' = lock /\ shown' = shown /\ staged' = staged
  BY <1>1 DEF PersistCursor, NextCursor, SyncFrame, TypeInv, TypeOK, SyncState
<1>3. c \in Nat /\ n \in Nat /\ c <= n /\ MaxSyncPages \in Nat
  BY <1>1, <1>2, ConstantsAssumption
  DEF TypeInv, TypeOK, SyncState, OneSync, Fetching
<1>4. Reached(n) /\ Cleared(n)
  BY <1>1, <1>2 DEF TabInv, Front, Clearing, Fetching
<1>5. \A id \in Txn : staged[id] # NoRow => ReportedBy(n + MaxSyncPages, id)
  <2>1. 1..n \subseteq 1..(n + MaxSyncPages)
    BY <1>3
  <2>2. QED
    BY <1>4, <2>1 DEF Reached, ReportedBy
<1>6. Advance(sync[s])'
  BY <1>2 DEF Advance, Staging
<1>7. Front(sync[s])'
  BY <1>2, <1>4, <1>5 DEF Front, Reached, Staging
<1>8. Clearing(sync[s])'
  BY <1>2, <1>4 DEF Clearing, Cleared, Dismissed
<1>9. (lock # NoSyncer => sync[s].pc \in Holding)'
  BY <1>2 DEF Holding, Fetching
<1>10. (\A id \in shown : ReportedBy(cursor, id))'
  <2>1. 1..c \subseteq 1..n
    BY <1>3
  <2>2. \A id \in shown : ReportedBy(c, id)
    BY <1>1 DEF TabInv
  <2>3. QED
    BY <1>2, <2>1, <2>2 DEF ReportedBy
<1>11. QED
  BY <1>6, <1>7, <1>8, <1>9, <1>10 DEF TabInv
(* A step that stages nothing and leaves the cursor. *)
LEMMA QuietKeepsTab ==
    ASSUME TypeInv, NEW s \in Syncer, TabInv(s), cursor' = cursor,
           \A id \in Txn : RowStays(id),
           \A id \in shown' : ReportedBy(cursor, id),
           (lock # NoSyncer => sync[s].pc \in Holding)', Advance(sync[s])',
           sync'[s].pc \in Staging /\ ~sync'[s].more => Reached(sync'[s].cur + 1),
           sync'[s].pc = "persist" => Reached(sync'[s].cur),
           sync'[s].pc \in {"unlock", "suggest"} => Reached(cursor),
           sync'[s].pc \in Fetching => Cleared(sync'[s].cur)
    PROVE  TabInv(s)'
<1>1. PICK c, n : c = cursor /\ n = sync'[s].cur
  OBVIOUS
<1>2. /\ Reached(c + MaxSyncPages) /\ Cleared(c)
      /\ sync'[s].pc \in Staging /\ ~sync'[s].more => Reached(n + 1)
      /\ sync'[s].pc = "persist" => Reached(n)
      /\ sync'[s].pc \in {"unlock", "suggest"} => Reached(c)
      /\ sync'[s].pc \in Fetching => Cleared(n)
  BY <1>1 DEF TabInv, Front, Clearing
<1>3. Front(sync[s])'
  <2>1. \A id \in Txn : staged'[id] # NoRow => ReportedBy(c + MaxSyncPages, id)
    BY <1>2, NothingStaged
  <2>2. sync'[s].pc \in Staging /\ ~sync'[s].more =>
            \A id \in Txn : staged'[id] # NoRow => ReportedBy(n + 1, id)
    BY <1>2, NothingStaged
  <2>3. sync'[s].pc = "persist" =>
            \A id \in Txn : staged'[id] # NoRow => ReportedBy(n, id)
    BY <1>2, NothingStaged
  <2>4. sync'[s].pc \in {"unlock", "suggest"} =>
            \A id \in Txn : staged'[id] # NoRow => ReportedBy(c, id)
    BY <1>2, NothingStaged
  <2>5. QED
    BY <1>1, <2>1, <2>2, <2>3, <2>4 DEF Front, Reached
<1>4. Clearing(sync[s])'
  <2>1. \A j \in 1..c, pre \in Txn :
            WithdrawnFor(j, pre) => staged'[pre] = NoRow \/ Dismissed(pre)'
    BY <1>2, NothingStaged
  <2>2. sync'[s].pc \in Fetching => \A j \in 1..n, pre \in Txn :
            WithdrawnFor(j, pre) => staged'[pre] = NoRow \/ Dismissed(pre)'
    BY <1>2, NothingStaged
  <2>3. QED
    BY <1>1, <2>1, <2>2 DEF Clearing, Cleared
<1>5. (\A id \in shown : ReportedBy(cursor, id))'
  BY DEF ReportedBy
<1>6. QED
  BY <1>3, <1>4, <1>5 DEF TabInv

LEMMA StillRows ==
    ASSUME staged' = staged
    PROVE  \A id \in Txn : RowStays(id)
BY DEF RowStays, Dismissed

LEMMA SyncKeepsTab ==
    ASSUME TypeInv, SourceInv, NEW s, Syncer = {s}, OneSync(s), TabInv(s),
           ReadItem(s) \/ SyncStep(s) \/ SyncFault(s)
    PROVE  TabInv(s)'
<1> DEFINE t == sync[s]
<1>0. /\ s \in Syncer /\ sync \in [Syncer -> SyncState] /\ t \in SyncState
      /\ lock \in {s, NoSyncer} /\ s # NoSyncer
      /\ cursor \in Nat /\ published \in Nat
  BY SentinelAssumption, ConstantsAssumption DEF TypeInv, TypeOK
<1>1. CASE InPage(s)
  BY <1>0, <1>1, PageKeepsTab
<1>2. CASE ApplyRemoved(s)
  BY <1>0, <1>2, RemovedKeepsTab
<1>3. CASE PersistCursor(s)
  BY <1>0, <1>3, PersistKeepsTab
<1>4. /\ lock # NoSyncer => t.pc \in Holding
      /\ Advance(t) /\ Front(t) /\ Clearing(t)
      /\ \A id \in shown : ReportedBy(cursor, id)
  BY DEF TabInv
<1>5. CASE ReadItem(s) \/ SkipFetch(s) \/ TryLock(s)
  <2>1. /\ cursor' = cursor /\ staged' = staged /\ shown' = shown
        /\ t.pc \in {"idle", "lock"}
    BY <1>5 DEF ReadItem, SkipFetch, TryLock, SyncFrame, progress
  <2>2. lock = NoSyncer
    BY <1>4, <2>1 DEF Holding, Fetching
  <2>3. CASE ReadItem(s)
    <3>1. sync'[s] = [t EXCEPT !.pc = "lock", !.cur = cursor] /\ lock' = lock
      BY <1>0, <2>3 DEF ReadItem
    <3>2. Advance(sync[s])'
      BY <1>0, <1>4, <2>1, <3>1 DEF Advance, SyncState, Staging
    <3>3. QED
      BY <1>0, <1>4, <2>1, <2>2, <3>1, <3>2, StillRows, QuietKeepsTab
      DEF SyncState, Staging, Fetching
  <2>4. CASE TryLock(s)
    <3>1. sync'[s] = [t EXCEPT !.pc = "fetch"] /\ t.pc = "lock"
      BY <1>0, <2>4 DEF TryLock
    <3>2. Advance(sync[s])'
      BY <1>0, <1>4, <2>1, <3>1 DEF Advance, SyncState, Staging
    <3>3. sync'[s].cur = cursor /\ Cleared(cursor) /\ sync'[s].pc = "fetch"
      BY <1>0, <1>4, <3>1 DEF Advance, Clearing, SyncState
    <3>4. QED
      BY <1>0, <1>4, <2>1, <3>2, <3>3, StillRows, QuietKeepsTab DEF Holding, Staging, Fetching
  <2>5. QED
    BY <1>5, <2>2, <2>3, <2>4 DEF SkipFetch
<1>6. CASE FetchPage(s)
  <2>1. /\ cursor' = cursor /\ staged' = staged /\ shown' = shown /\ lock' = lock
        /\ t.pc = "fetch" /\ t.cur < published /\ sync'[s].pc = "stage"
        /\ sync'[s].cur = t.cur /\ sync'[s].pages = t.pages + 1
    BY <1>0, <1>6 DEF FetchPage, SyncFrame, SyncState
  <2>2. t.cur = cursor + t.pages /\ Cleared(t.cur) /\ t.cur \in Nat /\ t.pages \in Nat
    BY <1>0, <1>4, <2>1 DEF Advance, Clearing, Fetching, SyncState
  <2>3. ~sync'[s].more => t.cur + 1 = published
    <3>1. PICK b : b = (t.cur + 1 < published)
      OBVIOUS
    <3>2. sync'[s].more = b
      BY <1>0, <1>6, <3>1 DEF FetchPage, SyncState
    <3>3. ~b <=> ~(t.cur + 1 < published)
      BY <3>1
    <3>4. QED
      BY <1>0, <2>1, <2>2, <3>2, <3>3
  <2>4. ~sync'[s].more => Reached(t.cur + 1)
    BY <2>3, AllReported
  <2>5. Advance(sync[s])'
    BY <1>0, <2>1, <2>2 DEF Advance, Staging
  <2>6. QED
    BY <1>0, <1>4, <2>1, <2>2, <2>4, <2>5, StillRows, QuietKeepsTab DEF Holding, Staging, Fetching
<1>7. CASE FetchNothing(s)
  <2>1. /\ cursor' = cursor /\ staged' = staged /\ shown' = shown /\ lock' = lock
        /\ t.pc = "fetch" /\ t.cur = published /\ sync'[s].pc = "persist"
        /\ sync'[s].cur = t.cur /\ sync'[s].pages = t.pages
    BY <1>0, <1>7 DEF FetchNothing, SyncFrame, SyncState, progress
  <2>2. t.cur = cursor + t.pages /\ Cleared(t.cur) /\ Reached(t.cur)
    BY <1>4, <2>1, AllReported DEF Advance, Clearing, Fetching
  <2>3. Advance(sync[s])'
    BY <2>1, <2>2 DEF Advance, Staging
  <2>4. QED
    BY <1>0, <1>4, <2>1, <2>2, <2>3, StillRows, QuietKeepsTab DEF Holding, Staging, Fetching
<1>8. CASE Unlock(s) \/ SyncFault(s)
  <2>1. cursor' = cursor /\ staged' = staged /\ shown' = shown
    BY <1>8 DEF Unlock, SyncFault, SyncFrame, progress
  <2>2. CASE Unlock(s)
    <3>1. /\ lock' = NoSyncer /\ sync'[s].pages = 0
          /\ sync'[s].pc \in {"idle", "suggest"}
          /\ sync'[s].pc = "suggest" => t.pc = "unlock"
      BY <1>0, <2>2 DEF Unlock, Emptied
    <3>2. sync'[s].pc = "suggest" => Reached(cursor)
      BY <1>4, <3>1 DEF Front
    <3>3. Advance(sync[s])'
      BY <3>1 DEF Advance, Staging
    <3>4. QED
      BY <1>0, <1>4, <2>1, <3>1, <3>2, <3>3, StillRows, QuietKeepsTab DEF Staging, Fetching
  <2>3. CASE SyncFault(s)
    <3>1. /\ lock' = lock
          /\ \/ sync'[s].pc = "fail"
             \/ sync'[s].pc = "idle" /\ sync'[s].pages = 0 /\ t.pc \notin Fetching
      BY <1>0, <2>3 DEF SyncFault, AfterFault, NoSync, Emptied, SyncState
    <3>2. (lock # NoSyncer => sync[s].pc \in Holding)'
      <4>1. t.pc \in Fetching \cup {"lock", "suggest"}
        BY <2>3 DEF SyncFault
      <4>2. lock # NoSyncer => t.pc \in Fetching
        BY <1>4, <4>1 DEF Holding, Fetching
      <4>3. QED
        BY <3>1, <4>2 DEF Holding
    <3>3. Advance(sync[s])'
      BY <3>1 DEF Advance, Staging
    <3>4. QED
      BY <1>0, <1>4, <2>1, <3>1, <3>2, <3>3, StillRows, QuietKeepsTab DEF Staging, Fetching
  <2>4. QED
    BY <1>8, <2>2, <2>3
<1>9. CASE ServeSuggestions(s)
  <2>1. /\ cursor' = cursor /\ staged' = staged /\ lock' = lock /\ t.pc = "suggest"
        /\ shown' = shown \cup {id \in Txn : Visible(id)}
        /\ sync'[s].pc = "idle" /\ sync'[s].pages = 0
    BY <1>0, <1>9 DEF ServeSuggestions, progress, NoSync, Emptied
  <2>2. Reached(cursor)
    BY <1>4, <2>1 DEF Front
  <2>3. \A id \in shown' : ReportedBy(cursor, id)
    BY <1>4, <2>1, <2>2 DEF Visible, Reached
  <2>4. lock = NoSyncer
    BY <1>4, <2>1 DEF Holding, Fetching
  <2>5. Advance(sync[s])'
    BY <2>1 DEF Advance, Staging
  <2>6. QED
    BY <1>0, <2>1, <2>3, <2>4, <2>5, StillRows, QuietKeepsTab DEF Staging, Fetching
<1>10. QED
  BY <1>1, <1>2, <1>3, <1>5, <1>6, <1>7, <1>8, <1>9 DEF SyncStep, InPage

LEMMA StepTab ==
    ASSUME TypeInv, SourceInv, NEW s, Syncer = {s}, OneSync(s), TabInv(s), [Next]_vars
    PROVE  TabInv(s)'
<1>0. s \in Syncer /\ sync \in [Syncer -> SyncState] /\ NoRow \notin Row
      /\ staged \in [Txn -> Row \cup {NoRow}]
  BY SentinelAssumption DEF TypeInv, TypeOK
<1>1. /\ lock # NoSyncer => sync[s].pc \in Holding
      /\ Advance(sync[s]) /\ Front(sync[s]) /\ Clearing(sync[s])
      /\ \A id \in shown : ReportedBy(cursor, id)
  BY DEF TabInv
<1>2. ASSUME ReadItem(s) \/ SyncStep(s) \/ SyncFault(s)
      PROVE  TabInv(s)'
  BY <1>2, SyncKeepsTab
<1>3. CASE Crash
  <2>1. /\ sync'[s].pc = "idle" /\ sync'[s].pages = 0 /\ lock' = NoSyncer
        /\ cursor' = cursor /\ staged' = staged /\ shown' = shown
    BY <1>0, <1>3 DEF Crash, NoSync, Emptied, progress
  <2>2. Advance(sync[s])'
    BY <2>1 DEF Advance, Staging
  <2>3. QED
    BY <1>0, <1>1, <2>1, <2>2, StillRows, QuietKeepsTab DEF Staging, Fetching
<1>4. ASSUME UNCHANGED <<progress, lock, sync, shown>>,
             \A id \in Txn : RowStays(id)
      PROVE  TabInv(s)'
  <2>1. Advance(sync[s])' /\ (lock # NoSyncer => sync[s].pc \in Holding)'
    BY <1>1, <1>4 DEF Advance, progress
  <2>2. QED
    BY <1>0, <1>1, <1>4, <2>1, QuietKeepsTab DEF progress, Front, Clearing
<1>5. ASSUME NEW i \in Importer, ReadStaged(i) \/ ImportStep(i)
      PROVE  TabInv(s)'
  <2>1. UNCHANGED <<progress, lock, sync, shown>>
    BY <1>5 DEF ReadStaged, ImportStep, SkipImported, PassDedupe, CheckPending,
       CreateTransaction, DuplicateViolation, FailRow, DeleteStaged,
       DeleteStagedFails, ImportFrame
  <2>2. staged' = staged \/ staged' = Without({imp[i].id})
    BY <1>5 DEF ReadStaged, ImportStep, SkipImported, PassDedupe, CheckPending,
       CreateTransaction, DuplicateViolation, FailRow, DeleteStaged,
       DeleteStagedFails, ImportFrame
  <2>3. QED
    BY <1>4, <2>1, <2>2, StillRows, WithoutMoves
<1>6. ASSUME NEW id \in Txn, Dismiss(id)
      PROVE  TabInv(s)'
  <2>1. UNCHANGED <<progress, lock, sync, shown>>
    BY <1>6 DEF Dismiss
  <2>2. \A j \in Txn : RowStays(j)
    BY <1>0, <1>6 DEF Dismiss, Dismissed, Row, RowStays
  <2>3. QED
    BY <1>4, <2>1, <2>2
<1>7. Publish \/ (\E id \in Txn, b \in {<<>>} \cup {<<a>> : a \in Amount} : EditBook(id, b))
          \/ UNCHANGED vars => UNCHANGED <<progress, lock, sync, shown, staged>>
  BY DEF Publish, EditBook, vars
<1>8. QED
  BY <1>2, <1>3, <1>4, <1>5, <1>6, <1>7, StillRows DEF Next, UserStep
(* An Import reads, and books, only what some response has shown. *)
TabShown(i) ==
    /\ everBooked \subseteq shown
    /\ imp[i].pc # "idle" => imp[i].id \in shown

LEMMA StepShown ==
    ASSUME TypeInv, NEW i, Importer = {i}, TabShown(i), [Next]_vars
    PROVE  TabShown(i)'
<1>0. i \in Importer /\ imp \in [Importer -> ImportState]
  BY DEF TypeInv, TypeOK
<1>1. CASE ReadStaged(i) \/ ImportStep(i)
  BY <1>0, <1>1 DEF TabShown, ReadStaged, ImportStep, SkipImported, PassDedupe,
     CheckPending, CreateTransaction, DuplicateViolation, FailRow, DeleteStaged,
     DeleteStagedFails, ImportFrame, NoImport, ImportState
<1>2. ASSUME NEW s \in Syncer, ReadItem(s) \/ SyncStep(s) \/ SyncFault(s)
      PROVE  UNCHANGED <<imp, everBooked>> /\ shown \subseteq shown'
  BY <1>2 DEF ReadItem, SyncStep, SyncFault, TryLock, SkipFetch, FetchPage,
     FetchNothing, StageFresh, CheckPredecessor, DropReplaced, ReadDismissed,
     StageSuccessor, DropZeroed, ApplyRemoved, PersistCursor, Unlock,
     ServeSuggestions, SyncFrame, hist
<1>3. Publish \/ (\E id \in Txn : UserStep(id)) \/ UNCHANGED vars =>
          UNCHANGED <<imp, everBooked, shown>>
  BY DEF Publish, UserStep, Dismiss, EditBook, hist, vars
<1>4. CASE Crash
  BY <1>0, <1>4 DEF Crash, TabShown, NoImport, hist
<1>5. QED
  BY <1>0, <1>1, <1>2, <1>3, <1>4 DEF Next, TabShown

(* Of a posted transaction and the pending one it replaces, the one that   *)
(* is imported second is compared with the first, or can no longer be      *)
(* chosen: once the posted one is in the book, nothing but the answer of   *)
(* an older import of the pending one is still to come. *)
NoneTwice(i) ==
    \A id \in Txn, pre \in Txn \ everDismissed : <<id, pre>> \in Successions =>
        /\ ~DoubleMovement(id, pre)
        /\ imp[i].pc = "create" /\ imp[i].id = id => ~ValueMatches(pre, imp[i].row.amt)
        /\ id \in everBooked /\ imp[i].id = pre => imp[i].pc \in {"idle", "cleanup"}

(* The succession is what every report of the posted one says. *)
LEMMA OnePredecessor ==
    ASSUME TypeInv, PendingFirst, PendingNamed, NEW id \in Txn, NEW pre \in Txn,
           <<id, pre>> \in Successions
    PROVE  id # pre /\ \A e \in Entries : e.id = id => e.pend = pre
<1>1. PICK f \in Entries : <<id, pre>> = <<f.id, f.pend>>
  BY DEF Successions
<1>2. f.id = id /\ f.pend = pre
  BY <1>1
<1>3. QED
  BY <1>2, SentinelAssumption DEF PendingFirst, PendingNamed

LEMMA ReplacedIsGone ==
    ASSUME TypeInv, KnownInv, PendingFirst, PendingNamed, PendingWithdrawn,
           NEW id \in Txn, NEW pre \in Txn \ everDismissed, <<id, pre>> \in Successions,
           ReportedBy(cursor, id), Cleared(cursor)
    PROVE  staged[pre] = NoRow
<1>1. PICK k \in 1..cursor : Reported(k, id)
  BY DEF ReportedBy
<1>2. PICK e \in Feed[k].updated : e.id = id /\ e.amt # 0
  BY <1>1 DEF Reported
<1>3. /\ cursor \in Nat /\ published \in Nat /\ Len(Feed) \in Nat
      /\ cursor <= published /\ published <= Len(Feed)
  BY ConstantsAssumption DEF TypeInv, TypeOK
<1>4. e \in Published /\ e \in Entries /\ k \in 1..Len(Feed)
  BY <1>1, <1>3 DEF Published, Entries
<1>5. e.pend = pre
  BY <1>2, <1>4, OnePredecessor
<1>6. PICK j \in 1..k : WithdrawnFor(j, pre)
  BY <1>2, <1>4, <1>5, SentinelAssumption DEF PendingWithdrawn
<1>7. j \in 1..cursor
  BY <1>3
<1>8. staged[pre] = NoRow \/ Dismissed(pre)
  BY <1>6, <1>7 DEF Cleared
<1>9. Predecessors(pre) = {}
  BY <1>4, <1>5, NoGrandparents
<1>10. ~Dismissed(pre)
  BY <1>9 DEF KnownInv, DismissalsKnown
<1>11. QED
  BY <1>8, <1>10

LEMMA StepNoneTwice ==
    ASSUME TypeInv, SourceInv, KnownInv, NEW s, NEW i, Importer = {i}, TabInv(s),
           TabShown(i), NoneTwice(i), PendingFirst, PendingNamed, PendingWithdrawn,
           [Next]_vars, edits' = 0
    PROVE  NoneTwice(i)'
<1>0. /\ i \in Importer /\ imp \in [Importer -> ImportState]
      /\ book \in [Txn -> Seq(Amount)] /\ edits \in Nat
  BY ConstantsAssumption DEF TypeInv, TypeOK
<1>1. everDismissed \subseteq everDismissed'
  BY HistoryGrows
<1> SUFFICES ASSUME NEW id \in Txn, NEW pre \in Txn \ everDismissed,
                    <<id, pre>> \in Successions
             PROVE  /\ ~DoubleMovement(id, pre)'
                    /\ imp'[i].pc = "create" /\ imp'[i].id = id =>
                         ~ValueMatches(pre, imp[i].row.amt)'
                    /\ id \in everBooked' /\ imp'[i].id = pre =>
                         imp'[i].pc \in {"idle", "cleanup"}
  BY <1>1 DEF NoneTwice, Successions, Entries
<1>2. /\ ~DoubleMovement(id, pre)
      /\ imp[i].pc = "create" /\ imp[i].id = id => ~ValueMatches(pre, imp[i].row.amt)
      /\ id \in everBooked /\ imp[i].id = pre => imp[i].pc \in {"idle", "cleanup"}
  BY DEF NoneTwice
<1>3. ASSUME book' = book
      PROVE  /\ ~DoubleMovement(id, pre)'
             /\ \A a : ValueMatches(pre, a)' = ValueMatches(pre, a)
  BY <1>2, <1>3 DEF DoubleMovement, ValueMatches
<1>4. ASSUME book' = book, imp' = imp, everBooked' = everBooked
      PROVE  /\ imp'[i].pc = "create" /\ imp'[i].id = id =>
                  ~ValueMatches(pre, imp[i].row.amt)'
             /\ id \in everBooked' /\ imp'[i].id = pre =>
                  imp'[i].pc \in {"idle", "cleanup"}
  BY <1>2, <1>3, <1>4
<1>5. id # pre /\ \A e \in Entries : e.id = id => e.pend = pre
  BY OnePredecessor
<1>6. imp[i].pc # "idle" /\ imp[i].id = id => imp[i].row.pend = pre
  BY <1>0, <1>5, PublishedEntries DEF SourceInv, SourcedImports, FromBank
<1>7. CASE ReadStaged(i)
  <2>1. book' = book /\ everBooked' = everBooked
    BY <1>7 DEF ReadStaged
  <2>2. imp'[i].pc = "dedupe" /\ staged[imp'[i].id] # NoRow
    BY <1>0, <1>7 DEF ReadStaged
  <2>3. id \in everBooked => ReportedBy(cursor, id)
    BY DEF TabInv, TabShown
  <2>4. id \in everBooked => imp'[i].id # pre
    BY <2>2, <2>3, ReplacedIsGone DEF TabInv, Clearing
  <2>5. QED
    BY <1>3, <2>1, <2>2, <2>4
<1>8. CASE PassDedupe(i)
  <2>1. /\ book' = book /\ everBooked' = everBooked /\ imp[i].pc = "dedupe"
        /\ imp'[i].id = imp[i].id /\ imp'[i].row = imp[i].row
        /\ imp'[i].pc = "create" => imp[i].row.pend = NoTxn
    BY <1>0, <1>8 DEF PassDedupe, ImportState
  <2>2. imp'[i].pc = "create" => imp'[i].id # id
    BY <1>6, <2>1, SentinelAssumption
  <2>3. QED
    BY <1>2, <1>3, <2>1, <2>2
<1>9. CASE CheckPending(i)
  <2>1. /\ book' = book /\ everBooked' = everBooked /\ imp[i].pc = "pending"
        /\ imp'[i].id = imp[i].id /\ imp'[i].row = imp[i].row
        /\ imp'[i].pc = "create" => ~ValueMatches(imp[i].row.pend, imp[i].row.amt)
    BY <1>0, <1>9 DEF CheckPending, PendingCovers, ImportState
  <2>2. imp'[i].pc = "create" /\ imp'[i].id = id => ~ValueMatches(pre, imp[i].row.amt)'
    BY <1>3, <1>6, <2>1
  <2>3. QED
    BY <1>2, <1>3, <2>1, <2>2
<1>10. CASE CreateTransaction(i)
  <2>1. PICK j, a : j = imp[i].id /\ a = imp[i].row.amt
    OBVIOUS
  <2>2. /\ imp[i].pc = "create" /\ imp'[i].pc = "cleanup"
        /\ j \in Txn /\ a \in Amount /\ book[j] = <<>>
        /\ book' = [book EXCEPT ![j] = Append(@, a)]
    BY <1>0, <1>10, <2>1
    DEF CreateTransaction, IndexAllows, Imported, ImportState, TypeInv, ImportHolds, Row
  <2>3. book'[j] = <<a>>
    BY <1>0, <2>2
  <2>4. ~DoubleMovement(id, pre)'
    <3>1. CASE j = id
      <4>1. book'[pre] = book[pre]
        BY <1>0, <1>5, <2>2, <3>1
      <4>2. ~ValueMatches(pre, a)
        BY <1>2, <2>1, <2>2, <3>1
      <4>3. DOMAIN book'[id] = {1} /\ book'[id][1] = a
        BY <2>3, <3>1
      <4>4. QED
        BY <4>1, <4>2, <4>3 DEF DoubleMovement, ValueMatches
    <3>2. CASE j = pre
      <4>1. id \notin everBooked
        BY <1>2, <2>1, <2>2, <3>2
      <4>2. book[id] = <<>>
        BY <4>1 DEF SourceInv, BookedEver, Imported
      <4>3. book'[id] = <<>>
        BY <1>0, <1>5, <2>2, <3>2, <4>2
      <4>4. QED
        BY <4>3 DEF DoubleMovement
    <3>3. CASE j # id /\ j # pre
      <4>1. book'[id] = book[id] /\ book'[pre] = book[pre]
        BY <1>0, <2>2, <3>3
      <4>2. QED
        BY <1>2, <4>1 DEF DoubleMovement, ValueMatches
    <3>4. QED
      BY <3>1, <3>2, <3>3
  <2>5. QED
    BY <2>2, <2>4
<1>11. CASE SkipImported(i) \/ DuplicateViolation(i) \/ FailRow(i)
            \/ DeleteStaged(i) \/ DeleteStagedFails(i)
  <2>1. book' = book /\ imp'[i].pc \in {"idle", "cleanup"}
    BY <1>0, <1>11 DEF SkipImported, DuplicateViolation, FailRow, DeleteStaged,
       DeleteStagedFails, NoImport, ImportState
  <2>2. QED
    BY <1>3, <2>1
<1>12. ASSUME NEW r \in Syncer, ReadItem(r) \/ SyncStep(r) \/ SyncFault(r)
       PROVE  book' = book /\ imp' = imp /\ everBooked' = everBooked
  BY <1>12 DEF ReadItem, SyncStep, SyncFault, TryLock, SkipFetch, FetchPage,
     FetchNothing, StageFresh, CheckPredecessor, DropReplaced, ReadDismissed,
     StageSuccessor, DropZeroed, ApplyRemoved, PersistCursor, Unlock,
     ServeSuggestions, SyncFrame, hist
<1>13. ~(\E j \in Txn : UserStep(j) /\ ~Dismiss(j))
  BY <1>0 DEF UserStep, EditBook
<1>14. Publish \/ (\E j \in Txn : Dismiss(j)) \/ UNCHANGED vars =>
           book' = book /\ imp' = imp /\ everBooked' = everBooked
  BY DEF Publish, Dismiss, hist, vars
<1>15. Crash => book' = book /\ imp'[i].pc = "idle"
  BY <1>0 DEF Crash, NoImport
<1>16. QED
  BY <1>0, <1>3, <1>4, <1>7, <1>8, <1>9, <1>10, <1>11, <1>12, <1>13, <1>14, <1>15
  DEF Next, ImportStep

LEMMA NoneTwiceShows ==
    ASSUME TypeInv, NEW i, NoneTwice(i)
    PROVE  NoDoubleMovementOneTab
<1> SUFFICES ASSUME NEW id \in Txn, NEW pre \in Predecessors(id) \ everDismissed
             PROVE  ~DoubleMovement(id, pre)
  BY DEF NoDoubleMovementOneTab
<1>1. PICK e \in Published : e.id = id /\ e.pend = pre /\ pre # NoTxn
  BY DEF Predecessors
<1>2. e \in Entries /\ e \in Entry
  BY PublishedEntries
<1>3. pre \in Txn /\ <<id, pre>> \in Successions
  BY <1>1, <1>2 DEF Entry, Successions
<1>4. QED
  BY <1>3 DEF NoneTwice

(* A pending transaction and the posted one that replaces it are not both  *)
(* booked with the same value, by one tab: one Sync and one Import at a    *)
(* time, whatever faults, crashes and dismissals come between their        *)
(* statements, of a bank that names the pending one in every report of the *)
(* posted one and withdraws it before, and as long as the user has not     *)
(* edited an imported transaction (an edit may make two values equal).     *)
THEOREM OneTabNoDouble ==
    ASSUME NEW s, Syncer = {s}, NEW i, Importer = {i},
           PendingFirst, PendingNamed, PendingWithdrawn
    PROVE  Spec => [](edits = 0 => NoDoubleMovementOneTab)
<1> DEFINE OneTab == /\ OneSync(s) /\ KnownInv /\ TabInv(s) /\ TabShown(i)
                     /\ edits = 0 => NoneTwice(i)
<1>1. Init => OneTab
  <2> SUFFICES ASSUME Init PROVE OneTab
    OBVIOUS
  <2>1. s \in Syncer /\ i \in Importer
    OBVIOUS
  <2>2. sync[s] = NoSync /\ imp[i] = NoImport
    BY <2>1 DEF Init
  <2>3. OneSync(s)
    BY <2>2 DEF Init, OneSync, NoSync, Emptied, Fetching
  <2>4. TabInv(s)
    BY <2>2 DEF Init, TabInv, Advance, Front, Clearing, Reached, Cleared, NoSync,
                Emptied, Staging, Fetching
  <2>5. TabShown(i)
    BY <2>2 DEF Init, TabShown, NoImport
  <2>6. NoneTwice(i)
    BY <2>2 DEF Init, NoneTwice, DoubleMovement, NoImport
  <2>7. QED
    BY <2>3, <2>4, <2>5, <2>6, InitKnown
<1>2. TypeInv /\ TypeInv' /\ SourceInv /\ OneTab /\ [Next]_vars => OneTab'
  <2> SUFFICES ASSUME TypeInv, TypeInv', SourceInv, OneTab, [Next]_vars PROVE OneTab'
    OBVIOUS
  <2>1. OneSync(s)' /\ KnownInv' /\ TabInv(s)' /\ TabShown(i)'
    BY OneSyncStep, StepKnown, StepTab, StepShown
  <2>2. edits' = 0 => edits = 0
    <3>1. edits \in Nat
      BY ConstantsAssumption DEF TypeInv, TypeOK
    <3>2. edits' = edits \/ edits' = edits + 1
      BY DEF Next, vars, bounds, Publish, Crash, ReadItem, SyncStep, SyncFault,
         TryLock, SkipFetch, FetchPage, FetchNothing, StageFresh, CheckPredecessor,
         DropReplaced, ReadDismissed, StageSuccessor, DropZeroed, ApplyRemoved,
         PersistCursor, Unlock, ServeSuggestions, SyncFrame, ReadStaged, ImportStep,
         SkipImported, PassDedupe, CheckPending, CreateTransaction,
         DuplicateViolation, FailRow, DeleteStaged, DeleteStagedFails, ImportFrame,
         UserStep, Dismiss, EditBook
    <3>3. QED
      BY <3>1, <3>2
  <2>3. (edits = 0 => NoneTwice(i))'
    BY <2>2, StepNoneTwice
  <2>4. QED
    BY <2>1, <2>3
<1>3. TypeInv /\ OneTab => (edits = 0 => NoDoubleMovementOneTab)
  BY NoneTwiceShows
<1>4. QED
  BY <1>1, <1>2, <1>3, TypesAlways, SourcesAlways, PTL DEF Spec
=============================================================================
