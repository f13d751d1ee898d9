-------------------------- MODULE PlaidLinkProofs --------------------------
(***************************************************************************)
(* Invariance proofs for PlaidLink, for every number of items, accounts,   *)
(* requests and every bound.                                               *)
(***************************************************************************)
EXTENDS PlaidLink, TLAPS

-----------------------------------------------------------------------------
(* What a request holds: the row it read of its item, at least one mapping *)
(* while it works on one, and, in a forced Disconnect, a row no key opens, *)
(* which is the one it archives.                                           *)

Holding(t) ==
    /\ t.pc # "idle" => t.item \in Item /\ t.row \in ItemRow
    /\ t.pc \in {"existing", "write"} => t.todo # <<>>
    /\ t.pc = "archive" => t.row.seal = "lost"
    /\ t.arch # NoItem => t.arch = t.row /\ t.row.seal = "lost"

(* A row read is of an older version than the stored one, or equal to it:  *)
(* every statement that writes the row counts its version up.              *)
ReadBefore(t) ==
    t.pc \notin {"idle", "upsert"} =>
        /\ t.row.gen <= gens[t.item]
        /\ items[t.item] # NoItem /\ items[t.item].gen = t.row.gen =>
              \/ t.row.ver < items[t.item].ver
              \/ t.row = items[t.item]

HeldInv == \A r \in Request : Holding(req[r]) /\ ReadBefore(req[r])

LinkInv == LinkTypeOK /\ HeldInv

(* What the accounts name.  Nobody writes an account row that another open *)
(* transaction has written, and a bank account that a transaction has      *)
(* written into one row is named by no other row it sees or anyone writes. *)

RowsLocked ==
    \A q, r \in Request : q # r => Written(q) \cap Written(r) = {}

WrittenOnce(r) ==
    \A a \in Written(r) : \A b \in Account \ {a} : \A k \in Bank :
        Names(req[r].wr[a], k) =>
            /\ ~Names(View(r)[b], k)
            /\ \A q \in Request \ {r} : b \in Written(q) => ~Names(req[q].wr[b], k)

IndexInv ==
    OneAccountPerBank /\ RowsLocked /\ \A r \in Request : WrittenOnce(r)

(* Where a token can be: Plaid knows every item that has or had a row, and *)
(* a Disconnect that has archived nothing deletes the row of an item that  *)
(* Plaid has removed.                                                      *)
PlaidKnows ==
    /\ \A i \in Item : gens[i] > 0 => plaid[i] # "new"
    /\ \A r \in Request :
          /\ req[r].pc = "upsert" => plaid[req[r].item] # "new"
          /\ req[r].pc \in {"clear", "delete"} /\ req[r].arch = NoItem =>
                plaid[req[r].item] = "removed"

TokenInv == TokenKept /\ PlaidKnows
-----------------------------------------------------------------------------
(* Types, and what a request holds. *)

Counters == {"idle", "count", "existing", "write", "upsert", "load", "remove",
             "archive", "clear", "delete", "touch"}

(* A step of a request ends it, or it keeps what it has read.              *)
Keeps(t, u) ==
    u.pc \notin {"idle", "upsert"} =>
        t.pc \notin {"idle", "upsert"} /\ u.item = t.item /\ u.row = t.row

Moves(r) ==
    \E u \in RequestState :
        Holding(u) /\ Keeps(req[r], u) /\ req' = [req EXCEPT ![r] = u]

(* The rows of plaid_items only go, age or come anew. *)
Aged ==
    \A i \in Item :
        /\ gens[i] <= gens'[i]
        /\ \/ items'[i] = items[i] \/ items'[i] = NoItem
           \/ /\ items[i] # NoItem
              /\ items'[i].gen = items[i].gen /\ items[i].ver < items'[i].ver
           \/ gens[i] < gens'[i] /\ items'[i].gen = gens'[i]

LEMMA IdleHolds == NoRequest \in RequestState /\ Holding(NoRequest)
BY DEF NoRequest, RequestState, NoWrites, Holding

LEMMA EndedMoves ==
    ASSUME NEW r \in Request, req' = Ended(r)
    PROVE  Moves(r)
BY IdleHolds DEF Ended, Moves, Keeps, NoRequest

LEMMA AtMoves ==
    ASSUME LinkInv, NEW r \in Request, NEW l \in Counters \ {"upsert"}, req' = At(r, l),
           req[r].pc \notin {"idle", "upsert"},
           l \in {"existing", "write"} => req[r].todo # <<>>,
           l = "archive" => req[r].row.seal = "lost"
    PROVE  Moves(r) /\ req' = [req EXCEPT ![r] = [req[r] EXCEPT !.pc = l]]
<1> DEFINE u == [req[r] EXCEPT !.pc = l]
<1>1. req \in [Request -> RequestState] /\ req[r] \in RequestState /\ Holding(req[r])
  BY DEF LinkInv, LinkTypeOK, HeldInv
<1>2. u \in RequestState
  BY <1>1 DEF RequestState, Counters
<1>3. /\ u.pc = l /\ u.item = req[r].item /\ u.row = req[r].row
      /\ u.todo = req[r].todo /\ u.arch = req[r].arch
  BY <1>1 DEF RequestState
<1>4. Holding(u) /\ Keeps(req[r], u)
  BY <1>1, <1>3 DEF Holding, Keeps
<1>5. req' = [req EXCEPT ![r] = u]
  BY <1>1 DEF At
<1>6. QED
  BY <1>2, <1>4, <1>5 DEF Moves

LEMMA ReadAges ==
    ASSUME LinkTypeOK, LinkTypeOK', Aged, NEW t \in RequestState, Holding(t),
           ReadBefore(t)
    PROVE  ReadBefore(t)'
<1> SUFFICES ASSUME t.pc \notin {"idle", "upsert"}
             PROVE  ReadBefore(t)'
  BY DEF ReadBefore
<1>1. PICK i \in Item, row \in ItemRow : i = t.item /\ row = t.row
  BY DEF Holding
<1>2. /\ row.gen \in Nat /\ row.ver \in Nat /\ gens[i] \in Nat /\ gens'[i] \in Nat
      /\ items[i] # NoItem => items[i].ver \in Nat /\ items[i].gen = gens[i]
      /\ items'[i] # NoItem => items'[i].ver \in Nat
  BY <1>1 DEF LinkTypeOK, ItemRow
<1>3. /\ row.gen <= gens[i]
      /\ items[i] # NoItem /\ items[i].gen = row.gen =>
            row.ver < items[i].ver \/ row = items[i]
  BY <1>1 DEF ReadBefore
<1>4. /\ gens[i] <= gens'[i]
      /\ \/ items'[i] = items[i] \/ items'[i] = NoItem
         \/ /\ items[i] # NoItem
            /\ items'[i].gen = items[i].gen /\ items[i].ver < items'[i].ver
         \/ gens[i] < gens'[i] /\ items'[i].gen = gens'[i]
  BY <1>1 DEF Aged
<1>5. /\ row.gen <= gens'[i]
      /\ items'[i] # NoItem /\ items'[i].gen = row.gen =>
            row.ver < items'[i].ver \/ row = items'[i]
  BY <1>2, <1>3, <1>4
<1>6. QED
  BY <1>1, <1>5 DEF ReadBefore

LEMMA HeldStays ==
    ASSUME LinkInv, LinkTypeOK', Aged, NEW r \in Request, Moves(r)
    PROVE  HeldInv'
<1>1. PICK u \in RequestState :
          Holding(u) /\ Keeps(req[r], u) /\ req' = [req EXCEPT ![r] = u]
  BY DEF Moves
<1>2. req \in [Request -> RequestState]
  BY DEF LinkInv, LinkTypeOK
<1>3. ReadBefore(u)
  <2>1. ReadBefore(req[r])
    BY DEF LinkInv, HeldInv
  <2>2. QED
    BY <1>1, <2>1 DEF ReadBefore, Keeps
<1>4. ASSUME NEW q \in Request
      PROVE  Holding(req[q])' /\ ReadBefore(req[q])'
  <2>1. PICK t \in RequestState : t = req'[q] /\ Holding(t) /\ ReadBefore(t)
    BY <1>1, <1>2, <1>3 DEF LinkInv, HeldInv
  <2>2. ReadBefore(t)'
    BY <2>1, ReadAges DEF LinkInv
  <2>3. QED
    BY <2>1, <2>2 DEF Holding, ReadBefore
<1>5. QED
  BY <1>4 DEF HeldInv

(* A step that leaves plaid_items alone. *)
LEMMA RequestMoves ==
    ASSUME LinkInv, NEW r \in Request, Moves(r), UNCHANGED <<items, gens, newest>>,
           plaid' \in [Item -> {"new", "alive", "removed"}], issued' \in Nat,
           links' \in [Account -> Link \cup {NoLink}],
           audit' \subseteq [item : Item, row : ItemRow],
           started' \in 0..MaxStarts, restarts' \in 0..MaxRestarts,
           faults' \in 0..MaxFaults
    PROVE  LinkInv'
<1>1. req' \in [Request -> RequestState]
  BY DEF Moves, LinkInv, LinkTypeOK
<1>2. LinkTypeOK'
  BY <1>1 DEF LinkInv, LinkTypeOK
<1>3. Aged
  BY DEF Aged, LinkInv, LinkTypeOK
<1>4. QED
  BY <1>2, <1>3, HeldStays DEF LinkInv

LEMMA ViewType ==
    ASSUME LinkTypeOK, NEW r \in Request
    PROVE  View(r) \in [Account -> Link \cup {NoLink}]
BY DEF LinkTypeOK, View, Written, RequestState

LEMMA LinkOfType ==
    ASSUME LinkInv, NEW r \in Request, req[r].pc # "idle", NEW m \in Mapping
    PROVE  LinkOf(r, m) \in Link /\ LinkOf(r, m).bank = m.bank
BY DEF LinkInv, HeldInv, Holding, LinkOf, Link, ItemRow, Mapping

(* The requests that start. *)
LEMMA StartsKeepTypes ==
    ASSUME LinkInv, NEW r \in Request, NEW i \in Item,
           \/ ExchangeToken(r, i) \/ StartLink(r, i) \/ StartSync(r, i)
           \/ StartDisconnect(r, i)
    PROVE  LinkInv'
<1>0. /\ req \in [Request -> RequestState] /\ issued \in Nat
      /\ started \in 0..MaxStarts /\ started < MaxStarts
      /\ started' = started + 1 /\ MaxStarts \in Nat
      /\ UNCHANGED <<items, gens, links, audit, newest, restarts, faults>>
  BY LinkConstantsAssumption DEF LinkInv, LinkTypeOK, ExchangeToken, StartLink,
     StartSync, StartDisconnect, ReadItemRow
<1>1. ASSUME NEW u \in RequestState, Holding(u), ReadBefore(u),
             req' = [req EXCEPT ![r] = u], issued' \in Nat,
             plaid' \in [Item -> {"new", "alive", "removed"}]
      PROVE  LinkInv'
  <2>1. LinkTypeOK'
    BY <1>0, <1>1 DEF LinkInv, LinkTypeOK
  <2>2. Aged
    BY <1>0 DEF Aged, LinkInv, LinkTypeOK
  <2>3. ASSUME NEW q \in Request
        PROVE  Holding(req[q])' /\ ReadBefore(req[q])'
    <3>1. PICK t \in RequestState : t = req'[q] /\ Holding(t) /\ ReadBefore(t)
      BY <1>0, <1>1 DEF LinkInv, HeldInv
    <3>2. ReadBefore(t)'
      BY <2>1, <2>2, <3>1, ReadAges DEF LinkInv
    <3>3. QED
      BY <3>1, <3>2 DEF Holding, ReadBefore
  <2>4. QED
    BY <2>1, <2>3 DEF LinkInv, HeldInv
<1>2. CASE ExchangeToken(r, i)
  <2>1. PICK u : u = [NoRequest EXCEPT
            !.pc = "upsert", !.kind = "exchange", !.item = i,
            !.row = [gen |-> 0, tok |-> issued + 1, seal |-> "primary", ver |-> 1]]
    OBVIOUS
  <2>2. [gen |-> 0, tok |-> issued + 1, seal |-> "primary", ver |-> 1] \in ItemRow
    BY <1>0 DEF ItemRow, Seal
  <2>3. u \in RequestState /\ u.pc = "upsert" /\ u.item = i /\ u.row \in ItemRow
        /\ u.arch = NoItem
    BY <2>1, <2>2, IdleHolds DEF NoRequest, RequestState
  <2>4. Holding(u) /\ ReadBefore(u)
    BY <2>3 DEF Holding, ReadBefore
  <2>5. /\ req' = [req EXCEPT ![r] = u] /\ issued' \in Nat
        /\ plaid' \in [Item -> {"new", "alive", "removed"}]
    BY <1>0, <1>2, <2>1 DEF ExchangeToken, LinkInv, LinkTypeOK
  <2>6. QED
    BY <1>1, <2>3, <2>4, <2>5
<1>3. ASSUME NEW kind \in {"link", "sync", "disconnect"}, NEW l \in {"count", "load"},
             NEW ms \in Seq(Mapping), ReadItemRow(r, i, kind, l, ms)
      PROVE  LinkInv'
  <2>1. PICK u : u = [NoRequest EXCEPT !.pc = l, !.kind = kind, !.item = i,
                                       !.row = items[i], !.todo = ms]
    OBVIOUS
  <2>2. items[i] \in ItemRow /\ items[i] # NoItem /\ items[i].gen = gens[i]
        /\ gens[i] \in Nat
    BY <1>3 DEF ReadItemRow, LinkInv, LinkTypeOK
  <2>3. u \in RequestState /\ u.pc = l /\ u.item = i /\ u.row = items[i]
        /\ u.arch = NoItem
    BY <2>1, <2>2, IdleHolds DEF NoRequest, RequestState
  <2>4. Holding(u) /\ ReadBefore(u)
    BY <2>2, <2>3 DEF Holding, ReadBefore
  <2>5. /\ req' = [req EXCEPT ![r] = u] /\ issued' \in Nat
        /\ plaid' \in [Item -> {"new", "alive", "removed"}]
    BY <1>3, <2>1 DEF ReadItemRow, LinkInv, LinkTypeOK
  <2>6. QED
    BY <1>1, <2>3, <2>4, <2>5
<1>4. CASE StartLink(r, i)
  <2>1. PICK ms \in Seq(Mapping) : ReadItemRow(r, i, "link", "count", ms)
    BY <1>4, LinkConstantsAssumption DEF StartLink
  <2>2. QED
    BY <1>3, <2>1
<1>5. CASE StartSync(r, i) \/ StartDisconnect(r, i)
  <2>1. <<>> \in Seq(Mapping)
    OBVIOUS
  <2>2. PICK ms \in Seq(Mapping) : ms = <<>>
    BY <2>1
  <2>3. QED
    BY <1>3, <1>5, <2>2 DEF StartSync, StartDisconnect
<1>6. QED
  BY <1>2, <1>4, <1>5

(* LinkAccounts. *)
LEMMA LinkKeepsTypes ==
    ASSUME LinkInv, NEW r \in Request,
           CountHolders(r) \/ CheckExisting(r) \/ WriteLink(r) \/ CommitLinks(r)
    PROVE  LinkInv'
<1>0. /\ req \in [Request -> RequestState] /\ req[r] \in RequestState
      /\ Holding(req[r]) /\ req[r].todo \in Seq(Mapping)
      /\ UNCHANGED <<plaid, issued, items, gens, audit, newest, bounds>>
  BY DEF LinkInv, LinkTypeOK, HeldInv, RequestState, CountHolders, CheckExisting,
         WriteLink, CommitLinks, LinkFrame
<1>1. links' \in [Account -> Link \cup {NoLink}]
  BY ViewType DEF LinkInv, LinkTypeOK, CountHolders, CheckExisting, WriteLink,
                  CommitLinks
<1>2. Moves(r)
  <2>1. CASE CountHolders(r)
    <3>1. req' = Ended(r) \/ req' = At(r, "existing")
      BY <2>1 DEF CountHolders
    <3>2. req[r].pc = "count" /\ req[r].todo # <<>>
      BY <2>1 DEF CountHolders
    <3>3. QED
      BY <3>1, <3>2, EndedMoves, AtMoves DEF Counters
  <2>2. CASE CheckExisting(r)
    <3>1. req' = Ended(r) \/ req' = At(r, "write")
      BY <2>2 DEF CheckExisting
    <3>2. req[r].pc = "existing" /\ req[r].todo # <<>>
      BY <1>0, <2>2 DEF CheckExisting, Holding
    <3>3. QED
      BY <3>1, <3>2, EndedMoves, AtMoves DEF Counters
  <2>3. CASE WriteLink(r)
    <3>1. PICK m \in Mapping : m = Head(req[r].todo)
      BY <1>0, <2>3 DEF WriteLink, Holding
    <3>2. CASE req' = Ended(r)
      BY <3>2, EndedMoves
    <3>3. CASE req' = [req EXCEPT ![r].pc = "count", ![r].todo = Tail(@),
                                  ![r].wr[m.account] = LinkOf(r, m)]
      <4>1. PICK u : u = [req[r] EXCEPT !.pc = "count", !.todo = Tail(@),
                                        !.wr[m.account] = LinkOf(r, m)]
        OBVIOUS
      <4>2. LinkOf(r, m) \in Link /\ m.account \in Account
        BY <2>3, LinkOfType DEF WriteLink, Mapping
      <4>3. Tail(req[r].todo) \in Seq(Mapping)
        BY <1>0, <2>3 DEF WriteLink, Holding
      <4>4. /\ u \in RequestState /\ u.pc = "count" /\ u.item = req[r].item
            /\ u.row = req[r].row /\ u.arch = req[r].arch
        BY <1>0, <4>1, <4>2, <4>3 DEF RequestState
      <4>5. Holding(u) /\ Keeps(req[r], u)
        BY <1>0, <2>3, <4>4 DEF Holding, Keeps, WriteLink
      <4>6. req' = [req EXCEPT ![r] = u]
        BY <1>0, <3>3, <4>1
      <4>7. QED
        BY <4>4, <4>5, <4>6 DEF Moves
    <3>4. QED
      BY <2>3, <3>1, <3>2, <3>3 DEF WriteLink
  <2>4. CASE CommitLinks(r)
    BY <2>4, EndedMoves DEF CommitLinks
  <2>5. QED
    BY <2>1, <2>2, <2>3, <2>4
<1>3. QED
  BY <1>0, <1>1, <1>2, RequestMoves DEF LinkInv, LinkTypeOK, bounds

(* The steps of a Disconnect or a Sync that leave plaid_items alone, and   *)
(* what ends any request. *)
LEMMA DisconnectKeepsTypes ==
    ASSUME LinkInv, NEW r \in Request,
           \/ TokenUnreadable(r) \/ RemoveItem(r) \/ RemoveItemAgain(r)
           \/ RemoveItemUnanswered(r) \/ ArchiveRow(r) \/ ClearLinks(r)
           \/ DeadlockVictim(r) \/ RequestFault(r)
    PROVE  LinkInv'
<1>0. /\ req \in [Request -> RequestState] /\ req[r] \in RequestState
      /\ Holding(req[r]) /\ ReadBefore(req[r])
      /\ UNCHANGED <<issued, items, gens, links, audit, newest, started, restarts>>
  BY DEF LinkInv, LinkTypeOK, HeldInv, TokenUnreadable, RemoveItem, RemoveItemAgain,
         RemoveItemUnanswered, ArchiveRow, ClearLinks, DeadlockVictim, RequestFault,
         LinkFrame, bounds
<1>1. faults' \in 0..MaxFaults
  BY LinkConstantsAssumption
  DEF LinkInv, LinkTypeOK, TokenUnreadable, RemoveItem, RemoveItemAgain,
      RemoveItemUnanswered, ArchiveRow, ClearLinks, DeadlockVictim, RequestFault,
      LinkFrame, bounds
<1>2. plaid' \in [Item -> {"new", "alive", "removed"}]
  BY DEF LinkInv, LinkTypeOK, TokenUnreadable, RemoveItem, RemoveItemAgain,
         RemoveItemUnanswered, ArchiveRow, ClearLinks, DeadlockVictim, RequestFault,
         LinkFrame
<1>3. Moves(r)
  <2>1. CASE TokenUnreadable(r) \/ RemoveItem(r)
    <3>1. /\ \/ req' = Ended(r) \/ req' = At(r, "clear")
             \/ req' = At(r, "archive") /\ req[r].row.seal = "lost"
          /\ req[r].pc \notin {"idle", "upsert"}
      BY <2>1 DEF TokenUnreadable, RemoveItem
    <3>2. QED
      BY <3>1, EndedMoves, AtMoves DEF Counters
  <2>2. CASE ArchiveRow(r)
    <3>1. CASE Unchanged(r)
      <4>1. /\ req[r].pc = "archive" /\ req[r].row.seal = "lost"
            /\ req[r].item \in Item /\ req[r].row \in ItemRow
        BY <1>0, <2>2 DEF ArchiveRow, Holding
      <4>2. items[req[r].item] = req[r].row
        BY <1>0, <3>1, <4>1 DEF Unchanged, Stored, ReadBefore, ItemRow
      <4>3. PICK u : u = [req[r] EXCEPT !.pc = "clear", !.arch = req[r].row]
        OBVIOUS
      <4>4. /\ u \in RequestState /\ u.pc = "clear" /\ u.item = req[r].item
            /\ u.row = req[r].row /\ u.arch = req[r].row
        BY <1>0, <4>1, <4>3 DEF RequestState
      <4>5. Holding(u) /\ Keeps(req[r], u)
        BY <1>0, <4>1, <4>4 DEF Holding, Keeps
      <4>6. req' = [req EXCEPT ![r] = u]
        BY <1>0, <2>2, <3>1, <4>2, <4>3 DEF ArchiveRow
      <4>7. QED
        BY <4>4, <4>5, <4>6 DEF Moves
    <3>2. CASE ~Unchanged(r)
      BY <2>2, <3>2, EndedMoves DEF ArchiveRow
    <3>3. QED
      BY <3>1, <3>2
  <2>3. CASE ClearLinks(r)
    <3>1. PICK w : w = [a \in Account |-> IF a \in Linked(r) THEN NoLink ELSE Unwritten]
      OBVIOUS
    <3>2. PICK u : u = [req[r] EXCEPT !.pc = "delete", !.wr = w]
      OBVIOUS
    <3>3. w \in [Account -> Link \cup {NoLink, Unwritten}]
      BY <3>1
    <3>4. /\ u \in RequestState /\ u.pc = "delete" /\ u.item = req[r].item
          /\ u.row = req[r].row /\ u.arch = req[r].arch
      BY <1>0, <3>2, <3>3 DEF RequestState
    <3>5. Holding(u) /\ Keeps(req[r], u)
      BY <1>0, <2>3, <3>4 DEF Holding, Keeps, ClearLinks
    <3>6. req' = [req EXCEPT ![r] = u]
      BY <1>0, <2>3, <3>1, <3>2 DEF ClearLinks
    <3>7. QED
      BY <3>4, <3>5, <3>6 DEF Moves
  <2>4. CASE RemoveItemAgain(r) \/ RemoveItemUnanswered(r) \/ DeadlockVictim(r)
             \/ RequestFault(r)
    BY <2>4, EndedMoves
    DEF RemoveItemAgain, RemoveItemUnanswered, DeadlockVictim, RequestFault
  <2>5. QED
    BY <2>1, <2>2, <2>3, <2>4
<1>4. QED
  BY <1>0, <1>1, <1>2, <1>3, RequestMoves DEF LinkInv, LinkTypeOK

(* The steps that write plaid_items. *)
LEMMA NextVersion ==
    ASSUME NEW old \in ItemRow, NEW tok \in Nat, NEW row,
           \/ row = [old EXCEPT !.tok = tok, !.seal = "primary", !.ver = @ + 1]
           \/ row = [old EXCEPT !.ver = @ + 1]
    PROVE  row \in ItemRow /\ row.gen = old.gen /\ old.ver < row.ver
<1>1. old.ver \in Nat /\ old.ver + 1 \in Nat /\ old.ver < old.ver + 1
  BY DEF ItemRow
<1>2. row.ver = old.ver + 1 /\ row.gen = old.gen
  BY DEF ItemRow
<1>3. row \in ItemRow
  BY <1>1 DEF ItemRow, Seal
<1>4. QED
  BY <1>1, <1>2, <1>3

LEMMA UpsertKeepsTypes ==
    ASSUME LinkInv, NEW r \in Request, UpsertItem(r)
    PROVE  LinkInv'
<1>1. PICK i \in Item, row \in ItemRow : i = req[r].item /\ row = req[r].row
  BY DEF UpsertItem, LinkInv, HeldInv, Holding
<1>2. /\ items' = [items EXCEPT ![i] = Upserted(r, items[i])]
      /\ gens' = IF items[i] = NoItem THEN [gens EXCEPT ![i] = gens[i] + 1] ELSE gens
      /\ newest' = [newest EXCEPT ![i] = row.tok]
      /\ req' = Ended(r) /\ UNCHANGED <<plaid, issued, links, audit, bounds>>
  BY <1>1 DEF UpsertItem, LinkInv, LinkTypeOK
<1>3. /\ items \in [Item -> ItemRow \cup {NoItem}] /\ gens \in [Item -> Nat]
      /\ items[i] # NoItem => items[i].gen = gens[i]
  BY DEF LinkInv, LinkTypeOK
<1>4. CASE items[i] = NoItem
  <2>1. Upserted(r, items[i]) = [row EXCEPT !.gen = gens[i] + 1]
    BY <1>1, <1>4 DEF Upserted
  <2>2. /\ items'[i] \in ItemRow /\ items'[i].gen = gens[i] + 1
        /\ gens'[i] = gens[i] + 1
    BY <1>2, <1>3, <1>4, <2>1 DEF ItemRow
  <2>3. \A j \in Item \ {i} : items'[j] = items[j] /\ gens'[j] = gens[j]
    BY <1>2, <1>3, <1>4
  <2>4. Aged
    BY <1>3, <2>2, <2>3 DEF Aged
  <2>5. /\ items' \in [Item -> ItemRow \cup {NoItem}] /\ gens' \in [Item -> Nat]
        /\ \A j \in Item : items'[j] # NoItem => items'[j].gen = gens'[j]
    BY <1>2, <1>3, <1>4, <2>2, <2>3 DEF LinkInv, LinkTypeOK
  <2>6. LinkTypeOK'
    BY <1>2, <2>5, IdleHolds DEF LinkInv, LinkTypeOK, Ended, bounds, ItemRow
  <2>7. QED
    BY <1>2, <2>4, <2>6, EndedMoves, HeldStays DEF LinkInv
<1>5. CASE items[i] # NoItem
  <2>1. /\ Upserted(r, items[i]) = [items[i] EXCEPT !.tok = row.tok, !.seal = "primary",
                                                    !.ver = @ + 1]
        /\ items[i] \in ItemRow
    BY <1>1, <1>3, <1>5 DEF Upserted
  <2>2. /\ items'[i] \in ItemRow /\ items'[i].gen = items[i].gen
        /\ items[i].ver < items'[i].ver /\ gens' = gens
    <3>1. row.tok \in Nat
      BY DEF ItemRow
    <3>2. PICK new : new = Upserted(r, items[i])
      OBVIOUS
    <3>3. new \in ItemRow /\ new.gen = items[i].gen /\ items[i].ver < new.ver
      BY <2>1, <3>1, <3>2, NextVersion
    <3>4. items'[i] = new /\ gens' = gens
      BY <1>2, <1>3, <1>5, <3>2
    <3>5. QED
      BY <3>3, <3>4
  <2>3. \A j \in Item \ {i} : items'[j] = items[j]
    BY <1>2, <1>3
  <2>4. Aged
    BY <1>3, <1>5, <2>2, <2>3 DEF Aged
  <2>5. /\ items' \in [Item -> ItemRow \cup {NoItem}] /\ gens' \in [Item -> Nat]
        /\ \A j \in Item : items'[j] # NoItem => items'[j].gen = gens'[j]
    BY <1>2, <1>3, <2>2, <2>3 DEF LinkInv, LinkTypeOK
  <2>6. LinkTypeOK'
    BY <1>2, <2>5, IdleHolds DEF LinkInv, LinkTypeOK, Ended, bounds, ItemRow
  <2>7. QED
    BY <1>2, <2>4, <2>6, EndedMoves, HeldStays DEF LinkInv
<1>6. QED
  BY <1>4, <1>5

(* A row that keeps its guid and gets a new version. *)
LEMMA RewrittenAges ==
    ASSUME LinkInv, NEW i \in Item, NEW row \in ItemRow, items[i] # NoItem,
           row.gen = items[i].gen, items[i].ver < row.ver,
           items' = [items EXCEPT ![i] = row], gens' = gens
    PROVE  /\ Aged
           /\ items' \in [Item -> ItemRow \cup {NoItem}]
           /\ \A j \in Item : items'[j] # NoItem => items'[j].gen = gens'[j]
<1>1. /\ items \in [Item -> ItemRow \cup {NoItem}] /\ gens \in [Item -> Nat]
      /\ \A j \in Item : items[j] # NoItem => items[j].gen = gens[j]
  BY DEF LinkInv, LinkTypeOK
<1>2. items'[i] = row /\ \A j \in Item \ {i} : items'[j] = items[j]
  BY <1>1
<1>3. QED
  BY <1>1, <1>2 DEF Aged

LEMMA SyncKeepsLinkTypes ==
    ASSUME LinkInv, NEW r \in Request, LoadToken(r) \/ TouchItem(r)
    PROVE  LinkInv'
<1>1. PICK i \in Item, row \in ItemRow : i = req[r].item /\ row = req[r].row
  BY DEF LoadToken, TouchItem, LinkInv, HeldInv, Holding
<1>2. /\ items \in [Item -> ItemRow \cup {NoItem}] /\ gens \in [Item -> Nat]
      /\ UNCHANGED <<plaid, issued, gens, links, audit, newest, bounds>>
  BY DEF LinkInv, LinkTypeOK, LoadToken, TouchItem
<1>3. Moves(r)
  <2>1. CASE LoadToken(r)
    <3>1. PICK l \in {"touch", "remove"} : req' = At(r, l)
      BY <2>1 DEF LoadToken
    <3>2. req[r].pc \notin {"idle", "upsert"}
      BY <2>1 DEF LoadToken
    <3>3. QED
      BY <3>1, <3>2, AtMoves DEF Counters
  <2>2. CASE TouchItem(r)
    BY <2>2, EndedMoves DEF TouchItem
  <2>3. QED
    BY <2>1, <2>2
<1>4. /\ Aged
      /\ items' \in [Item -> ItemRow \cup {NoItem}]
      /\ \A j \in Item : items'[j] # NoItem => items'[j].gen = gens'[j]
  <2>1. CASE items' = items
    BY <1>2, <2>1 DEF Aged, LinkInv, LinkTypeOK
  <2>2. CASE items' # items
    <3>1. items[i] # NoItem /\ items[i] \in ItemRow
      BY <1>1, <1>2, <2>2 DEF LoadToken, TouchItem, Unchanged, Stored
    <3>2. PICK new \in ItemRow :
              /\ new.gen = items[i].gen /\ items[i].ver < new.ver
              /\ items' = [items EXCEPT ![i] = new]
      <4>1. CASE LoadToken(r)
        <5>1. items' = [items EXCEPT ![i] = [items[i] EXCEPT
                            !.tok = row.tok, !.seal = "primary", !.ver = @ + 1]]
          BY <1>1, <1>2, <2>2, <4>1 DEF LoadToken
        <5>2. PICK new : new = [items[i] EXCEPT !.tok = row.tok, !.seal = "primary",
                                                !.ver = @ + 1]
          OBVIOUS
        <5>3. new \in ItemRow /\ new.gen = items[i].gen /\ items[i].ver < new.ver
          <6>1. row.tok \in Nat
            BY DEF ItemRow
          <6>2. QED
            BY <3>1, <5>2, <6>1, NextVersion
        <5>4. QED
          BY <5>1, <5>2, <5>3
      <4>2. CASE TouchItem(r)
        <5>1. items' = [items EXCEPT ![i] = [items[i] EXCEPT !.ver = @ + 1]]
          BY <1>1, <1>2, <2>2, <4>2 DEF TouchItem
        <5>2. PICK new : new = [items[i] EXCEPT !.ver = @ + 1]
          OBVIOUS
        <5>3. new \in ItemRow /\ new.gen = items[i].gen /\ items[i].ver < new.ver
          BY <3>1, <5>2, NextVersion
        <5>4. QED
          BY <5>1, <5>2, <5>3
      <4>3. QED
        BY <4>1, <4>2
    <3>3. QED
      BY <1>2, <3>1, <3>2, RewrittenAges
  <2>3. QED
    BY <2>1, <2>2
<1>5. LinkTypeOK'
  <2>1. req' \in [Request -> RequestState]
    BY <1>3 DEF Moves, LinkInv, LinkTypeOK
  <2>2. QED
    BY <1>2, <1>4, <2>1 DEF LinkInv, LinkTypeOK, bounds
<1>6. QED
  BY <1>3, <1>4, <1>5, HeldStays DEF LinkInv

LEMMA DeleteKeepsTypes ==
    ASSUME LinkInv, NEW r \in Request, DeleteItem(r)
    PROVE  LinkInv'
<1>1. PICK i \in Item, row \in ItemRow : i = req[r].item /\ row = req[r].row
  BY DEF DeleteItem, LinkInv, HeldInv, Holding
<1>2. /\ items \in [Item -> ItemRow \cup {NoItem}] /\ gens \in [Item -> Nat]
      /\ UNCHANGED <<plaid, issued, gens, newest, bounds>> /\ req' = Ended(r)
      /\ items' \in {items, [items EXCEPT ![i] = NoItem]}
  BY <1>1 DEF LinkInv, LinkTypeOK, DeleteItem
<1>3. links' \in [Account -> Link \cup {NoLink}]
  BY ViewType DEF DeleteItem, LinkInv, LinkTypeOK
<1>4. audit' \subseteq [item : Item, row : ItemRow]
  <2>1. req[r].arch # NoItem => req[r].arch \in ItemRow
    BY DEF LinkInv, LinkTypeOK, RequestState
  <2>2. QED
    BY <1>1, <2>1 DEF DeleteItem, LinkInv, LinkTypeOK
<1>5. Aged
  BY <1>2 DEF Aged, LinkInv, LinkTypeOK
<1>6. LinkTypeOK'
  BY <1>2, <1>3, <1>4, IdleHolds DEF LinkInv, LinkTypeOK, Ended, bounds
<1>7. QED
  BY <1>2, <1>5, <1>6, EndedMoves, HeldStays DEF LinkInv

LEMMA RekeyedType ==
    ASSUME NEW change, NEW seal \in Seal
    PROVE  Rekeyed(change, seal) \in Seal
BY DEF Rekeyed, Seal

LEMMA RestartKeepsTypes ==
    ASSUME LinkInv, Restart
    PROVE  LinkInv'
<1>1. PICK change :
          items' = [i \in Item |-> IF items[i] = NoItem THEN NoItem
                                   ELSE [items[i] EXCEPT !.seal = Rekeyed(change, @)]]
  BY DEF Restart
<1>2. ASSUME NEW i \in Item
      PROVE  /\ items'[i] \in ItemRow \cup {NoItem}
             /\ items'[i] # NoItem => items'[i].gen = gens[i]
  <2>1. items[i] # NoItem => items[i] \in ItemRow /\ items[i].gen = gens[i]
    BY DEF LinkInv, LinkTypeOK
  <2>2. CASE items[i] # NoItem
    <3>1. PICK new : new = Rekeyed(change, items[i].seal)
      OBVIOUS
    <3>2. new \in Seal
      BY <2>1, <2>2, <3>1, RekeyedType DEF ItemRow
    <3>3. items'[i] = [items[i] EXCEPT !.seal = new]
      BY <1>1, <2>2, <3>1
    <3>4. QED
      BY <2>1, <2>2, <3>2, <3>3 DEF ItemRow
  <2>3. QED
    BY <1>1, <2>2
<1>3. LinkTypeOK'
  <2>1. items' \in [Item -> ItemRow \cup {NoItem}]
    BY <1>1, <1>2
  <2>2. req' \in [Request -> RequestState]
    BY IdleHolds DEF Restart
  <2>3. restarts' \in 0..MaxRestarts
    BY LinkConstantsAssumption DEF Restart, LinkInv, LinkTypeOK
  <2>4. QED
    BY <1>2, <2>1, <2>2, <2>3 DEF Restart, LinkInv, LinkTypeOK
<1>4. HeldInv'
  BY DEF Restart, HeldInv, Holding, ReadBefore, NoRequest
<1>5. QED
  BY <1>3, <1>4 DEF LinkInv

LEMMA InitLinks == Init => LinkInv
<1> SUFFICES ASSUME Init PROVE LinkInv
  OBVIOUS
<1>1. PICK old \in SUBSET Item :
          /\ plaid = [i \in Item |-> IF i \in old THEN "alive" ELSE "new"]
          /\ items = [i \in Item |->
                        IF i \in old THEN [gen |-> 1, tok |-> 0, seal |-> "legacy", ver |-> 1]
                        ELSE NoItem]
          /\ gens = [i \in Item |-> IF i \in old THEN 1 ELSE 0]
  BY DEF Init
<1>2. [gen |-> 1, tok |-> 0, seal |-> "legacy", ver |-> 1] \in ItemRow
  BY DEF ItemRow, Seal
<1>3. LinkTypeOK
  BY <1>1, <1>2, IdleHolds, LinkConstantsAssumption DEF Init, LinkTypeOK
<1>4. HeldInv
  BY DEF Init, HeldInv, Holding, ReadBefore, NoRequest
<1>5. QED
  BY <1>3, <1>4 DEF LinkInv

LEMMA StepLinks == LinkInv /\ [Next]_vars => LinkInv'
<1> SUFFICES ASSUME LinkInv, [Next]_vars PROVE LinkInv'
  OBVIOUS
<1>1. ASSUME NEW r \in Request, RequestStep(r) \/ RequestFault(r)
      PROVE  LinkInv'
  BY <1>1, UpsertKeepsTypes, LinkKeepsTypes, DisconnectKeepsTypes, SyncKeepsLinkTypes,
     DeleteKeepsTypes DEF RequestStep
<1>2. CASE UNCHANGED vars
  BY <1>2 DEF vars, bounds, LinkInv, LinkTypeOK, HeldInv, Holding, ReadBefore
<1>3. QED
  BY <1>1, <1>2, StartsKeepTypes, RestartKeepsTypes DEF Next, Quiet

LEMMA LinksAlways == Spec => []LinkInv
BY InitLinks, StepLinks, PTL DEF Spec

(* Exchange, LinkAccounts, Sync and Disconnect, restarts and key changes   *)
(* keep the types: a stored row carries the guid its item had last.        *)
THEOREM LinkTypes == Spec => []LinkTypeOK
BY LinksAlways, PTL DEF LinkInv
-----------------------------------------------------------------------------
(* A forced Disconnect archives the row it read, and it is forced because  *)
(* no key opens that row.                                                  *)
THEOREM OnlyUnreadableArchived == Spec => []ArchivedUnreadable
<1>1. Init => ArchivedUnreadable
  BY DEF Init, ArchivedUnreadable
<1>2. ASSUME LinkInv, ArchivedUnreadable, [Next]_vars
      PROVE  ArchivedUnreadable'
  <2>1. ASSUME NEW r \in Request, DeleteItem(r)
        PROVE  ArchivedUnreadable'
    <3>1. req[r].arch # NoItem => req[r].arch.seal = "lost"
      BY <1>2 DEF LinkInv, HeldInv, Holding
    <3>2. audit' \subseteq audit \/
          (req[r].arch # NoItem /\
           audit' = audit \cup {[item |-> req[r].item, row |-> req[r].arch]})
      BY <2>1 DEF DeleteItem
    <3>3. QED
      BY <1>2, <3>1, <3>2 DEF ArchivedUnreadable
  <2>2. audit' = audit \/ \E r \in Request : DeleteItem(r)
    BY <1>2 DEF Next, vars, Quiet, Restart, RequestFault, RequestStep, ExchangeToken,
       StartLink, StartSync, StartDisconnect, ReadItemRow, UpsertItem, CountHolders,
       CheckExisting, WriteLink, CommitLinks, LinkFrame, LoadToken, TokenUnreadable,
       TouchItem, RemoveItem, RemoveItemAgain, RemoveItemUnanswered, ArchiveRow,
       ClearLinks, DeadlockVictim
  <2>3. QED
    BY <1>2, <2>1, <2>2 DEF ArchivedUnreadable
<1>3. QED
  BY <1>1, <1>2, LinksAlways, PTL DEF Spec
-----------------------------------------------------------------------------
(* The newest token of a live item is in its row or in the archive.        *)

LEMMA TokenStays ==
    ASSUME TokenKept, newest' = newest, audit \subseteq audit',
           \A i \in Item : plaid'[i] = "alive" /\ gens'[i] > 0 =>
                plaid[i] = "alive" /\ gens[i] > 0,
           \A i \in Item : items[i] # NoItem =>
                items'[i] # NoItem /\ items'[i].tok = items[i].tok
    PROVE  TokenKept'
<1>1. ASSUME NEW i \in Item, plaid'[i] = "alive", gens'[i] > 0
      PROVE  \/ items'[i] # NoItem /\ items'[i].tok = newest'[i]
             \/ \E e \in audit' : e.item = i /\ e.row.tok = newest'[i]
  <2>1. plaid[i] = "alive" /\ gens[i] > 0
    BY <1>1
  <2>2. \/ items[i] # NoItem /\ items[i].tok = newest[i]
        \/ \E e \in audit : e.item = i /\ e.row.tok = newest[i]
    BY <2>1 DEF TokenKept
  <2>3. QED
    BY <2>2
<1>2. QED
  BY <1>1 DEF TokenKept

LEMMA KnowsStays ==
    ASSUME LinkInv, PlaidKnows, gens' = gens, NEW r \in Request,
           \A i \in Item : plaid[i] # "new" => plaid'[i] # "new",
           \A i \in Item : plaid[i] = "removed" => plaid'[i] = "removed",
           \A q \in Request \ {r} : req'[q] = req[q],
           req'[r].pc = "upsert" => plaid'[req'[r].item] # "new",
           req'[r].pc \in {"clear", "delete"} /\ req'[r].arch = NoItem =>
                plaid'[req'[r].item] = "removed"
    PROVE  PlaidKnows'
<1>1. \A q \in Request \ {r} : req[q].pc # "idle" => req[q].item \in Item
  BY DEF LinkInv, HeldInv, Holding
<1>2. ASSUME NEW q \in Request \ {r}
      PROVE  /\ req'[q].pc = "upsert" => plaid'[req'[q].item] # "new"
             /\ req'[q].pc \in {"clear", "delete"} /\ req'[q].arch = NoItem =>
                   plaid'[req'[q].item] = "removed"
  BY <1>1 DEF PlaidKnows
<1>3. \A i \in Item : gens'[i] > 0 => plaid'[i] # "new"
  BY DEF PlaidKnows
<1>4. QED
  BY <1>2, <1>3 DEF PlaidKnows

LEMMA AtPlace ==
    ASSUME LinkInv, NEW r \in Request, NEW l, req' = At(r, l)
    PROVE  /\ req'[r].pc = l /\ req'[r].item = req[r].item
           /\ req'[r].arch = req[r].arch
           /\ \A q \in Request \ {r} : req'[q] = req[q]
<1>1. req \in [Request -> RequestState]
  BY DEF LinkInv, LinkTypeOK
<1>2. QED
  BY <1>1 DEF At, RequestState

LEMMA EndedPlace ==
    ASSUME LinkInv, NEW r \in Request, req' = Ended(r)
    PROVE  /\ req'[r].pc = "idle"
           /\ \A q \in Request \ {r} : req'[q] = req[q]
<1>1. req \in [Request -> RequestState]
  BY DEF LinkInv, LinkTypeOK
<1>2. QED
  BY <1>1 DEF Ended, NoRequest

(* Steps that leave plaid_items, the archive and Plaid alone, and do not   *)
(* reach the part of a Disconnect behind Plaid's answer. *)
LEMMA TokenUntouched ==
    ASSUME LinkInv, TokenInv, NEW r \in Request,
           \/ CountHolders(r) \/ CheckExisting(r) \/ WriteLink(r) \/ CommitLinks(r)
           \/ TokenUnreadable(r) \/ RemoveItemAgain(r) \/ ArchiveRow(r) \/ ClearLinks(r)
           \/ DeadlockVictim(r) \/ RequestFault(r)
    PROVE  TokenInv'
<1>0. /\ req \in [Request -> RequestState]
      /\ UNCHANGED <<plaid, items, gens, audit, newest>>
  BY DEF LinkInv, LinkTypeOK, CountHolders, CheckExisting, WriteLink, CommitLinks,
         TokenUnreadable, RemoveItemAgain, ArchiveRow, ClearLinks, DeadlockVictim,
         RequestFault, LinkFrame
<1>1. TokenKept'
  BY <1>0, TokenStays DEF TokenInv
<1>2. PlaidKnows'
  <2>1. ASSUME NEW l \in {"existing", "write", "archive"}, req' = At(r, l)
        PROVE  PlaidKnows'
    BY <1>0, <2>1, AtPlace, KnowsStays DEF TokenInv
  <2>2. CASE req' = Ended(r)
    BY <1>0, <2>2, EndedPlace, KnowsStays DEF TokenInv
  <2>3. CASE WriteLink(r) /\ req' # Ended(r)
    <3>1. PICK m : m = Head(req[r].todo)
      OBVIOUS
    <3>2. req' = [req EXCEPT ![r].pc = "count", ![r].todo = Tail(@),
                             ![r].wr[m.account] = LinkOf(r, m)]
      BY <2>3, <3>1 DEF WriteLink
    <3>3. req'[r].pc = "count" /\ \A q \in Request \ {r} : req'[q] = req[q]
      BY <1>0, <3>2 DEF RequestState
    <3>4. QED
      BY <1>0, <3>3, KnowsStays DEF TokenInv
  <2>4. CASE ArchiveRow(r) /\ req' # Ended(r)
    <3>1. /\ req' = [req EXCEPT ![r].pc = "clear", ![r].arch = items[req[r].item]]
          /\ items[req[r].item] # NoItem
      BY <2>4 DEF ArchiveRow, Unchanged, Stored
    <3>2. req'[r].pc = "clear" /\ req'[r].arch # NoItem
          /\ \A q \in Request \ {r} : req'[q] = req[q]
      BY <1>0, <3>1 DEF RequestState
    <3>3. QED
      BY <1>0, <3>2, KnowsStays DEF TokenInv
  <2>5. CASE ClearLinks(r)
    <3>1. PICK w : w = [a \in Account |-> IF a \in Linked(r) THEN NoLink ELSE Unwritten]
      OBVIOUS
    <3>2. req' = [req EXCEPT ![r].pc = "delete", ![r].wr = w] /\ req[r].pc = "clear"
      BY <2>5, <3>1 DEF ClearLinks
    <3>3. req'[r].pc = "delete" /\ req'[r].arch = req[r].arch
          /\ req'[r].item = req[r].item /\ \A q \in Request \ {r} : req'[q] = req[q]
      BY <1>0, <3>2 DEF RequestState
    <3>4. req[r].arch = NoItem => plaid[req[r].item] = "removed"
      BY <3>2 DEF TokenInv, PlaidKnows
    <3>5. QED
      BY <1>0, <3>3, <3>4, KnowsStays DEF TokenInv
  <2>6. QED
    BY <2>1, <2>2, <2>3, <2>4, <2>5
    DEF CountHolders, CheckExisting, CommitLinks, TokenUnreadable, RemoveItemAgain,
        DeadlockVictim, RequestFault
<1>3. QED
  BY <1>1, <1>2 DEF TokenInv

LEMMA StartsKeepToken ==
    ASSUME LinkInv, TokenInv, NEW r \in Request, NEW i \in Item,
           \/ ExchangeToken(r, i) \/ StartLink(r, i) \/ StartSync(r, i)
           \/ StartDisconnect(r, i)
    PROVE  TokenInv'
<1>0. /\ req \in [Request -> RequestState] /\ plaid \in [Item -> {"new", "alive", "removed"}]
      /\ UNCHANGED <<items, gens, audit, newest>>
  BY DEF LinkInv, LinkTypeOK, ExchangeToken, StartLink, StartSync, StartDisconnect,
         ReadItemRow
<1>1. CASE ExchangeToken(r, i)
  <2>1. PICK tok : tok = [gen |-> 0, tok |-> issued + 1, seal |-> "primary", ver |-> 1]
    OBVIOUS
  <2>2. /\ req' = [req EXCEPT ![r] = [NoRequest EXCEPT !.pc = "upsert",
                                !.kind = "exchange", !.item = i, !.row = tok]]
        /\ plaid[i] # "removed" /\ plaid' = [plaid EXCEPT ![i] = "alive"]
    BY <1>1, <2>1 DEF ExchangeToken
  <2>3. req'[r].pc = "upsert" /\ req'[r].item = i
        /\ \A q \in Request \ {r} : req'[q] = req[q]
    BY <1>0, <2>2 DEF NoRequest
  <2>4. \A j \in Item : plaid'[j] = IF j = i THEN "alive" ELSE plaid[j]
    BY <1>0, <2>2
  <2>5. PlaidKnows'
    BY <1>0, <2>2, <2>3, <2>4, KnowsStays DEF TokenInv
  <2>6. \A j \in Item : plaid'[j] = "alive" /\ gens'[j] > 0 =>
            plaid[j] = "alive" /\ gens[j] > 0
    BY <1>0, <2>2, <2>4 DEF TokenInv, PlaidKnows
  <2>7. QED
    BY <1>0, <2>5, <2>6, TokenStays DEF TokenInv
<1>2. ASSUME NEW kind, NEW l \in {"count", "load"}, NEW ms, ReadItemRow(r, i, kind, l, ms)
      PROVE  TokenInv'
  <2>1. req'[r].pc = l /\ plaid' = plaid /\ \A q \in Request \ {r} : req'[q] = req[q]
    BY <1>0, <1>2 DEF ReadItemRow, NoRequest
  <2>2. QED
    BY <1>0, <2>1, KnowsStays, TokenStays DEF TokenInv
<1>3. CASE StartLink(r, i)
  BY <1>2, <1>3 DEF StartLink
<1>4. CASE StartSync(r, i) \/ StartDisconnect(r, i)
  <2>1. PICK ms : ms = <<>>
    OBVIOUS
  <2>2. QED
    BY <1>2, <1>4, <2>1 DEF StartSync, StartDisconnect
<1>5. QED
  BY <1>1, <1>3, <1>4

LEMMA UpsertKeepsToken ==
    ASSUME LinkInv, TokenInv, NEW r \in Request, UpsertItem(r)
    PROVE  TokenInv'
<1>1. PICK i \in Item, row \in ItemRow : i = req[r].item /\ row = req[r].row
  BY DEF UpsertItem, LinkInv, HeldInv, Holding
<1>2. /\ items' = [items EXCEPT ![i] = Upserted(r, items[i])]
      /\ gens' = IF items[i] = NoItem THEN [gens EXCEPT ![i] = gens[i] + 1] ELSE gens
      /\ newest' = [newest EXCEPT ![i] = row.tok]
      /\ req' = Ended(r) /\ UNCHANGED <<plaid, audit>> /\ plaid[i] # "new"
  BY <1>1 DEF UpsertItem, LinkInv, LinkTypeOK, TokenInv, PlaidKnows
<1>3. /\ items \in [Item -> ItemRow \cup {NoItem}] /\ gens \in [Item -> Nat]
      /\ newest \in [Item -> Nat]
  BY DEF LinkInv, LinkTypeOK
<1>4. items'[i] # NoItem /\ items'[i].tok = newest'[i]
  <2>1. PICK new : new = Upserted(r, items[i])
    OBVIOUS
  <2>2. new \in ItemRow /\ new.tok = row.tok
    <3>1. CASE items[i] = NoItem
      <4>1. gens[i] + 1 \in Nat /\ new = [row EXCEPT !.gen = gens[i] + 1]
        BY <1>1, <1>3, <2>1, <3>1 DEF Upserted
      <4>2. QED
        BY <4>1 DEF ItemRow
    <3>2. CASE items[i] # NoItem
      <4>1. /\ items[i] \in ItemRow /\ row.tok \in Nat
            /\ new = [items[i] EXCEPT !.tok = row.tok, !.seal = "primary", !.ver = @ + 1]
        BY <1>1, <1>3, <2>1, <3>2 DEF Upserted, ItemRow
      <4>2. new \in ItemRow
        BY <4>1, NextVersion
      <4>3. new.tok = row.tok
        BY <4>1 DEF ItemRow
      <4>4. QED
        BY <4>2, <4>3
    <3>3. QED
      BY <3>1, <3>2
  <2>3. items'[i] = new /\ newest'[i] = row.tok
    BY <1>2, <1>3, <2>1
  <2>4. QED
    BY <2>2, <2>3, LinkSentinelAssumption
<1>5. \A j \in Item \ {i} : /\ items'[j] = items[j] /\ gens'[j] = gens[j]
                            /\ newest'[j] = newest[j]
  BY <1>2, <1>3
<1>6. TokenKept'
  BY <1>2, <1>4, <1>5 DEF TokenInv, TokenKept
<1>7. PlaidKnows'
  <2>1. \A j \in Item : gens'[j] > 0 => plaid'[j] # "new"
    BY <1>2, <1>5 DEF TokenInv, PlaidKnows
  <2>2. req'[r].pc = "idle" /\ \A q \in Request \ {r} : req'[q] = req[q]
    BY <1>2, EndedPlace
  <2>3. ASSUME NEW q \in Request
        PROVE  /\ req'[q].pc = "upsert" => plaid'[req'[q].item] # "new"
               /\ req'[q].pc \in {"clear", "delete"} /\ req'[q].arch = NoItem =>
                     plaid'[req'[q].item] = "removed"
    BY <1>2, <2>2 DEF TokenInv, PlaidKnows
  <2>4. QED
    BY <2>1, <2>3 DEF PlaidKnows
<1>8. QED
  BY <1>6, <1>7 DEF TokenInv

(* A re-seal writes the token it read over the very version it read. *)
LEMMA LoadKeepsToken ==
    ASSUME LinkInv, TokenInv, NEW r \in Request, LoadToken(r) \/ TouchItem(r)
    PROVE  TokenInv'
<1>1. PICK i \in Item, row \in ItemRow : i = req[r].item /\ row = req[r].row
  BY DEF LoadToken, TouchItem, LinkInv, HeldInv, Holding
<1>2. /\ items \in [Item -> ItemRow \cup {NoItem}]
      /\ UNCHANGED <<plaid, gens, audit, newest>>
  BY DEF LinkInv, LinkTypeOK, LoadToken, TouchItem
<1>3. \A j \in Item : items[j] # NoItem =>
          items'[j] # NoItem /\ items'[j].tok = items[j].tok
  <2>1. CASE items' = items
    BY <2>1
  <2>2. CASE LoadToken(r) /\ items' # items
    <3>1. /\ Unchanged(r) /\ req[r].pc = "load"
          /\ items' = [items EXCEPT ![i] = [items[i] EXCEPT
                          !.tok = row.tok, !.seal = "primary", !.ver = @ + 1]]
      BY <1>1, <1>2, <2>2 DEF LoadToken
    <3>2. /\ items[i] # NoItem /\ items[i] \in ItemRow
          /\ items[i].gen = row.gen /\ items[i].ver = row.ver
      BY <1>1, <1>2, <3>1 DEF Unchanged, Stored
    <3>3. row = items[i]
      <4>1. row.ver < items[i].ver \/ row = items[i]
        BY <1>1, <3>1, <3>2 DEF LinkInv, HeldInv, ReadBefore
      <4>2. ~(row.ver < items[i].ver)
        BY <3>2 DEF ItemRow
      <4>3. QED
        BY <4>1, <4>2
    <3>4. PICK new : new = [items[i] EXCEPT !.tok = row.tok, !.seal = "primary",
                                            !.ver = @ + 1]
      OBVIOUS
    <3>5. row.tok \in Nat
      BY DEF ItemRow
    <3>6. new \in ItemRow /\ new.tok = items[i].tok
      BY <3>2, <3>3, <3>4, <3>5, NextVersion DEF ItemRow
    <3>7. items' = [items EXCEPT ![i] = new]
      BY <3>1, <3>4
    <3>8. QED
      BY <1>2, <3>6, <3>7, LinkSentinelAssumption
  <2>3. CASE TouchItem(r) /\ items' # items
    <3>1. /\ items' = [items EXCEPT ![i] = [items[i] EXCEPT !.ver = @ + 1]]
          /\ items[i] \in ItemRow
      BY <1>1, <1>2, <2>3 DEF TouchItem, Stored
    <3>2. PICK new : new = [items[i] EXCEPT !.ver = @ + 1]
      OBVIOUS
    <3>3. PICK tok : tok \in Nat /\ tok = items[i].tok
      BY <3>1 DEF ItemRow
    <3>4. new \in ItemRow /\ new.tok = items[i].tok
      BY <3>1, <3>2, <3>3, NextVersion DEF ItemRow
    <3>5. items' = [items EXCEPT ![i] = new]
      BY <3>1, <3>2
    <3>6. QED
      BY <1>2, <3>4, <3>5, LinkSentinelAssumption
  <2>4. QED
    BY <2>1, <2>2, <2>3
<1>4. TokenKept'
  BY <1>2, <1>3, TokenStays DEF TokenInv
<1>5. PlaidKnows'
  <2>1. ASSUME NEW l \in {"touch", "remove"}, req' = At(r, l)
        PROVE  PlaidKnows'
    BY <1>2, <2>1, AtPlace, KnowsStays DEF TokenInv
  <2>2. CASE req' = Ended(r)
    BY <1>2, <2>2, EndedPlace, KnowsStays DEF TokenInv
  <2>3. QED
    BY <2>1, <2>2 DEF LoadToken, TouchItem
<1>6. QED
  BY <1>4, <1>5 DEF TokenInv

LEMMA RemoveKeepsToken ==
    ASSUME LinkInv, TokenInv, NEW r \in Request, RemoveItem(r) \/ RemoveItemUnanswered(r)
    PROVE  TokenInv'
<1>1. PICK i \in Item : i = req[r].item
  BY DEF RemoveItem, RemoveItemUnanswered, LinkInv, HeldInv, Holding
<1>2. /\ plaid' = [plaid EXCEPT ![i] = "removed"] /\ plaid \in [Item -> {"new", "alive", "removed"}]
      /\ UNCHANGED <<items, gens, audit, newest>>
  BY <1>1 DEF RemoveItem, RemoveItemUnanswered, LinkInv, LinkTypeOK
<1>3. \A j \in Item : plaid'[j] = IF j = i THEN "removed" ELSE plaid[j]
  BY <1>2
<1>4. TokenKept'
  BY <1>2, <1>3, TokenStays DEF TokenInv
<1>5. CASE RemoveItem(r)
  <2>1. req' = At(r, "clear")
    BY <1>5 DEF RemoveItem
  <2>2. req'[r].pc = "clear" /\ req'[r].item = i
        /\ \A q \in Request \ {r} : req'[q] = req[q]
    BY <1>1, <2>1, AtPlace
  <2>3. QED
    BY <1>2, <1>3, <1>4, <2>2, KnowsStays DEF TokenInv
<1>6. CASE RemoveItemUnanswered(r)
  BY <1>2, <1>3, <1>4, <1>6, EndedPlace, KnowsStays
  DEF TokenInv, RemoveItemUnanswered
<1>7. QED
  BY <1>5, <1>6

(* A Disconnect deletes the row of a removed item, or archives it. *)
LEMMA DeleteKeepsToken ==
    ASSUME LinkInv, TokenInv, NEW r \in Request, DeleteItem(r)
    PROVE  TokenInv'
<1>1. PICK i \in Item, row \in ItemRow : i = req[r].item /\ row = req[r].row
  BY DEF DeleteItem, LinkInv, HeldInv, Holding
<1>2. /\ items \in [Item -> ItemRow \cup {NoItem}] /\ req[r].pc = "delete"
      /\ UNCHANGED <<plaid, gens, newest>> /\ req' = Ended(r)
  BY DEF LinkInv, LinkTypeOK, DeleteItem
<1>3. PlaidKnows'
  BY <1>2, EndedPlace, KnowsStays DEF TokenInv
<1>4. CASE items' = items
  BY <1>2, <1>3, <1>4, TokenStays DEF TokenInv, DeleteItem
<1>5. CASE items' # items
  <2>1. /\ items' = [items EXCEPT ![i] = NoItem] /\ Stored(r)
        /\ audit' = IF req[r].arch = NoItem THEN audit
                    ELSE audit \cup {[item |-> i, row |-> req[r].arch]}
        /\ req[r].arch # NoItem => Unchanged(r)
    BY <1>1, <1>5 DEF DeleteItem
  <2>2. \A j \in Item \ {i} : items'[j] = items[j]
    BY <1>2, <2>1
  <2>3. CASE req[r].arch = NoItem
    <3>1. plaid'[i] = "removed"
      BY <1>1, <1>2, <2>3 DEF TokenInv, PlaidKnows
    <3>2. QED
      BY <1>2, <1>3, <2>1, <2>2, <2>3, <3>1 DEF TokenInv, TokenKept
  <2>4. CASE req[r].arch # NoItem
    <3>1. /\ items[i] # NoItem /\ items[i] \in ItemRow
          /\ items[i].gen = row.gen /\ items[i].ver = row.ver
      BY <1>1, <1>2, <2>1, <2>4 DEF Unchanged, Stored
    <3>2. row.ver < items[i].ver \/ row = items[i]
      BY <1>1, <1>2, <3>1 DEF LinkInv, HeldInv, ReadBefore
    <3>3. items[i] = req[r].arch
      BY <1>1, <2>4, <3>1, <3>2 DEF LinkInv, HeldInv, Holding, ItemRow
    <3>4. PICK e : e = [item |-> i, row |-> req[r].arch]
      OBVIOUS
    <3>5. e \in audit' /\ audit \subseteq audit' /\ e.item = i /\ e.row = items[i]
      BY <2>1, <2>4, <3>3, <3>4
    <3>6. ASSUME NEW j \in Item, plaid[j] = "alive", gens[j] > 0
          PROVE  \/ items'[j] # NoItem /\ items'[j].tok = newest[j]
                 \/ \E f \in audit' : f.item = j /\ f.row.tok = newest[j]
      <4>1. \/ items[j] # NoItem /\ items[j].tok = newest[j]
            \/ \E f \in audit : f.item = j /\ f.row.tok = newest[j]
        BY <3>6 DEF TokenInv, TokenKept
      <4>2. QED
        BY <2>2, <3>5, <4>1
    <3>7. QED
      BY <1>2, <1>3, <3>6 DEF TokenInv, TokenKept
  <2>5. QED
    BY <2>3, <2>4
<1>6. QED
  BY <1>4, <1>5

LEMMA RestartKeepsToken ==
    ASSUME LinkInv, TokenInv, Restart
    PROVE  TokenInv'
<1>1. PICK change :
          items' = [i \in Item |-> IF items[i] = NoItem THEN NoItem
                                   ELSE [items[i] EXCEPT !.seal = Rekeyed(change, @)]]
  BY DEF Restart
<1>2. UNCHANGED <<plaid, gens, audit, newest>> /\ \A q \in Request : req'[q] = NoRequest
  BY DEF Restart
<1>3. ASSUME NEW i \in Item, items[i] # NoItem
      PROVE  items'[i] # NoItem /\ items'[i].tok = items[i].tok
  <2>1. PICK new : new = Rekeyed(change, items[i].seal)
    OBVIOUS
  <2>2. items[i] \in ItemRow
    BY <1>3 DEF LinkInv, LinkTypeOK
  <2>3. new \in Seal
    BY <2>1, <2>2, RekeyedType DEF ItemRow
  <2>4. items'[i] = [items[i] EXCEPT !.seal = new]
    BY <1>1, <1>3, <2>1
  <2>5. items'[i] \in ItemRow /\ items'[i].tok = items[i].tok
    BY <2>2, <2>3, <2>4 DEF ItemRow
  <2>6. QED
    BY <2>5, LinkSentinelAssumption
<1>4. TokenKept'
  BY <1>2, <1>3, TokenStays DEF TokenInv
<1>5. PlaidKnows'
  BY <1>2 DEF TokenInv, PlaidKnows, NoRequest
<1>6. QED
  BY <1>4, <1>5 DEF TokenInv

LEMMA InitToken == Init => TokenInv
<1> SUFFICES ASSUME Init PROVE TokenInv
  OBVIOUS
<1>1. PICK old \in SUBSET Item :
          /\ plaid = [i \in Item |-> IF i \in old THEN "alive" ELSE "new"]
          /\ items = [i \in Item |->
                        IF i \in old THEN [gen |-> 1, tok |-> 0, seal |-> "legacy", ver |-> 1]
                        ELSE NoItem]
          /\ gens = [i \in Item |-> IF i \in old THEN 1 ELSE 0]
  BY DEF Init
<1>2. PICK row : row = [gen |-> 1, tok |-> 0, seal |-> "legacy", ver |-> 1]
  OBVIOUS
<1>3. row \in ItemRow /\ row.tok = 0
  BY <1>2 DEF ItemRow, Seal
<1>4. \A i \in Item : plaid[i] = "alive" => items[i] = row
  BY <1>1, <1>2
<1>5. TokenKept
  BY <1>3, <1>4, LinkSentinelAssumption DEF Init, TokenKept
<1>6. \A i \in Item : gens[i] > 0 => plaid[i] # "new"
  BY <1>1
<1>7. PlaidKnows
  BY <1>6 DEF Init, PlaidKnows, NoRequest
<1>8. QED
  BY <1>5, <1>7 DEF TokenInv

LEMMA StepToken == LinkInv /\ TokenInv /\ [Next]_vars => TokenInv'
<1> SUFFICES ASSUME LinkInv, TokenInv, [Next]_vars PROVE TokenInv'
  OBVIOUS
<1>1. ASSUME NEW r \in Request, RequestStep(r) \/ RequestFault(r)
      PROVE  TokenInv'
  BY <1>1, TokenUntouched, UpsertKeepsToken, LoadKeepsToken, RemoveKeepsToken,
     DeleteKeepsToken DEF RequestStep
<1>2. CASE UNCHANGED vars
  BY <1>2 DEF vars, TokenInv, TokenKept, PlaidKnows
<1>3. QED
  BY <1>1, <1>2, StartsKeepToken, RestartKeepsToken DEF Next, Quiet

(* No re-seal, no forced Disconnect and no Exchange of the same item, in   *)
(* whatever order they run, destroys the only copy of the newest token of  *)
(* an item that Plaid still bills.                                         *)
THEOREM NewestTokenKept == Spec => []TokenKept
<1>1. TokenInv => TokenKept
  BY DEF TokenInv
<1>2. QED
  BY <1>1, InitToken, StepToken, LinksAlways, PTL DEF Spec
-----------------------------------------------------------------------------
(* One ledger account per bank account: the partial unique index and the   *)
(* locks on the account rows carry it from statement to commit.            *)

LEMMA WrittenFacts ==
    ASSUME LinkTypeOK, NEW r \in Request
    PROVE  /\ req[r].wr \in [Account -> Link \cup {NoLink, Unwritten}]
           /\ Written(r) \subseteq Account
           /\ \A a \in Written(r) : View(r)[a] = req[r].wr[a]
           /\ \A a \in Account \ Written(r) : View(r)[a] = links[a]
BY DEF LinkTypeOK, RequestState, Written, View

(* Nothing is written: requests only keep or drop what they have written.  *)
LEMMA IndexStays ==
    ASSUME LinkTypeOK, IndexInv, links' = links,
           \A q \in Request : req'[q].wr = req[q].wr \/ req'[q].wr = NoWrites
    PROVE  IndexInv'
<1>1. ASSUME NEW q \in Request
      PROVE  \/ /\ Written(q)' = Written(q) /\ View(q)' = View(q)
                /\ req'[q].wr = req[q].wr
             \/ Written(q)' = {}
  BY DEF Written, View, NoWrites
<1>2. OneAccountPerBank'
  BY DEF IndexInv, OneAccountPerBank
<1>3. RowsLocked'
  BY <1>1 DEF IndexInv, RowsLocked
<1>4. ASSUME NEW r \in Request
      PROVE  WrittenOnce(r)'
  <2>1. ASSUME NEW a \in Written(r)', NEW b \in Account \ {a}, NEW k \in Bank,
               Names(req'[r].wr[a], k)
        PROVE  /\ ~Names(View(r)'[b], k)
               /\ \A q \in Request \ {r} : b \in Written(q)' => ~Names(req'[q].wr[b], k)
    <3>1. /\ a \in Written(r) /\ Names(req[r].wr[a], k) /\ View(r)' = View(r)
      BY <1>1, <2>1
    <3>2. /\ ~Names(View(r)[b], k)
          /\ \A q \in Request \ {r} : b \in Written(q) => ~Names(req[q].wr[b], k)
      BY <3>1 DEF IndexInv, WrittenOnce
    <3>3. QED
      BY <1>1, <3>1, <3>2
  <2>2. QED
    BY <2>1 DEF WrittenOnce, Names
<1>5. QED
  BY <1>2, <1>3, <1>4 DEF IndexInv

LEMMA IndexCommits ==
    ASSUME LinkTypeOK, IndexInv, NEW r \in Request, links' = View(r),
           req'[r].wr = NoWrites, \A q \in Request \ {r} : req'[q] = req[q]
    PROVE  IndexInv'
<1>1. /\ Written(r)' = {}
      /\ \A q \in Request \ {r} : Written(q)' = Written(q) /\ req'[q].wr = req[q].wr
  BY DEF Written, NoWrites
<1>2. OneAccountPerBank'
  <2>1. ASSUME NEW a \in Account, NEW b \in Account, a # b, View(r)[a] # NoLink,
               Names(View(r)[b], View(r)[a].bank)
        PROVE  FALSE
    <3>1. PICK k : k = View(r)[a].bank
      OBVIOUS
    <3>2. k \in Bank /\ Names(View(r)[a], k) /\ Names(View(r)[b], k)
      BY <2>1, <3>1, ViewType DEF Names, Link
    <3>3. CASE a \in Written(r) \/ b \in Written(r)
      BY <2>1, <3>2, <3>3, WrittenFacts DEF IndexInv, WrittenOnce
    <3>4. CASE a \notin Written(r) /\ b \notin Written(r)
      BY <2>1, <3>1, <3>2, <3>4, WrittenFacts DEF IndexInv, OneAccountPerBank
    <3>5. QED
      BY <3>3, <3>4
  <2>2. QED
    BY <2>1 DEF OneAccountPerBank, Names
<1>3. RowsLocked'
  BY <1>1 DEF IndexInv, RowsLocked
<1>4. ASSUME NEW q \in Request
      PROVE  WrittenOnce(q)'
  <2>1. CASE q = r
    BY <1>1, <2>1 DEF WrittenOnce
  <2>2. ASSUME q # r, NEW a \in Written(q), NEW b \in Account \ {a}, NEW k \in Bank,
               Names(req[q].wr[a], k)
        PROVE  /\ ~Names(View(q)'[b], k)
               /\ \A p \in Request \ {q} : b \in Written(p)' => ~Names(req'[p].wr[b], k)
    <3>1. /\ ~Names(View(q)[b], k)
          /\ \A p \in Request \ {q} : b \in Written(p) => ~Names(req[p].wr[b], k)
      BY <2>2 DEF IndexInv, WrittenOnce
    <3>2. \/ View(q)'[b] = View(q)[b]
          \/ b \in Written(r) /\ View(q)'[b] = req[r].wr[b]
      <4>1. View(q)'[b] = IF b \in Written(q) THEN req[q].wr[b] ELSE View(r)[b]
        BY <1>1, <2>2 DEF View
      <4>2. QED
        BY <4>1, WrittenFacts
    <3>3. QED
      BY <1>1, <2>2, <3>1, <3>2
  <2>3. QED
    BY <1>1, <2>1, <2>2 DEF WrittenOnce, Names
<1>5. QED
  BY <1>2, <1>3, <1>4 DEF IndexInv

LEMMA IndexWrites ==
    ASSUME LinkInv, IndexInv, NEW r \in Request, WriteLink(r), req' # Ended(r)
    PROVE  IndexInv'
<1>1. PICK m \in Mapping : m = Head(req[r].todo)
  BY DEF WriteLink, LinkInv, LinkTypeOK, HeldInv, Holding, RequestState
<1>2. PICK a0 \in Account, k0 \in Bank, l \in Link :
          /\ a0 = m.account /\ k0 = m.bank /\ l = LinkOf(r, m) /\ l.bank = k0
  BY LinkOfType DEF Mapping, WriteLink
<1>3. /\ req' = [req EXCEPT ![r].pc = "count", ![r].todo = Tail(@), ![r].wr[a0] = l]
      /\ IndexAllows(r, m) /\ links' = links /\ WaitsFor(r) = {} /\ req[r].pc = "write"
  BY <1>1, <1>2 DEF WriteLink
<1>4. /\ req \in [Request -> RequestState] /\ LinkTypeOK
      /\ req[r].wr \in [Account -> Link \cup {NoLink, Unwritten}]
  BY DEF LinkInv, LinkTypeOK, RequestState
<1>5. /\ req'[r].wr = [req[r].wr EXCEPT ![a0] = l]
      /\ \A q \in Request \ {r} : req'[q] = req[q]
  BY <1>3, <1>4 DEF RequestState
<1>6. \A q \in Request \ {r} : \A a \in Written(q) :
          a # a0 /\ ~Names(req[q].wr[a], k0)
  BY <1>1, <1>2, <1>3 DEF WaitsFor
<1>7. \A a \in Account \ {a0} : ~Names(View(r)[a], k0)
  BY <1>2, <1>3 DEF IndexAllows
<1>8. /\ Written(r)' = Written(r) \cup {a0}
      /\ \A q \in Request \ {r} : Written(q)' = Written(q) /\ View(q)' = View(q)
  BY <1>3, <1>4, <1>5, LinkSentinelAssumption DEF Written, View
<1>9. View(r)'[a0] = l /\ \A a \in Account \ {a0} : View(r)'[a] = View(r)[a]
  BY <1>3, <1>4, <1>5, <1>8 DEF View
<1>10. \A k : Names(l, k) <=> k = k0
  BY <1>2, LinkSentinelAssumption DEF Names
<1>11. OneAccountPerBank'
  BY <1>3 DEF IndexInv, OneAccountPerBank
<1>12. RowsLocked'
  BY <1>6, <1>8 DEF IndexInv, RowsLocked
<1>13. WrittenOnce(r)'
  <2>1. ASSUME NEW a \in Written(r)', NEW b \in Account \ {a}, NEW k \in Bank,
               Names(req'[r].wr[a], k)
        PROVE  /\ ~Names(View(r)'[b], k)
               /\ \A q \in Request \ {r} : b \in Written(q)' => ~Names(req'[q].wr[b], k)
    <3>1. CASE a = a0
      <4>1. k = k0
        BY <1>4, <1>5, <1>10, <2>1, <3>1
      <4>2. QED
        BY <1>5, <1>6, <1>7, <1>8, <1>9, <3>1, <4>1
    <3>2. CASE a # a0
      <4>1. a \in Written(r) /\ a \in Account /\ Names(req[r].wr[a], k)
        BY <1>4, <1>5, <1>8, <2>1, <3>2, WrittenFacts
      <4>2. /\ ~Names(View(r)[b], k)
            /\ \A q \in Request \ {r} : b \in Written(q) => ~Names(req[q].wr[b], k)
        BY <4>1 DEF IndexInv, WrittenOnce
      <4>3. k # k0
        BY <1>4, <1>7, <3>2, <4>1, WrittenFacts
      <4>4. ~Names(View(r)'[b], k)
        BY <1>9, <1>10, <4>2, <4>3
      <4>5. QED
        BY <1>5, <1>8, <4>2, <4>4
    <3>3. QED
      BY <3>1, <3>2
  <2>2. QED
    BY <2>1 DEF WrittenOnce, Names
<1>14. ASSUME NEW q \in Request \ {r}
       PROVE  WrittenOnce(q)'
  <2>1. ASSUME NEW a \in Written(q), NEW b \in Account \ {a}, NEW k \in Bank,
               Names(req[q].wr[a], k)
        PROVE  /\ ~Names(View(q)'[b], k)
               /\ \A p \in Request \ {q} : b \in Written(p)' => ~Names(req'[p].wr[b], k)
    <3>1. /\ ~Names(View(q)[b], k)
          /\ \A p \in Request \ {q} : b \in Written(p) => ~Names(req[p].wr[b], k)
      BY <2>1 DEF IndexInv, WrittenOnce
    <3>2. k # k0
      BY <1>6, <2>1
    <3>3. b \in Written(r)' => ~Names(req'[r].wr[b], k)
      BY <1>4, <1>5, <1>8, <1>10, <3>1, <3>2
    <3>4. QED
      BY <1>5, <1>8, <3>1, <3>3
  <2>2. QED
    BY <1>5, <1>8, <2>1 DEF WrittenOnce, Names
<1>15. QED
  BY <1>11, <1>12, <1>13, <1>14 DEF IndexInv

LEMMA IndexClears ==
    ASSUME LinkInv, IndexInv, NEW r \in Request, ClearLinks(r)
    PROVE  IndexInv'
<1>1. PICK w : w = [a \in Account |-> IF a \in Linked(r) THEN NoLink ELSE Unwritten]
  OBVIOUS
<1>2. /\ req' = [req EXCEPT ![r].pc = "delete", ![r].wr = w]
      /\ links' = links /\ WaitsFor(r) = {} /\ req[r].pc = "clear"
  BY <1>1 DEF ClearLinks
<1>3. req \in [Request -> RequestState]
  BY DEF LinkInv, LinkTypeOK
<1>4. /\ req'[r].wr = w /\ \A q \in Request \ {r} : req'[q] = req[q]
  BY <1>2, <1>3 DEF RequestState
<1>5. /\ Written(r)' = Linked(r) /\ \A a \in Linked(r) : w[a] = NoLink
      /\ \A q \in Request \ {r} : Written(q)' = Written(q) /\ View(q)' = View(q)
  <2>1. Linked(r) \subseteq Account
    BY DEF Linked
  <2>2. /\ \A a \in Linked(r) : w[a] = NoLink /\ w[a] # Unwritten
        /\ \A a \in Account \ Linked(r) : w[a] = Unwritten
    BY <1>1, <2>1, LinkSentinelAssumption
  <2>3. Written(r)' = {a \in Account : w[a] # Unwritten}
    BY <1>4 DEF Written
  <2>4. Written(r)' = Linked(r)
    BY <2>1, <2>2, <2>3
  <2>5. \A q \in Request \ {r} : Written(q)' = Written(q) /\ View(q)' = View(q)
    <3>1. ASSUME NEW q \in Request \ {r}
          PROVE  Written(q)' = Written(q) /\ View(q)' = View(q)
      <4>1. req'[q] = req[q] /\ links' = links
        BY <1>2, <1>4
      <4>2. QED
        BY <4>1 DEF Written, View
    <3>2. QED
      BY <3>1
  <2>6. QED
    BY <2>2, <2>4, <2>5
<1>6. \A q \in Request \ {r} : Linked(r) \cap Written(q) = {}
  BY <1>2 DEF WaitsFor
<1>7. OneAccountPerBank' /\ RowsLocked'
  BY <1>2, <1>5, <1>6 DEF IndexInv, OneAccountPerBank, RowsLocked
<1>8. \A k : ~Names(NoLink, k)
  BY DEF Names
<1>9. WrittenOnce(r)'
  BY <1>4, <1>5, <1>8 DEF WrittenOnce, Names
<1>10. ASSUME NEW q \in Request \ {r}
       PROVE  WrittenOnce(q)'
  <2>1. ASSUME NEW a \in Written(q), NEW b \in Account \ {a}, NEW k \in Bank,
               Names(req[q].wr[a], k)
        PROVE  /\ ~Names(View(q)'[b], k)
               /\ \A p \in Request \ {q} : b \in Written(p)' => ~Names(req'[p].wr[b], k)
    <3>1. /\ ~Names(View(q)[b], k)
          /\ \A p \in Request \ {q} : b \in Written(p) => ~Names(req[p].wr[b], k)
      BY <2>1 DEF IndexInv, WrittenOnce
    <3>2. QED
      BY <1>4, <1>5, <1>8, <3>1
  <2>2. QED
    BY <1>4, <1>5, <2>1 DEF WrittenOnce, Names
<1>11. QED
  BY <1>7, <1>9, <1>10 DEF IndexInv

LEMMA StepIndex == LinkInv /\ IndexInv /\ [Next]_vars => IndexInv'
<1> SUFFICES ASSUME LinkInv, IndexInv, [Next]_vars PROVE IndexInv'
  OBVIOUS
<1>0. LinkTypeOK /\ req \in [Request -> RequestState]
  BY DEF LinkInv, LinkTypeOK
<1>1. ASSUME NEW r \in Request, RequestStep(r) \/ RequestFault(r)
      PROVE  IndexInv'
  <2>1. CASE req' = Ended(r) /\ links' = links
    BY <1>0, <2>1, IndexStays DEF Ended, NoRequest
  <2>2. CASE req' = Ended(r) /\ links' = View(r)
    BY <1>0, <2>2, IndexCommits DEF Ended, NoRequest
  <2>3. ASSUME NEW l, req' = At(r, l), links' = links
        PROVE  IndexInv'
    <3>1. \A q \in Request : req'[q].wr = req[q].wr
      BY <1>0, <2>3 DEF At, RequestState
    <3>2. QED
      BY <1>0, <2>3, <3>1, IndexStays
  <2>4. CASE ArchiveRow(r)
    <3>1. \A q \in Request : req'[q].wr = req[q].wr \/ req'[q].wr = NoWrites
      BY <1>0, <2>4 DEF ArchiveRow, Ended, NoRequest, RequestState
    <3>2. QED
      BY <1>0, <2>4, <3>1, IndexStays DEF ArchiveRow
  <2>5. CASE WriteLink(r)
    BY <2>1, <2>5, IndexWrites DEF WriteLink
  <2>6. CASE ClearLinks(r)
    BY <2>6, IndexClears
  <2>7. CASE DeleteItem(r) \/ CommitLinks(r)
    BY <2>1, <2>2, <2>7 DEF DeleteItem, CommitLinks
  <2>8. CASE LoadToken(r)
    <3>1. PICK l : req' = At(r, l)
      BY <2>8 DEF LoadToken
    <3>2. QED
      BY <2>3, <2>8, <3>1 DEF LoadToken
  <2>9. QED
    BY <1>1, <2>1, <2>3, <2>4, <2>5, <2>6, <2>7, <2>8
    DEF RequestStep, RequestFault, UpsertItem, CountHolders, CheckExisting,
        TokenUnreadable, TouchItem, RemoveItem, RemoveItemAgain,
        RemoveItemUnanswered, DeadlockVictim
<1>2. ASSUME NEW r \in Request, NEW i \in Item,
             \/ ExchangeToken(r, i) \/ StartLink(r, i) \/ StartSync(r, i)
             \/ StartDisconnect(r, i)
      PROVE  IndexInv'
  <2>1. links' = links
    BY <1>2 DEF ExchangeToken, StartLink, StartSync, StartDisconnect, ReadItemRow
  <2>2. \A q \in Request : req'[q].wr = req[q].wr \/ req'[q].wr = NoWrites
    BY <1>0, <1>2 DEF ExchangeToken, StartLink, StartSync, StartDisconnect, ReadItemRow,
       NoRequest
  <2>3. QED
    BY <1>0, <2>1, <2>2, IndexStays
<1>3. CASE Restart
  <2>1. \A q \in Request : req'[q].wr = NoWrites
    BY <1>3 DEF Restart, NoRequest
  <2>2. QED
    BY <1>0, <1>3, <2>1, IndexStays DEF Restart
<1>4. CASE UNCHANGED vars
  BY <1>0, <1>4, IndexStays DEF vars
<1>5. QED
  BY <1>1, <1>2, <1>3, <1>4 DEF Next, Quiet

(* Two LinkAccounts may both count no holder and both find their account   *)
(* free: the row locks and the partial unique index still leave one ledger *)
(* account per bank account.                                               *)
THEOREM OneHolder == Spec => []OneAccountPerBank
<1>1. Init => IndexInv
  BY LinkSentinelAssumption
  DEF Init, IndexInv, OneAccountPerBank, RowsLocked, WrittenOnce, Written, NoRequest,
      NoWrites
<1>2. IndexInv => OneAccountPerBank
  BY DEF IndexInv
<1>3. QED
  BY <1>1, <1>2, StepIndex, LinksAlways, PTL DEF Spec
=============================================================================
