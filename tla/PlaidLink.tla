----------------------------- MODULE PlaidLink -----------------------------
(***************************************************************************)
(* The life of a bank connection: Exchange, LinkAccounts, Disconnect and   *)
(* the token loading of Sync, of PlaidService                              *)
(* (backend/internal/plaid/service.go), by concurrent requests against one *)
(* book, with the restarts on which an operator changes the keys.          *)
(*                                                                         *)
(* A statement on the pool commits by itself and is one step.  The         *)
(* statements of a database transaction are steps that see the transaction *)
(* through View; its writes and row locks are the request's wr until the   *)
(* commit.  A plaid_items row's guid is its item and the count of rows     *)
(* that item has had.                                                      *)
(***************************************************************************)
EXTENDS Naturals, Sequences

CONSTANTS
    Item,         \* Plaid items, by item_id
    Bank,         \* Plaid account ids
    Account,      \* ledger accounts
    Owner,        \* the item of each bank account
    Request,      \* concurrent requests
    Mappings,     \* the mapping lists a client may send
    AllowLegacy,  \* PLAID_LEGACY_TOKEN_FALLBACK
    NoItem, NoLink, Unwritten,
    MaxStarts,    \* bound on the requests that are started
    MaxRestarts,  \* bound on restarts
    MaxFaults     \* bound on failed statements and Plaid calls

Mapping == [bank : Bank, account : Account]

ASSUME LinkConstantsAssumption ==
    /\ Owner \in [Bank -> Item]
    /\ Mappings \subseteq Seq(Mapping)
    /\ AllowLegacy \in BOOLEAN
    /\ MaxStarts \in Nat /\ MaxRestarts \in Nat /\ MaxFaults \in Nat

VARIABLES
    plaid,    \* Plaid's side of each item
    issued,   \* access tokens Plaid has issued
    items,    \* plaid_items
    gens,     \* rows each item has had so far
    links,    \* accounts.metadata->'plaid'
    audit,    \* rows in plaid_migration_audit
    req,      \* the requests
    newest,   \* history: the token the last Exchange stored for each item
    started, restarts, faults

bounds == <<started, restarts, faults>>
vars == <<plaid, issued, items, gens, links, audit, req, newest, bounds>>

(* How a token was sealed, as the running keys see it: with the primary    *)
(* key, with a retired one, in the format without AAD, or with a key that  *)
(* is not configured. *)
Seal == {"primary", "retired", "legacy", "lost"}
Decryptable(seal) == seal \in {"primary", "retired"} \/ (AllowLegacy /\ seal = "legacy")

ItemRow == [gen : Nat, tok : Nat, seal : Seal, ver : Nat]
Link == [item : Item, gen : Nat, bank : Bank]

(* What a request read of its item, the mappings left, the account rows    *)
(* its open transaction has written and the row it archives.               *)
RequestState ==
    [pc : {"idle", "count", "existing", "write", "upsert", "load", "remove",
           "archive", "clear", "delete", "touch"},
     kind : {"none", "link", "exchange", "sync", "disconnect"},
     item : Item \cup {NoItem}, row : ItemRow \cup {NoItem},
     todo : Seq(Mapping), wr : [Account -> Link \cup {NoLink, Unwritten}],
     arch : ItemRow \cup {NoItem}]

ASSUME LinkSentinelAssumption ==
    /\ NoItem \notin Item \cup ItemRow
    /\ NoLink \notin Link
    /\ Unwritten \notin Link \cup {NoLink}

NoWrites == [a \in Account |-> Unwritten]
NoRequest == [pc |-> "idle", kind |-> "none", item |-> NoItem, row |-> NoItem,
              todo |-> <<>>, wr |-> NoWrites, arch |-> NoItem]

LinkTypeOK ==
    /\ plaid \in [Item -> {"new", "alive", "removed"}]
    /\ issued \in Nat
    /\ items \in [Item -> ItemRow \cup {NoItem}]
    /\ gens \in [Item -> Nat]
    /\ \A i \in Item : items[i] # NoItem => items[i].gen = gens[i]
    /\ links \in [Account -> Link \cup {NoLink}]
    /\ audit \subseteq [item : Item, row : ItemRow]
    /\ req \in [Request -> RequestState]
    /\ newest \in [Item -> Nat]
    /\ started \in 0..MaxStarts /\ restarts \in 0..MaxRestarts /\ faults \in 0..MaxFaults

(* Before the first request, an item may hold a token of the old format.   *)
Init ==
    /\ \E old \in SUBSET Item :
          /\ plaid = [i \in Item |-> IF i \in old THEN "alive" ELSE "new"]
          /\ items = [i \in Item |->
                        IF i \in old THEN [gen |-> 1, tok |-> 0, seal |-> "legacy", ver |-> 1]
                        ELSE NoItem]
          /\ gens = [i \in Item |-> IF i \in old THEN 1 ELSE 0]
    /\ issued = 0
    /\ links = [a \in Account |-> NoLink]
    /\ audit = {}
    /\ req = [r \in Request |-> NoRequest]
    /\ newest = [i \in Item |-> 0]
    /\ started = 0 /\ restarts = 0 /\ faults = 0
-----------------------------------------------------------------------------
(* What an open transaction sees, *)
Written(r) == {a \in Account : req[r].wr[a] # Unwritten}
View(r) == [a \in Account |-> IF a \in Written(r) THEN req[r].wr[a] ELSE links[a]]

Names(l, bank) == l # NoLink /\ l.bank = bank
LinkOf(r, m) == [item |-> req[r].item, gen |-> req[r].row.gen, bank |-> m.bank]

(* the accounts a Disconnect clears, *)
Linked(r) == {a \in Account : /\ links[a] # NoLink
                              /\ links[a].item = req[r].item
                              /\ links[a].gen = req[r].row.gen}

(* the requests whose uncommitted rows a write waits for: the same account *)
(* row, or an entry of the unique index on the bank account, *)
WaitsFor(r) ==
    {q \in Request \ {r} :
        \/ /\ req[r].pc = "write"
           /\ LET m == Head(req[r].todo) IN
              \E a \in Written(q) :
                 a = m.account \/ Names(req[q].wr[a], m.bank) \/ Names(links[a], m.bank)
        \/ /\ req[r].pc = "clear"
           /\ Linked(r) \cap Written(q) # {}}

(* idx_accounts_plaid_account, and the version clauses. *)
IndexAllows_dropped(r, m) == TRUE
IndexAllows(r, m) ==
    \A a \in Account \ {m.account} : ~Names(View(r)[a], m.bank)

Stored(r) == items[req[r].item] # NoItem /\ items[req[r].item].gen = req[r].row.gen
Unchanged_ignored(r) == Stored(r)
Unchanged(r) == Stored(r) /\ items[req[r].item].ver = req[r].row.ver

(* INSERT ... ON CONFLICT (book_guid, item_id) DO UPDATE *)
Upserted_noConflict(r, old) == [req[r].row EXCEPT !.gen = gens[req[r].item] + 1]
Upserted(r, old) ==
    IF old = NoItem THEN [req[r].row EXCEPT !.gen = gens[req[r].item] + 1]
    ELSE [old EXCEPT !.tok = req[r].row.tok, !.seal = "primary", !.ver = @ + 1]

(* Every error path of a transaction ends in the deferred rollback. *)
Ended(r) == [req EXCEPT ![r] = NoRequest]
At(r, l) == [req EXCEPT ![r].pc = l]
-----------------------------------------------------------------------------
(* Exchange: the Plaid call issues a token.  An item that was removed is   *)
(* gone for good. *)
ExchangeToken(r, i) ==
    /\ req[r].pc = "idle" /\ started < MaxStarts
    /\ plaid[i] # "removed"
    /\ plaid' = [plaid EXCEPT ![i] = "alive"]
    /\ issued' = issued + 1
    /\ started' = started + 1
    /\ req' = [req EXCEPT ![r] = [NoRequest EXCEPT
                  !.pc = "upsert", !.kind = "exchange", !.item = i,
                  !.row = [gen |-> 0, tok |-> issued + 1, seal |-> "primary", ver |-> 1]]]
    /\ UNCHANGED <<items, gens, links, audit, newest, restarts, faults>>

(* The upsert on (book, item): a new row, or the token of the row that is  *)
(* there.  What follows, GetAccounts, writes nothing.                      *)
UpsertItem(r) ==
    /\ req[r].pc = "upsert"
    /\ LET i == req[r].item IN
       /\ items' = [items EXCEPT ![i] = Upserted(r, @)]
       /\ gens' = IF items[i] = NoItem THEN [gens EXCEPT ![i] = @ + 1] ELSE gens
       /\ newest' = [newest EXCEPT ![i] = req[r].row.tok]
    /\ req' = Ended(r)
    /\ UNCHANGED <<plaid, issued, links, audit, bounds>>

(* LinkAccounts, Sync and Disconnect read the item's row before anything   *)
(* else, outside a transaction. *)
ReadItemRow(r, i, kind, l, ms) ==
    /\ req[r].pc = "idle" /\ started < MaxStarts
    /\ items[i] # NoItem
    /\ started' = started + 1
    /\ req' = [req EXCEPT ![r] = [NoRequest EXCEPT
                  !.pc = l, !.kind = kind, !.item = i, !.row = items[i], !.todo = ms]]
    /\ UNCHANGED <<plaid, issued, items, gens, links, audit, newest, restarts, faults>>

StartLink(r, i) ==
    \E ms \in Mappings :
        /\ \A k \in DOMAIN ms : Owner[ms[k].bank] = i
        /\ ReadItemRow(r, i, "link", "count", ms)
StartSync(r, i) == ReadItemRow(r, i, "sync", "load", <<>>)
StartDisconnect(r, i) == ReadItemRow(r, i, "disconnect", "load", <<>>)

(* LinkAccounts, for each mapping: does another account hold this bank     *)
(* account?                                                                *)
LinkFrame == UNCHANGED <<plaid, issued, items, gens, audit, newest, bounds>>

CountHolders(r) ==
    /\ req[r].pc = "count" /\ req[r].todo # <<>>
    /\ LET m == Head(req[r].todo) IN
       req' = IF \E a \in Account \ {m.account} : Names(View(r)[a], m.bank)
              THEN Ended(r) ELSE At(r, "existing")
    /\ UNCHANGED links /\ LinkFrame

(* Does this account carry another link? *)
CheckExisting(r) ==
    /\ req[r].pc = "existing"
    /\ LET m == Head(req[r].todo) IN
       req' = IF View(r)[m.account] \in {NoLink, LinkOf(r, m)}
              THEN At(r, "write") ELSE Ended(r)
    /\ UNCHANGED links /\ LinkFrame

(* Write the link, once the rows it touches are free. *)
WriteLink(r) ==
    /\ req[r].pc = "write"
    /\ WaitsFor(r) = {}
    /\ LET m == Head(req[r].todo) IN
       req' = IF IndexAllows(r, m)
              THEN [req EXCEPT ![r].pc = "count", ![r].todo = Tail(@),
                               ![r].wr[m.account] = LinkOf(r, m)]
              ELSE Ended(r)
    /\ UNCHANGED links /\ LinkFrame

(* The item's import_pending is set, if the item is still there, and the   *)
(* transaction commits. *)
CommitLinks(r) ==
    /\ req[r].pc = "count" /\ req[r].todo = <<>>
    /\ links' = View(r)
    /\ req' = Ended(r)
    /\ LinkFrame

(* loadAndDecryptToken: a stale token is sealed again, by a statement of   *)
(* its own that only writes over the version it read. *)
LoadToken(r) ==
    /\ req[r].pc = "load"
    /\ Decryptable(req[r].row.seal)
    /\ items' = IF req[r].row.seal # "primary" /\ Unchanged(r)
                THEN [items EXCEPT ![req[r].item].tok = req[r].row.tok,
                                   ![req[r].item].seal = "primary",
                                   ![req[r].item].ver = @ + 1]
                ELSE items
    /\ req' = At(r, IF req[r].kind = "sync" THEN "touch" ELSE "remove")
    /\ UNCHANGED <<plaid, issued, gens, links, audit, newest, bounds>>

(* A token no key opens fails a Sync and forces a Disconnect; one of the   *)
(* old format that is not allowed fails both. *)
TokenUnreadable(r) ==
    /\ req[r].pc = "load"
    /\ ~Decryptable(req[r].row.seal)
    /\ req' = IF req[r].kind = "disconnect" /\ req[r].row.seal = "lost"
              THEN At(r, "archive") ELSE Ended(r)
    /\ UNCHANGED <<items, links>> /\ UNCHANGED <<plaid, issued, gens, audit, newest, bounds>>

(* Sync persists its cursor: one more version. *)
TouchItem(r) ==
    /\ req[r].pc = "touch"
    /\ items' = IF Stored(r) THEN [items EXCEPT ![req[r].item].ver = @ + 1] ELSE items
    /\ req' = Ended(r)
    /\ UNCHANGED <<plaid, issued, gens, links, audit, newest, bounds>>

(* Disconnect: /item/remove succeeds, *)
RemoveItem(r) ==
    /\ req[r].pc = "remove"
    /\ plaid[req[r].item] = "alive"
    /\ plaid' = [plaid EXCEPT ![req[r].item] = "removed"]
    /\ req' = At(r, "clear")
    /\ UNCHANGED <<issued, items, gens, links, audit, newest, bounds>>

(* or the item was removed before: an error, and the row stays, *)
RemoveItemAgain(r) ==
    /\ req[r].pc = "remove"
    /\ plaid[req[r].item] = "removed"
    /\ req' = Ended(r)
    /\ UNCHANGED <<plaid, issued, items, gens, links, audit, newest, bounds>>

(* or it is done and the answer is lost. *)
RemoveItemUnanswered(r) ==
    /\ req[r].pc = "remove" /\ faults < MaxFaults
    /\ faults' = faults + 1
    /\ plaid' = [plaid EXCEPT ![req[r].item] = "removed"]
    /\ req' = Ended(r)
    /\ UNCHANGED <<issued, items, gens, links, audit, newest, started, restarts>>

(* The transaction of a forced Disconnect archives the row it read,        *)
ArchiveRow(r) ==
    /\ req[r].pc = "archive"
    /\ req' = IF Unchanged(r)
              THEN [req EXCEPT ![r].pc = "clear", ![r].arch = items[req[r].item]]
              ELSE Ended(r)
    /\ UNCHANGED links /\ LinkFrame

(* every Disconnect clears the links it finds, *)
ClearLinks(r) ==
    /\ req[r].pc = "clear"
    /\ WaitsFor(r) = {}
    /\ req' = [req EXCEPT ![r].pc = "delete", 
                            ![r].wr = [a \in Account |-> IF a \in Linked(r) THEN NoLink
                                                        ELSE Unwritten]]
    /\ UNCHANGED links /\ LinkFrame

(* deletes the row and commits; a forced one only if the version is still  *)
(* the one it archived. *)
DeleteItem(r) ==
    /\ req[r].pc = "delete"
    /\ IF req[r].arch # NoItem /\ ~Unchanged(r)
       THEN UNCHANGED <<items, links, audit>>
       ELSE /\ items' = IF Stored(r) THEN [items EXCEPT ![req[r].item] = NoItem] ELSE items
            /\ links' = View(r)
            /\ audit' = IF req[r].arch = NoItem THEN audit
                        ELSE audit \cup {[item |-> req[r].item, row |-> req[r].arch]}
    /\ req' = Ended(r)
    /\ UNCHANGED <<plaid, issued, gens, newest, bounds>>

(* PostgreSQL ends one of two transactions that wait for each other. *)
DeadlockVictim(r) ==
    /\ \E q \in WaitsFor(r) : r \in WaitsFor(q)
    /\ req' = Ended(r)
    /\ UNCHANGED links /\ LinkFrame

(* A statement, a commit or a Plaid call fails. *)
RequestFault(r) ==
    /\ req[r].pc # "idle" /\ faults < MaxFaults
    /\ faults' = faults + 1
    /\ req' = Ended(r)
    /\ UNCHANGED <<plaid, issued, items, gens, links, audit, newest, started, restarts>>

(* The server restarts; its keys may have been rotated, dropped or         *)
(* restored meanwhile. *)
Rekeyed(change, seal) ==
    CASE change = "rotate" /\ seal = "primary" -> "retired"
      [] change = "drop" /\ seal = "retired" -> "lost"
      [] change = "restore" /\ seal = "lost" -> "retired"
      [] OTHER -> seal

Restart ==
    /\ restarts < MaxRestarts
    /\ restarts' = restarts + 1
    /\ \E change \in {"none", "rotate", "drop", "restore"} :
          items' = [i \in Item |-> IF items[i] = NoItem THEN NoItem
                                   ELSE [items[i] EXCEPT !.seal = Rekeyed(change, @)]]
    /\ req' = [r \in Request |-> NoRequest]
    /\ UNCHANGED <<plaid, issued, gens, links, audit, newest, started, faults>>

(* No request is running: the server waits for the next one.  In any other *)
(* state without a step, requests would wait for each other for ever.      *)
Quiet ==
    /\ \A r \in Request : req[r].pc = "idle"
    /\ UNCHANGED vars

RequestStep(r) ==
    \/ UpsertItem(r)
    \/ CountHolders(r) \/ CheckExisting(r) \/ WriteLink(r) \/ CommitLinks(r)
    \/ LoadToken(r) \/ TokenUnreadable(r) \/ TouchItem(r)
    \/ RemoveItem(r) \/ RemoveItemAgain(r) \/ RemoveItemUnanswered(r)
    \/ ArchiveRow(r) \/ ClearLinks(r) \/ DeleteItem(r)
    \/ DeadlockVictim(r)

Next ==
    \/ \E r \in Request, i \in Item :
          ExchangeToken(r, i) \/ StartLink(r, i) \/ StartSync(r, i) \/ StartDisconnect(r, i)
    \/ \E r \in Request : RequestStep(r) \/ RequestFault(r)
    \/ Restart
    \/ Quiet

Spec == Init /\ [][Next]_vars
-----------------------------------------------------------------------------
(* The 1:1 invariant of LinkAccounts: a bank account is linked to at most  *)
(* one ledger account, whichever requests race.                            *)
OneAccountPerBank ==
    \A a, b \in Account :
        a # b /\ links[a] # NoLink => ~Names(links[b], links[a].bank)

(* The only copy of a token that still pays for a live item is never       *)
(* destroyed: what the last Exchange stored is in the item's row, or was   *)
(* archived -- no re-seal writes an older token over it and no forced      *)
(* disconnect deletes it. *)
TokenKept ==
    \A i \in Item :
        plaid[i] = "alive" /\ gens[i] > 0 =>
            \/ items[i] # NoItem /\ items[i].tok = newest[i]
            \/ \E e \in audit : e.item = i /\ e.row.tok = newest[i]

(* A forced disconnect only archives rows no configured key could open:    *)
(* a token with a clean migration path is never destroyed.                 *)
ArchivedUnreadable == \A e \in audit : e.row.seal = "lost"

(* Disconnect "clears the plaid link from all affected accounts"           *)
(* (service.go:1009-1010): no account names an item that is gone.          *)
NoDanglingLink ==
    \A a \in Account :
        links[a] # NoLink => /\ items[links[a].item] # NoItem
                             /\ items[links[a].item].gen = links[a].gen
=============================================================================
