-------------------------- MODULE PlaidSyncPromise --------------------------
(***************************************************************************)
(* PlaidSync implements OfferPromise: the offers are the rows the          *)
(* suggestions query would return, the bookings the ledger transactions    *)
(* that carry a plaid id.                                                  *)
(***************************************************************************)
EXTENDS PlaidSync

CONSTANT NoAmount   \* not booked

ASSUME NoAmountAssumption == NoAmount \notin Amount

Booked(id) == IF Imported(id) THEN book[id][1] ELSE NoAmount

Offers   == {id \in Txn : Visible(id)}
Bookings == [id \in Txn |-> Booked(id)]

(* Which id replaces which, and what the bank has reported and withdrawn   *)
(* so far. *)
Successions == {<<e.id, e.pend>> : e \in Entries}
Reports     == {<<e.id, e.amt>> : e \in Published}
Withdrawals == {id \in Txn : \E k \in 1..published : Retracted(k, id)}

Promise ==
    INSTANCE OfferPromise WITH
        Replaces  <- Successions,
        reported  <- Reports,
        retracted <- Withdrawals,
        offered   <- Offers,
        booked    <- Bookings,
        settled   <- everBooked,
        dismissed <- everDismissed

(* Whatever requests, faults and crashes interleave, an offer disappears   *)
(* only when the bank withdrew it or it (or the pending transaction it     *)
(* replaces) was dismissed or imported, and an import books an amount the  *)
(* bank has reported, once.                                                *)
KeepsPromise == Promise!Spec

(* What the promise needs of the bank: a transaction that posts gets a new *)
(* id (an item without import_pending hides what turns pending), and, by   *)
(* PendingFirst, a pending transaction replaces nothing (a dismissal is    *)
(* inherited by the successor, and recorded for the pending one only).     *)
StatusKept == \A e, f \in Entries : e.id = f.id => e.pending = f.pending
=============================================================================
