---------------------------- MODULE MCPlaidSync ----------------------------
(***************************************************************************)
(* Instances of PlaidSync for TLC.  p is a pending transaction, q the      *)
(* posted one that replaces it, x an independent one.                      *)
(***************************************************************************)
EXTENDS PlaidSync, TLC

CONSTANTS p, q, x

MCTxn == {p, q}
MCTxnX == {x}
MCAmount == 0..2

Pend(id, a) == [id |-> id, amt |-> a, pend |-> NoTxn, pending |-> TRUE]
Post(id, a, pre) == [id |-> id, amt |-> a, pend |-> pre, pending |-> FALSE]

(* The usual life of a purchase: pending, then posted under a new id with  *)
(* the same amount, then corrected. *)
FeedPosts ==
    << [updated |-> {Pend(p, 1)}, removed |-> {}],
       [updated |-> {Post(q, 1, p)}, removed |-> {p}] >>

FeedCorrects ==
    FeedPosts \o << [updated |-> {Post(q, 2, p)}, removed |-> {}] >>

(* A tip: the posted amount differs. *)
FeedTip ==
    << [updated |-> {Pend(p, 1)}, removed |-> {}],
       [updated |-> {Post(q, 2, p)}, removed |-> {p}] >>

(* An amount that drops to zero and comes back. *)
FeedReturns ==
    << [updated |-> {Post(x, 1, NoTxn)}, removed |-> {}],
       [updated |-> {Post(x, 0, NoTxn)}, removed |-> {}],
       [updated |-> {Post(x, 2, NoTxn)}, removed |-> {}] >>

(* Every feed here keeps what NoDoubleMovementOneTab needs of the bank. *)
ASSUME FeedAssumption == PendingFirst /\ PendingNamed /\ PendingWithdrawn

Symmetry == Permutations(Syncer) \cup Permutations(Importer)
=============================================================================
