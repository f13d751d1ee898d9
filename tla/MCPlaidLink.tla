---------------------------- MODULE MCPlaidLink ----------------------------
(***************************************************************************)
(* Instances of PlaidLink for TLC: one Plaid item with two bank accounts,  *)
(* two ledger accounts, and the mapping lists two tabs may send.           *)
(***************************************************************************)
EXTENDS PlaidLink, TLC

CONSTANTS i1, b1, b2, a1, a2

MCOwner == [b \in {b1, b2} |-> i1]

To(b, a) == [bank |-> b, account |-> a]
MCMappings == { <<To(b1, a1), To(b2, a2)>>, <<To(b2, a2), To(b1, a1)>>, <<To(b1, a2)>> }

Symmetry == Permutations(Request)
=============================================================================
