------------------------------ MODULE MCLedger ------------------------------
(***************************************************************************)
(* Instances of Ledger for TLC: a book with a root and two accounts, and   *)
(* the drafts that tell the paths of the code apart.                       *)
(***************************************************************************)
EXTENDS Ledger, TLC

CONSTANTS root, a1, a2

Post(a, v) == [account |-> a, value |-> v]
Posted(list) == [k \in Position |-> IF k \in DOMAIN list THEN list[k] ELSE None]

(* balanced, with a zero split; not balanced, with two splits, with one;   *)
(* with nothing left *)
MCDrafts ==
    {Posted(d) : d \in
      {<<Post(a2, 2), Post(a1, 0), Post(a1, -2)>>,
       <<Post(a1, 3), Post(a2, -1)>>,
       <<Post(a1, 0), Post(a1, 1)>>,
       <<Post(a1, 0)>>}}
MCTwoDrafts ==
    {Posted(d) : d \in { <<Post(a1, 1), Post(a2, -1)>>, <<Post(a2, 2), Post(a1, -2)>> }}
MCNoEdits == {}

(* A placeholder below a1 that the user names Imbalance.                   *)
MCEdits == { [parent |-> a1, placeholder |-> TRUE, imbalance |-> TRUE] }

Symmetry == Permutations(Request)
=============================================================================
