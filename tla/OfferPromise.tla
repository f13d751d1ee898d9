---------------------------- MODULE OfferPromise ----------------------------
(***************************************************************************)
(* What bank synchronisation promises the owner of the book, without       *)
(* staging, cursors, locks or requests: a transaction the bank reported is *)
(* offered for import; an offer goes away only for a reason; an import     *)
(* books, once, an amount the bank has reported.                           *)
(***************************************************************************)
CONSTANTS Txn, Amount, NoAmount,
          Replaces   \* <<id, pre>>: posted id replaces the pending pre

VARIABLES
    reported,   \* pairs <<id, amount>> the bank has reported
    retracted,  \* ids the bank has withdrawn
    offered,    \* ids offered for import
    booked,     \* the amount each id is booked with
    settled,    \* ids booked at some time
    dismissed   \* ids the user dismissed at some time

promise == <<reported, retracted, offered, booked, settled, dismissed>>

Init ==
    /\ reported = {}
    /\ retracted = {}
    /\ offered = {}
    /\ booked = [id \in Txn |-> NoAmount]
    /\ settled = {}
    /\ dismissed = {}

Pending(id) == {pre \in Txn : <<id, pre>> \in Replaces}

(* Offers that may go: the bank withdrew the transaction, or it or its     *)
(* pending predecessor was dismissed or has been booked.                   *)
Excused(id) ==
    \/ id \in retracted
    \/ ({id} \cup Pending(id)) \cap (settled \cup dismissed) # {}

(* The bank reports and withdraws. *)
Bank ==
    /\ reported \subseteq reported' /\ reported' \subseteq Txn \X Amount
    /\ retracted \subseteq retracted' /\ retracted' \subseteq Txn
    /\ UNCHANGED <<offered, booked, settled, dismissed>>

(* A reported transaction that is not booked is offered. *)
Offer(id) ==
    /\ \E a \in Amount : <<id, a>> \in reported
    /\ booked[id] = NoAmount
    /\ offered' = offered \cup {id}
    /\ UNCHANGED <<reported, retracted, booked, settled, dismissed>>

Withdraw(ids) ==
    /\ ids # {}
    /\ \A id \in ids : Excused(id)
    /\ offered' = offered \ ids
    /\ UNCHANGED <<reported, retracted, booked, settled, dismissed>>

Dismiss(id) ==
    /\ offered' = offered \ {id}
    /\ dismissed' = dismissed \cup {id}
    /\ UNCHANGED <<reported, retracted, booked, settled>>

(* A booking takes the id, and posted ids that replace it, off the offers. *)
Book(id, a) ==
    /\ <<id, a>> \in reported
    /\ booked[id] = NoAmount
    /\ booked' = [booked EXCEPT ![id] = a]
    /\ settled' = settled \cup {id}
    /\ \E gone \in SUBSET {j \in Txn : id \in Pending(j)} :
          offered' = offered \ ({id} \cup gone)
    /\ UNCHANGED <<reported, retracted, dismissed>>

(* The owner removes or changes what is booked; offers of the id and of    *)
(* those that replace it follow.                                           *)
Rebook(id, a) ==
    /\ booked[id] # NoAmount
    /\ booked' = [booked EXCEPT ![id] = a]
    /\ LET touched == {j \in Txn : id \in {j} \cup Pending(j)} IN
       \E now \in SUBSET touched :
          /\ offered' = (offered \ touched) \cup now
          /\ \A j \in now : /\ booked'[j] = NoAmount
                            /\ \E b \in Amount : <<j, b>> \in reported
    /\ UNCHANGED <<reported, retracted, settled, dismissed>>

Next ==
    \/ Bank
    \/ \E id \in Txn : Offer(id) \/ Dismiss(id)
    \/ \E ids \in SUBSET Txn : Withdraw(ids)
    \/ \E id \in Txn, a \in Amount : Book(id, a)
    \/ \E id \in Txn, a \in Amount \cup {NoAmount} : Rebook(id, a)

Spec == Init /\ [][Next]_promise
=============================================================================
