---------------------------- MODULE SettlementV2 ----------------------------
(***************************************************************************)
(* Settlements of the V2 vocabulary and their payments: the command        *)
(* service, the repository it writes to and the audit trail it keeps.      *)
(*                                                                         *)
(* A method of the repository runs to its end without an await, so calls   *)
(* of different actors follow each other in any order and any call may be  *)
(* sent again with its key.  The service then awaits the audit record and  *)
(* answers.  The record is part of the step: the audit repository cannot   *)
(* fail, no operation reads it, and the trail is kept as a set, so nobody  *)
(* can tell when between the two awaits it was appended.  A call that is   *)
(* refused throws before it has written anything: it is no step.           *)
(***************************************************************************)
EXTENDS Integers, FiniteSets, FiniteSetsExt

CONSTANTS
    Actors,
    Parties,       \* drivers and agents that settle with the company
    Keys,          \* keys clients choose for their calls
    Settlements,   \* bound: the ids the repository hands out
    Payments,      \* bound: the ids it hands out for payments
    Sums,          \* what the claims of a draft can add up to
    Amounts,       \* what a payment can amount to
    Permits,       \* Permits[a]: the finance permissions of a
    None

Permissions == {"prepare", "approve", "execute", "reverse"}
Statuses == {"absent", "draft", "locked", "partially_paid", "settled", "voided"}
Fates    == {"absent", "pending", "confirmed", "reversed"}
Ops == {"settlement.create", "settlement.lock", "settlement.void",
        "payment.create", "payment.confirm", "payment.reverse"}

(* Claims carry positive amounts, and the payment route refuses an amount  *)
(* that is not positive.                                                   *)
ASSUME MoneyAssumption ==
    /\ Sums \subseteq Nat \ {0}
    /\ Amounts \subseteq Nat \ {0}
ASSUME PermitsAssumption == Permits \in [Actors -> SUBSET Permissions]
ASSUME NoneAssumption == None \notin Actors \cup Settlements \cup Payments

VARIABLES
    settlement,            \* byId
    payment,               \* payments
    byIdempotency,         \* keys of drafts and locks -> settlement
    paymentByIdempotency,  \* keys of payment operations -> payment
    trail                  \* the results that were recorded and answered

stores == <<settlement, payment>>
idem   == <<byIdempotency, paymentByIdempotency>>
vars   == <<settlement, payment, byIdempotency, paymentByIdempotency, trail>>

SettlementKeys ==
    [op : {"settlement.create"}, actor : Actors, resource : Parties, key : Keys]
    \cup
    [op : {"settlement.lock"}, actor : Actors, resource : Settlements, key : Keys]
PaymentKeys ==
    [op : {"payment.create", "payment.confirm", "payment.reverse"},
     actor : Actors, resource : Settlements, key : Keys]

(* Operators whose names begin with Bug are plausible mistakes in the       *)
(* definition that follows them.                                           *)
BugKeyWithoutActor(op, a, resource, k) ==
    [op |-> op, actor |-> CHOOSE b \in Actors : TRUE, resource |-> resource,
     key |-> k]
(* The key of a call: its actor, its operation, a resource and the client's *)
(* key.  The resource of a payment operation is the settlement.             *)
KeyOf(op, a, resource, k) ==
    [op |-> op, actor |-> a, resource |-> resource, key |-> k]

(* A result: what the call asked for and what it is told about.            *)
Result(op, a, asked, told) ==
    [op |-> op, actor |-> a, asked |-> asked, told |-> told]
Results == [op : Ops, actor : Actors, asked : Settlements \cup Payments,
            told : Settlements \cup Payments]

NoSettlement == [status |-> "absent", due |-> 0, paid |-> 0,
                 creator |-> None, locker |-> None, voider |-> None]
NoPayment == [status |-> "absent", of |-> None, amount |-> 0,
              creator |-> None, confirmer |-> None, reverser |-> None]

SettlementRecords ==
    [status : Statuses, due : Nat, paid : Nat, creator : Actors \cup {None},
     locker : Actors \cup {None}, voider : Actors \cup {None}]
PaymentRecords ==
    [status : Fates, of : Settlements \cup {None}, amount : Nat,
     creator : Actors \cup {None}, confirmer : Actors \cup {None},
     reverser : Actors \cup {None}]

CanTransition(from, to) ==
    <<from, to>> \in { <<"draft", "locked">>, <<"draft", "voided">>,
                       <<"locked", "partially_paid">>, <<"locked", "settled">>,
                       <<"locked", "voided">>, <<"partially_paid", "settled">>,
                       <<"partially_paid", "voided">> }

BugAnyApprover(creator, approver) == TRUE
CreatorCannotApprove(creator, approver) == creator # approver

Init ==
    /\ settlement = [s \in Settlements |-> NoSettlement]
    /\ payment = [p \in Payments |-> NoPayment]
    /\ byIdempotency = [i \in SettlementKeys |-> None]
    /\ paymentByIdempotency = [i \in PaymentKeys |-> None]
    /\ trail = {}

(* The service records the operation and answers its caller.               *)
Answer(op, a, asked, told) == trail' = trail \cup {Result(op, a, asked, told)}

-----------------------------------------------------------------------------
(* createDraft.  The claims are abstracted to their sum.                   *)

KnownDraft(a, party, k) ==
    LET id == byIdempotency[KeyOf("settlement.create", a, party, k)]
    IN /\ id # None
       /\ Answer("settlement.create", a, id, id)
       /\ UNCHANGED <<stores, idem>>

NewDraft(a, party, k, sum, s) ==
    LET i == KeyOf("settlement.create", a, party, k)
    IN /\ byIdempotency[i] = None
       /\ settlement[s] = NoSettlement
       /\ settlement' = [settlement EXCEPT
             ![s] = [NoSettlement EXCEPT !.status = "draft", !.due = sum,
                                         !.creator = a]]
       /\ byIdempotency' = [byIdempotency EXCEPT ![i] = s]
       /\ Answer("settlement.create", a, s, s)
       /\ UNCHANGED <<payment, paymentByIdempotency>>

CreateDraft(a, party, k) ==
    /\ "prepare" \in Permits[a]
    /\ \/ KnownDraft(a, party, k)
       \/ \E sum \in Sums, s \in Settlements : NewDraft(a, party, k, sum, s)

(* lock: the key is looked up before dual control.                         *)
LockAgain(a, s, k) ==
    /\ byIdempotency[KeyOf("settlement.lock", a, s, k)] = s
    /\ UNCHANGED <<stores, idem>>

LockNow(a, s, k) ==
    LET i == KeyOf("settlement.lock", a, s, k)
    IN /\ byIdempotency[i] = None
       /\ CreatorCannotApprove(settlement[s].creator, a)
       /\ CanTransition(settlement[s].status, "locked")
       /\ settlement' = [settlement EXCEPT
             ![s] = [@ EXCEPT !.status = "locked", !.locker = a]]
       /\ byIdempotency' = [byIdempotency EXCEPT ![i] = s]
       /\ UNCHANGED <<payment, paymentByIdempotency>>

Lock(a, s, k) ==
    /\ "approve" \in Permits[a]
    /\ LockAgain(a, s, k) \/ LockNow(a, s, k)
    /\ Answer("settlement.lock", a, s, s)

(* void has no key and asks nobody but its caller.                         *)
Void(a, s) ==
    /\ "reverse" \in Permits[a]
    /\ CanTransition(settlement[s].status, "voided")
    /\ settlement' = [settlement EXCEPT
          ![s] = [@ EXCEPT !.status = "voided", !.voider = a]]
    /\ Answer("settlement.void", a, s, s)
    /\ UNCHANGED <<payment, idem>>

-----------------------------------------------------------------------------
(* Payments.                                                               *)

(* A payment operation whose key is known is answered with the payment the *)
(* key stands for, whatever payment the caller asked about.                *)
Known(op, a, s, k, asked) ==
    LET id == paymentByIdempotency[KeyOf(op, a, s, k)]
    IN /\ id # None
       /\ Answer(op, a, IF op = "payment.create" THEN id ELSE asked, id)
       /\ UNCHANGED <<stores, idem>>

Fresh(op, a, s, k) == paymentByIdempotency[KeyOf(op, a, s, k)] = None

Remember(op, a, s, k, p) ==
    /\ paymentByIdempotency' =
          [paymentByIdempotency EXCEPT ![KeyOf(op, a, s, k)] = p]
    /\ Answer(op, a, p, p)
    /\ UNCHANGED byIdempotency

PayableStatuses == {"locked", "partially_paid"}

NewPayment(a, s, k, n, p) ==
    /\ Fresh("payment.create", a, s, k)
    /\ settlement[s].status \in PayableStatuses
    /\ payment[p] = NoPayment
    /\ payment' = [payment EXCEPT
          ![p] = [NoPayment EXCEPT !.status = "pending", !.of = s, !.amount = n,
                                   !.creator = a]]
    /\ Remember("payment.create", a, s, k, p)
    /\ UNCHANGED settlement

CreatePayment(a, s, k) ==
    /\ "execute" \in Permits[a]
    /\ \/ Known("payment.create", a, s, k, None)
       \/ \E n \in Amounts, p \in Payments : NewPayment(a, s, k, n, p)

StatusWhenPaid(total, due) == IF total = due THEN "settled" ELSE "partially_paid"
BugConfirmTwice(status) == status # "reversed"
CanConfirmPayment(status) == status = "pending"

(* The status of the settlement is not looked at.                          *)
ConfirmNow(a, p, k) ==
    LET s == payment[p].of
        total == settlement[s].paid + payment[p].amount
    IN /\ Fresh("payment.confirm", a, s, k)
       /\ CanConfirmPayment(payment[p].status)
       /\ total <= settlement[s].due
       /\ settlement' = [settlement EXCEPT
             ![s] = [@ EXCEPT !.paid = total,
                              !.status = StatusWhenPaid(total, settlement[s].due)]]
       /\ payment' = [payment EXCEPT
             ![p] = [@ EXCEPT !.status = "confirmed", !.confirmer = a]]
       /\ Remember("payment.confirm", a, s, k, p)

ConfirmPayment(a, p, k) ==
    /\ "execute" \in Permits[a]
    /\ payment[p] # NoPayment
    /\ Known("payment.confirm", a, payment[p].of, k, p) \/ ConfirmNow(a, p, k)

BugReverseAnything(status) == status # "absent"
CanReversePayment(status) == status = "confirmed"
ReversibleStatuses == {"locked", "partially_paid"}
BugStaysPartial(total) == "partially_paid"
StatusWhenReversed(total) == IF total = 0 THEN "locked" ELSE "partially_paid"

ReverseNow(a, p, k) ==
    LET s == payment[p].of
        total == settlement[s].paid - payment[p].amount
    IN /\ Fresh("payment.reverse", a, s, k)
       /\ CanReversePayment(payment[p].status)
       /\ settlement[s].status \in ReversibleStatuses
       /\ total >= 0
       /\ settlement' = [settlement EXCEPT
             ![s] = [@ EXCEPT !.paid = total,
                              !.status = StatusWhenReversed(total)]]
       /\ payment' = [payment EXCEPT
             ![p] = [@ EXCEPT !.status = "reversed", !.reverser = a]]
       /\ Remember("payment.reverse", a, s, k, p)

ReversePayment(a, p, k) ==
    /\ "reverse" \in Permits[a]
    /\ payment[p] # NoPayment
    /\ Known("payment.reverse", a, payment[p].of, k, p) \/ ReverseNow(a, p, k)

Next ==
    \/ \E a \in Actors, k \in Keys :
          \/ \E party \in Parties : CreateDraft(a, party, k)
          \/ \E s \in Settlements : Lock(a, s, k) \/ CreatePayment(a, s, k)
          \/ \E p \in Payments : ConfirmPayment(a, p, k) \/ ReversePayment(a, p, k)
    \/ \E a \in Actors, s \in Settlements : Void(a, s)

Spec == Init /\ [][Next]_vars

-----------------------------------------------------------------------------
(* Every variable keeps its type.                                          *)
TypeOK ==
    /\ settlement \in [Settlements -> SettlementRecords]
    /\ payment \in [Payments -> PaymentRecords]
    /\ byIdempotency \in [SettlementKeys -> Settlements \cup {None}]
    /\ paymentByIdempotency \in [PaymentKeys -> Payments \cup {None}]
    /\ trail \subseteq Results

(* The status of a settlement never contradicts its money: nothing is paid *)
(* on a draft or a locked one, a partially paid one is owed the rest, a    *)
(* settled one is paid in full, and none is ever overpaid.  Confirmations, *)
(* reversals and voids each compute the status in their own way.           *)
StatusFitsMoney ==
    \A s \in Settlements :
        LET b == settlement[s]
        IN /\ b.paid <= b.due
           /\ b.status \in {"absent", "draft", "locked"} => b.paid = 0
           /\ b.status = "partially_paid" => 0 < b.paid /\ b.paid < b.due
           /\ b.status = "settled" => b.paid = b.due

(* paidConfirmedMinor is kept by adding and subtracting; it is always what *)
(* the confirmed payments of the settlement add up to, however payments    *)
(* are confirmed, reversed, and asked for again under one key.             *)
PaidIsConfirmed ==
    \A s \in Settlements :
        settlement[s].paid =
            MapThenSumSet(LAMBDA p : payment[p].amount,
                          {p \in Payments : /\ payment[p].of = s
                                            /\ payment[p].status = "confirmed"})

(* Settled history is immutable: once settled, a settlement and the        *)
(* payments that settled it never change, not by a late confirmation, a    *)
(* reversal or a void.  (Nothing in confirmPayment asks for the status.)   *)
SettledKept ==
    \A s \in Settlements : settlement[s].status = "settled" =>
        /\ settlement'[s] = settlement[s]
        /\ \A p \in Payments :
              payment[p].of = s /\ payment[p].status = "confirmed"
                  => payment'[p] = payment[p]
SettledIsFinal == [][SettledKept]_vars

(* Money needs two people: on a settlement with a payment, one actor made  *)
(* the draft and another one locked it.                                    *)
MoneyNeedsTwo ==
    \A p \in Payments : payment[p] # NoPayment =>
        LET b == settlement[payment[p].of]
        IN {b.creator, b.locker} \subseteq Actors /\ b.creator # b.locker

(* Who did an operation on a record, as the record itself tells it.        *)
Doer(op, id) == CASE op = "settlement.create" -> settlement[id].creator
                  [] op = "settlement.lock"   -> settlement[id].locker
                  [] op = "payment.create"    -> payment[id].creator
                  [] op = "payment.confirm"   -> payment[id].confirmer
                  [] op = "payment.reverse"   -> payment[id].reverser

(* The audit trail and the records tell the same story: the trail names an *)
(* actor for an operation on a record exactly if it was this actor who did *)
(* it, also when a call was answered from a key.  Voids are left out: a    *)
(* voided settlement can be paid and voided again, by somebody else.       *)
OnTrail(op, a, id) ==
    \E r \in trail : r.op = op /\ r.actor = a /\ r.told = id
TrailNamesTheActor ==
    \A a \in Actors :
        /\ \A s \in Settlements, op \in {"settlement.create", "settlement.lock"} :
              OnTrail(op, a, s) <=> Doer(op, s) = a
        /\ \A p \in Payments,
              op \in {"payment.create", "payment.confirm", "payment.reverse"} :
              OnTrail(op, a, p) <=> Doer(op, p) = a

(* The money of the settlements follows the books of SettlementBooks.      *)
Books == INSTANCE SettlementBooks WITH
    due  <- [s \in Settlements |-> settlement[s].due],
    paid <- [s \in Settlements |-> settlement[s].paid],
    slip <- [p \in Payments |-> [of |-> payment[p].of,
                                 amount |-> payment[p].amount,
                                 fate |-> payment[p].status]]
KeepsTheBooks == Books!BooksSpec
=============================================================================
