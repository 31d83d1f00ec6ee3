------------------------- MODULE SettlementV2Proofs -------------------------
(***************************************************************************)
(* Theorems about SettlementV2, for any actors, parties, keys, settlements *)
(* and payments, and any positive amounts.                                 *)
(***************************************************************************)
EXTENDS SettlementV2, FiniteSetTheorems, NaturalsInduction, WellFoundedInduction, TLAPS

(* The steps of the system, one disjunct per kind of step; "known" stands  *)
(* for every call that is answered from its key.                           *)
KnownStep ==
    /\ UNCHANGED <<stores, idem>>
    /\ \E a \in Actors :
          \/ \E party \in Parties, k \in Keys : KnownDraft(a, party, k)
          \/ \E s \in Settlements, k \in Keys :
                \/ LockAgain(a, s, k) /\ Answer("settlement.lock", a, s, s)
                \/ Known("payment.create", a, s, k, None)
          \/ \E p \in Payments, k \in Keys :
                /\ payment[p] # NoPayment
                /\ \/ Known("payment.confirm", a, payment[p].of, k, p)
                   \/ Known("payment.reverse", a, payment[p].of, k, p)

LEMMA StepCases ==
    ASSUME Next
    PROVE  \/ KnownStep
           \/ \E a \in Actors, party \in Parties, k \in Keys, sum \in Sums,
                 s \in Settlements : NewDraft(a, party, k, sum, s)
           \/ \E a \in Actors, s \in Settlements, k \in Keys :
                 LockNow(a, s, k) /\ Answer("settlement.lock", a, s, s)
           \/ \E a \in Actors, s \in Settlements : Void(a, s)
           \/ \E a \in Actors, s \in Settlements, k \in Keys, n \in Amounts,
                 p \in Payments : NewPayment(a, s, k, n, p)
           \/ \E a \in Actors, p \in Payments, k \in Keys :
                 payment[p] # NoPayment /\ ConfirmNow(a, p, k)
           \/ \E a \in Actors, p \in Payments, k \in Keys :
                 payment[p] # NoPayment /\ ReverseNow(a, p, k)
<1>1. ASSUME NEW a \in Actors, NEW k \in Keys, NEW party \in Parties,
             CreateDraft(a, party, k)
      PROVE  \/ KnownStep
             \/ \E sum \in Sums, s \in Settlements : NewDraft(a, party, k, sum, s)
  BY <1>1 DEF CreateDraft, KnownDraft, KnownStep
<1>2. ASSUME NEW a \in Actors, NEW k \in Keys, NEW s \in Settlements,
             Lock(a, s, k)
      PROVE  \/ KnownStep
             \/ LockNow(a, s, k) /\ Answer("settlement.lock", a, s, s)
  BY <1>2 DEF Lock, LockAgain, KnownStep
<1>3. ASSUME NEW a \in Actors, NEW k \in Keys, NEW s \in Settlements,
             CreatePayment(a, s, k)
      PROVE  \/ KnownStep
             \/ \E n \in Amounts, p \in Payments : NewPayment(a, s, k, n, p)
  BY <1>3 DEF CreatePayment, Known, KnownStep
<1>4. ASSUME NEW a \in Actors, NEW k \in Keys, NEW p \in Payments,
             ConfirmPayment(a, p, k)
      PROVE  KnownStep \/ (payment[p] # NoPayment /\ ConfirmNow(a, p, k))
  BY <1>4 DEF ConfirmPayment, Known, KnownStep
<1>5. ASSUME NEW a \in Actors, NEW k \in Keys, NEW p \in Payments,
             ReversePayment(a, p, k)
      PROVE  KnownStep \/ (payment[p] # NoPayment /\ ReverseNow(a, p, k))
  BY <1>5 DEF ReversePayment, Known, KnownStep
<1>6. QED
  BY <1>1, <1>2, <1>3, <1>4, <1>5 DEF Next

-----------------------------------------------------------------------------
(* The inductive invariant.  Its money part says of one settlement what    *)
(* its status means, of one payment which settlement it can belong to.     *)

SettlementSound(b) ==
    /\ b.paid <= b.due
    /\ b.status = "absent" => b = NoSettlement
    /\ b.status # "absent" => b.due \in Sums /\ b.creator \in Actors
    /\ b.status \in {"draft", "locked"} => b.paid = 0
    /\ b.status = "partially_paid" => 0 < b.paid /\ b.paid < b.due
    /\ b.status = "settled" => b.paid = b.due
    /\ b.status = "draft" => b.locker = None
    /\ b.status \in {"locked", "partially_paid", "settled"} =>
          b.locker \in Actors /\ b.locker # b.creator
    /\ b.locker # None => b.locker # b.creator

PaymentSound(r) ==
    /\ r.status = "absent" => r = NoPayment
    /\ r.status # "absent" =>
          /\ r.of \in Settlements /\ r.amount \in Amounts
          /\ settlement[r.of].locker \in Actors

MoneyInv ==
    /\ TypeOK
    /\ \A s \in Settlements : SettlementSound(settlement[s])
    /\ \A p \in Payments : PaymentSound(payment[p])

LEMMA KeyTypes ==
    /\ \A a \in Actors, party \in Parties, k \in Keys :
          KeyOf("settlement.create", a, party, k) \in SettlementKeys
    /\ \A a \in Actors, s \in Settlements, k \in Keys :
          /\ KeyOf("settlement.lock", a, s, k) \in SettlementKeys
          /\ \A op \in {"payment.create", "payment.confirm", "payment.reverse"} :
                KeyOf(op, a, s, k) \in PaymentKeys
BY DEF KeyOf, SettlementKeys, PaymentKeys

LEMMA ResultTypes ==
    ASSUME NEW op \in Ops, NEW a \in Actors,
           NEW asked \in Settlements \cup Payments,
           NEW told \in Settlements \cup Payments
    PROVE  Result(op, a, asked, told) \in Results
BY DEF Result, Results

LEMMA InitMoney == Init => MoneyInv
<1> SUFFICES ASSUME Init PROVE MoneyInv
  OBVIOUS
<1>1. TypeOK
  BY DEF Init, TypeOK, NoSettlement, NoPayment, SettlementRecords,
         PaymentRecords, Statuses, Fates
<1>2. \A s \in Settlements : SettlementSound(settlement[s])
  BY DEF Init, SettlementSound, NoSettlement
<1>3. \A p \in Payments : PaymentSound(payment[p])
  BY DEF Init, PaymentSound, NoPayment
<1>4. QED
  BY <1>1, <1>2, <1>3 DEF MoneyInv

LEMMA KnownMoney == MoneyInv /\ KnownStep => MoneyInv'
<1> SUFFICES ASSUME MoneyInv, KnownStep PROVE MoneyInv'
  OBVIOUS
<1>1. UNCHANGED <<settlement, payment, byIdempotency, paymentByIdempotency>>
  BY DEF KnownStep, stores, idem
<1>2. trail' \subseteq Results
  <2>1. CASE \E a \in Actors, party \in Parties, k \in Keys :
                KnownDraft(a, party, k)
    BY <2>1, KeyTypes, ResultTypes DEF KnownDraft, Answer, MoneyInv, TypeOK, Ops
  <2>2. CASE \E a \in Actors, s \in Settlements, k \in Keys :
                LockAgain(a, s, k) /\ Answer("settlement.lock", a, s, s)
    BY <2>2, ResultTypes DEF Answer, MoneyInv, TypeOK, Ops
  <2>3. CASE \E a \in Actors, s \in Settlements, k \in Keys :
                Known("payment.create", a, s, k, None)
    BY <2>3, KeyTypes, ResultTypes DEF Known, Answer, MoneyInv, TypeOK, Ops
  <2>4. CASE \E a \in Actors, p \in Payments, k \in Keys :
                /\ payment[p] # NoPayment
                /\ \/ Known("payment.confirm", a, payment[p].of, k, p)
                   \/ Known("payment.reverse", a, payment[p].of, k, p)
    <3>1. PICK a \in Actors, p \in Payments, k \in Keys,
               op \in {"payment.confirm", "payment.reverse"} :
             /\ payment[p] # NoPayment
             /\ Known(op, a, payment[p].of, k, p)
      BY <2>4
    <3>2. payment[p].of \in Settlements
      BY <3>1 DEF MoneyInv, TypeOK, PaymentSound, PaymentRecords, Fates
    <3>3. KeyOf(op, a, payment[p].of, k) \in PaymentKeys
      BY <3>2, KeyTypes
    <3>4. QED
      BY <3>1, <3>3, ResultTypes DEF Known, Answer, MoneyInv, TypeOK, Ops
  <2>5. QED
    BY <2>1, <2>2, <2>3, <2>4 DEF KnownStep
<1>3. QED
  BY <1>1, <1>2 DEF MoneyInv, TypeOK, SettlementSound, PaymentSound

LEMMA NewDraftMoney ==
    ASSUME MoneyInv, NEW a \in Actors, NEW party \in Parties, NEW k \in Keys,
           NEW sum \in Sums, NEW s \in Settlements, NewDraft(a, party, k, sum, s)
    PROVE  MoneyInv'
<1>1. TypeOK'
  <2>1. settlement' \in [Settlements -> SettlementRecords]
    BY MoneyAssumption DEF NewDraft, NoSettlement, MoneyInv, TypeOK,
       SettlementRecords, Statuses
  <2>2. QED
    BY <2>1, KeyTypes, ResultTypes DEF NewDraft, Answer, MoneyInv, TypeOK, Ops
<1>2. \A t \in Settlements : SettlementSound(settlement[t])'
  BY MoneyAssumption, NoneAssumption
     DEF NewDraft, NoSettlement, MoneyInv, TypeOK, SettlementSound
<1>3. \A p \in Payments : PaymentSound(payment[p])'
  BY NoneAssumption DEF NewDraft, NoSettlement, MoneyInv, TypeOK, PaymentSound
<1>4. QED
  BY <1>1, <1>2, <1>3 DEF MoneyInv

LEMMA LockMoney ==
    ASSUME MoneyInv, NEW a \in Actors, NEW s \in Settlements, NEW k \in Keys,
           LockNow(a, s, k), Answer("settlement.lock", a, s, s)
    PROVE  MoneyInv'
<1>0. settlement[s].status = "draft"
  BY DEF LockNow, CanTransition
<1>1. TypeOK'
  <2>0. [settlement[s] EXCEPT !.status = "locked", !.locker = a]
           \in SettlementRecords
    BY DEF MoneyInv, TypeOK, SettlementRecords, Statuses
  <2>1. settlement' \in [Settlements -> SettlementRecords]
    BY <2>0 DEF LockNow, MoneyInv, TypeOK
  <2>2. QED
    BY <2>1, KeyTypes, ResultTypes DEF LockNow, Answer, MoneyInv, TypeOK, Ops
<1>2. \A t \in Settlements : SettlementSound(settlement[t])'
  BY <1>0, NoneAssumption
     DEF LockNow, CreatorCannotApprove, NoSettlement, MoneyInv, TypeOK,
         SettlementSound, SettlementRecords
<1>3. \A p \in Payments : PaymentSound(payment[p])'
  BY DEF LockNow, MoneyInv, TypeOK, PaymentSound, SettlementRecords
<1>4. QED
  BY <1>1, <1>2, <1>3 DEF MoneyInv

LEMMA VoidMoney ==
    ASSUME MoneyInv, NEW a \in Actors, NEW s \in Settlements, Void(a, s)
    PROVE  MoneyInv'
<1>0. settlement[s].status \in {"draft", "locked", "partially_paid"}
  BY DEF Void, CanTransition
<1>1. TypeOK'
  <2>1. settlement' \in [Settlements -> SettlementRecords]
    BY DEF Void, MoneyInv, TypeOK, SettlementRecords, Statuses
  <2>2. QED
    BY <2>1, ResultTypes DEF Void, idem, Answer, MoneyInv, TypeOK, Ops
<1>2. \A t \in Settlements : SettlementSound(settlement[t])'
  BY <1>0 DEF Void, NoSettlement, MoneyInv, TypeOK, SettlementSound,
              SettlementRecords
<1>3. \A p \in Payments : PaymentSound(payment[p])'
  BY DEF Void, MoneyInv, TypeOK, PaymentSound, SettlementRecords
<1>4. QED
  BY <1>1, <1>2, <1>3 DEF MoneyInv

LEMMA NewPaymentMoney ==
    ASSUME MoneyInv, NEW a \in Actors, NEW s \in Settlements, NEW k \in Keys,
           NEW n \in Amounts, NEW p \in Payments, NewPayment(a, s, k, n, p)
    PROVE  MoneyInv'
<1>0. settlement[s].locker \in Actors
  BY DEF NewPayment, PayableStatuses, MoneyInv, SettlementSound
<1>1. TypeOK'
  <2>1. payment' \in [Payments -> PaymentRecords]
    BY MoneyAssumption DEF NewPayment, NoPayment, MoneyInv, TypeOK,
       PaymentRecords, Fates
  <2>2. QED
    BY <2>1, KeyTypes, ResultTypes
       DEF NewPayment, Remember, Answer, MoneyInv, TypeOK, Ops
<1>2. \A t \in Settlements : SettlementSound(settlement[t])'
  BY DEF NewPayment, MoneyInv, SettlementSound
<1>3. \A q \in Payments : PaymentSound(payment[q])'
  BY <1>0 DEF NewPayment, NoPayment, MoneyInv, TypeOK, PaymentSound
<1>4. QED
  BY <1>1, <1>2, <1>3 DEF MoneyInv

(* What a confirmation and a reversal do to their settlement and payment.  *)
LEMMA ConfirmFacts ==
    ASSUME MoneyInv, NEW a \in Actors, NEW p \in Payments, NEW k \in Keys,
           ConfirmNow(a, p, k)
    PROVE  /\ payment[p].of \in Settlements /\ payment[p].amount \in Nat \ {0}
           /\ payment[p].status = "pending"
           /\ settlement[payment[p].of] \in SettlementRecords
           /\ settlement[payment[p].of].status # "absent"
           /\ settlement[payment[p].of].locker \in Actors
           /\ settlement[payment[p].of].paid + payment[p].amount
                 <= settlement[payment[p].of].due
<1>1. payment[p].status = "pending" /\ payment[p] \in PaymentRecords
  BY DEF ConfirmNow, CanConfirmPayment, MoneyInv, TypeOK
<1>2. /\ payment[p].of \in Settlements /\ payment[p].amount \in Nat \ {0}
      /\ settlement[payment[p].of].locker \in Actors
  BY <1>1, MoneyAssumption DEF MoneyInv, PaymentSound
<1>3. settlement[payment[p].of].status # "absent"
  BY <1>2, NoneAssumption DEF MoneyInv, SettlementSound, NoSettlement
<1>4. QED
  BY <1>1, <1>2, <1>3 DEF ConfirmNow, MoneyInv, TypeOK

LEMMA ReverseFacts ==
    ASSUME MoneyInv, NEW a \in Actors, NEW p \in Payments, NEW k \in Keys,
           ReverseNow(a, p, k)
    PROVE  /\ payment[p].of \in Settlements /\ payment[p].amount \in Nat \ {0}
           /\ payment[p].status = "confirmed"
           /\ settlement[payment[p].of] \in SettlementRecords
           /\ settlement[payment[p].of].status = "partially_paid"
           /\ settlement[payment[p].of].locker \in Actors
           /\ settlement[payment[p].of].paid - payment[p].amount >= 0
<1>1. payment[p].status = "confirmed" /\ payment[p] \in PaymentRecords
  BY DEF ReverseNow, CanReversePayment, MoneyInv, TypeOK
<1>2. /\ payment[p].of \in Settlements /\ payment[p].amount \in Nat \ {0}
      /\ settlement[payment[p].of].locker \in Actors
  BY <1>1, MoneyAssumption DEF MoneyInv, PaymentSound
<1>3. /\ settlement[payment[p].of] \in SettlementRecords
      /\ settlement[payment[p].of].paid - payment[p].amount >= 0
      /\ settlement[payment[p].of].status \in {"locked", "partially_paid"}
  BY <1>2 DEF ReverseNow, ReversibleStatuses, MoneyInv, TypeOK
<1>4. settlement[payment[p].of].status # "locked"
  BY <1>2, <1>3 DEF MoneyInv, SettlementSound, SettlementRecords
<1>5. QED
  BY <1>1, <1>2, <1>3, <1>4

LEMMA ConfirmMoney ==
    ASSUME MoneyInv, NEW a \in Actors, NEW p \in Payments, NEW k \in Keys,
           ConfirmNow(a, p, k)
    PROVE  MoneyInv'
<1> DEFINE s == payment[p].of
           total == settlement[s].paid + payment[p].amount
           status == StatusWhenPaid(total, settlement[s].due)
           b == [settlement[s] EXCEPT !.paid = total, !.status = status]
           r == [payment[p] EXCEPT !.status = "confirmed", !.confirmer = a]
<1>0. /\ s \in Settlements /\ payment[p].amount \in Nat \ {0}
      /\ settlement[s] \in SettlementRecords
      /\ settlement[s].status # "absent" /\ settlement[s].locker \in Actors
      /\ total <= settlement[s].due
      /\ payment[p].status = "pending"
  BY ConfirmFacts
<1>1. /\ settlement' = [settlement EXCEPT ![s] = b]
      /\ payment' = [payment EXCEPT ![p] = r]
      /\ Remember("payment.confirm", a, s, k, p)
  BY DEF ConfirmNow
<1>2. /\ status = IF total = settlement[s].due THEN "settled" ELSE "partially_paid"
      /\ total \in Nat /\ total > 0
  BY <1>0 DEF StatusWhenPaid, SettlementRecords
<1> HIDE DEF total, status, s
<1>3. b \in SettlementRecords
  BY <1>0, <1>2 DEF SettlementRecords, Statuses
<1>4. r \in PaymentRecords
  BY DEF MoneyInv, TypeOK, PaymentRecords, Fates
<1>5. SettlementSound(b)
  BY <1>0, <1>2, NoneAssumption DEF MoneyInv, SettlementSound, SettlementRecords
<1> HIDE DEF b
<1>6. TypeOK'
  BY <1>0, <1>1, <1>3, <1>4, KeyTypes, ResultTypes
     DEF Remember, Answer, MoneyInv, TypeOK, Ops
<1>7. \A t \in Settlements : SettlementSound(settlement[t])'
  <2> SUFFICES ASSUME NEW t \in Settlements
               PROVE  SettlementSound(settlement'[t])
    BY DEF SettlementSound, NoSettlement
  <2>1. settlement'[t] = b \/ settlement'[t] = settlement[t]
    BY <1>0, <1>1 DEF MoneyInv, TypeOK
  <2>2. QED
    BY <2>1, <1>5 DEF MoneyInv
<1>8. \A t \in Settlements : settlement'[t].locker = settlement[t].locker
  BY <1>0, <1>1 DEF MoneyInv, TypeOK, b, SettlementRecords
<1>9. \A q \in Payments : PaymentSound(payment[q])'
  BY <1>0, <1>1, <1>8 DEF MoneyInv, TypeOK, PaymentSound, PaymentRecords, NoPayment
<1>10. QED
  BY <1>6, <1>7, <1>9 DEF MoneyInv

LEMMA ReverseMoney ==
    ASSUME MoneyInv, NEW a \in Actors, NEW p \in Payments, NEW k \in Keys,
           ReverseNow(a, p, k)
    PROVE  MoneyInv'
<1> DEFINE s == payment[p].of
           total == settlement[s].paid - payment[p].amount
           status == StatusWhenReversed(total)
           b == [settlement[s] EXCEPT !.paid = total, !.status = status]
           r == [payment[p] EXCEPT !.status = "reversed", !.reverser = a]
<1>0. /\ s \in Settlements /\ payment[p].amount \in Nat \ {0}
      /\ settlement[s] \in SettlementRecords
      /\ settlement[s].status = "partially_paid"
      /\ settlement[s].locker \in Actors
      /\ total >= 0 /\ payment[p].status = "confirmed"
  BY ReverseFacts
<1>1. /\ settlement' = [settlement EXCEPT ![s] = b]
      /\ payment' = [payment EXCEPT ![p] = r]
      /\ Remember("payment.reverse", a, s, k, p)
  BY DEF ReverseNow
<1>2. /\ status = IF total = 0 THEN "locked" ELSE "partially_paid"
      /\ total \in Nat /\ total < settlement[s].paid
  BY <1>0 DEF StatusWhenReversed, SettlementRecords
<1> HIDE DEF total, status, s
<1>3. b \in SettlementRecords
  BY <1>0, <1>2 DEF SettlementRecords, Statuses
<1>4. r \in PaymentRecords
  BY DEF MoneyInv, TypeOK, PaymentRecords, Fates
<1>5. SettlementSound(b)
  BY <1>0, <1>2, NoneAssumption DEF MoneyInv, SettlementSound, SettlementRecords
<1> HIDE DEF b
<1>6. TypeOK'
  BY <1>0, <1>1, <1>3, <1>4, KeyTypes, ResultTypes
     DEF Remember, Answer, MoneyInv, TypeOK, Ops
<1>7. \A t \in Settlements : SettlementSound(settlement[t])'
  <2> SUFFICES ASSUME NEW t \in Settlements
               PROVE  SettlementSound(settlement'[t])
    BY DEF SettlementSound, NoSettlement
  <2>1. settlement'[t] = b \/ settlement'[t] = settlement[t]
    BY <1>0, <1>1 DEF MoneyInv, TypeOK
  <2>2. QED
    BY <2>1, <1>5 DEF MoneyInv
<1>8. \A t \in Settlements : settlement'[t].locker = settlement[t].locker
  BY <1>0, <1>1 DEF MoneyInv, TypeOK, b, SettlementRecords
<1>9. \A q \in Payments : PaymentSound(payment[q])'
  BY <1>0, <1>1, <1>8 DEF MoneyInv, TypeOK, PaymentSound, PaymentRecords, NoPayment
<1>10. QED
  BY <1>6, <1>7, <1>9 DEF MoneyInv

(* The money invariant holds in every reachable state.                     *)
LEMMA NextMoney == MoneyInv /\ [Next]_vars => MoneyInv'
<1>1. CASE UNCHANGED vars
  BY <1>1 DEF vars, MoneyInv, TypeOK, SettlementSound, PaymentSound
<1>2. ASSUME MoneyInv, Next PROVE MoneyInv'
  BY <1>2, StepCases, KnownMoney, NewDraftMoney, LockMoney, VoidMoney,
     NewPaymentMoney, ConfirmMoney, ReverseMoney
<1>3. QED
  BY <1>1, <1>2

LEMMA MoneyAlways == Spec => []MoneyInv
  BY InitMoney, NextMoney, PTL DEF Spec

(* Type correctness of the settlement repository and its audit trail.      *)
THEOREM TypesHold == Spec => []TypeOK
<1>1. MoneyInv => TypeOK
  BY DEF MoneyInv
<1>2. QED
  BY <1>1, MoneyAlways, PTL

(* No settlement is ever overpaid, and its status never contradicts its    *)
(* money, under any sequence of confirmations, reversals and voids.        *)
THEOREM StatusAlwaysFitsMoney == Spec => []StatusFitsMoney
<1>1. MoneyInv => StatusFitsMoney
  BY DEF MoneyInv, TypeOK, SettlementRecords, SettlementSound, NoSettlement,
         StatusFitsMoney
<1>2. QED
  BY <1>1, MoneyAlways, PTL

(* No payment exists on a settlement that its creator locked, or nobody.   *)
THEOREM MoneyAlwaysNeedsTwo == Spec => []MoneyNeedsTwo
<1>1. MoneyInv => MoneyNeedsTwo
  <2> SUFFICES ASSUME MoneyInv, NEW p \in Payments, payment[p] # NoPayment
               PROVE  LET b == settlement[payment[p].of]
                      IN {b.creator, b.locker} \subseteq Actors
                            /\ b.creator # b.locker
    BY DEF MoneyNeedsTwo
  <2>1. payment[p].of \in Settlements /\ settlement[payment[p].of].locker \in Actors
    BY DEF MoneyInv, TypeOK, PaymentSound
  <2>2. SettlementSound(settlement[payment[p].of])
    BY <2>1 DEF MoneyInv
  <2>3. QED
    BY <2>1, <2>2, NoneAssumption DEF SettlementSound, NoSettlement
<1>2. QED
  BY <1>1, MoneyAlways, PTL

-----------------------------------------------------------------------------
(* Settled history.                                                        *)

LEMMA StepKeepsSettled == MoneyInv /\ [Next]_vars => SettledKept
<1>1. CASE UNCHANGED vars
  BY <1>1 DEF vars, SettledKept
<1>2. ASSUME MoneyInv, KnownStep PROVE SettledKept
  BY <1>2 DEF KnownStep, stores, SettledKept
<1>3. ASSUME MoneyInv, NEW a \in Actors, NEW party \in Parties, NEW k \in Keys,
             NEW sum \in Sums, NEW s \in Settlements,
             NewDraft(a, party, k, sum, s)
      PROVE  SettledKept
  BY <1>3 DEF NewDraft, NoSettlement, SettledKept, MoneyInv, TypeOK
<1>4. ASSUME MoneyInv, NEW a \in Actors, NEW s \in Settlements, NEW k \in Keys,
             LockNow(a, s, k)
      PROVE  SettledKept
  <2>1. settlement[s].status = "draft"
    BY <1>4 DEF LockNow, CanTransition
  <2>2. QED
    BY <1>4, <2>1 DEF LockNow, SettledKept, MoneyInv, TypeOK
<1>5. ASSUME MoneyInv, NEW a \in Actors, NEW s \in Settlements, Void(a, s)
      PROVE  SettledKept
  <2>1. settlement[s].status # "settled"
    BY <1>5 DEF Void, CanTransition
  <2>2. QED
    BY <1>5, <2>1 DEF Void, SettledKept, MoneyInv, TypeOK
<1>6. ASSUME MoneyInv, NEW a \in Actors, NEW s \in Settlements, NEW k \in Keys,
             NEW n \in Amounts, NEW p \in Payments, NewPayment(a, s, k, n, p)
      PROVE  SettledKept
  BY <1>6 DEF NewPayment, NoPayment, SettledKept, MoneyInv, TypeOK
<1>7. ASSUME MoneyInv, NEW a \in Actors, NEW p \in Payments, NEW k \in Keys,
             ConfirmNow(a, p, k)
      PROVE  SettledKept
  <2>1. settlement[payment[p].of].status # "settled"
    <3>1. /\ payment[p].of \in Settlements /\ payment[p].amount \in Nat \ {0}
          /\ settlement[payment[p].of] \in SettlementRecords
          /\ settlement[payment[p].of].paid + payment[p].amount
                <= settlement[payment[p].of].due
      BY <1>7, ConfirmFacts
    <3>2. SettlementSound(settlement[payment[p].of])
      BY <1>7, <3>1 DEF MoneyInv
    <3>3. QED
      BY <3>1, <3>2 DEF SettlementSound, SettlementRecords
  <2>2. payment[p].status = "pending" /\ payment[p].of \in Settlements
    BY <1>7, ConfirmFacts
  <2>3. QED
    BY <1>7, <2>1, <2>2 DEF ConfirmNow, SettledKept, MoneyInv, TypeOK
<1>8. ASSUME MoneyInv, NEW a \in Actors, NEW p \in Payments, NEW k \in Keys,
             ReverseNow(a, p, k)
      PROVE  SettledKept
  <2>1. /\ settlement[payment[p].of].status = "partially_paid"
        /\ payment[p].of \in Settlements
    BY <1>8, ReverseFacts
  <2>2. QED
    BY <1>8, <2>1 DEF ReverseNow, SettledKept, MoneyInv, TypeOK
<1>9. ASSUME MoneyInv, Next PROVE SettledKept
  BY <1>2, <1>3, <1>4, <1>5, <1>6, <1>7, <1>8, <1>9, StepCases
<1>10. QED
  BY <1>1, <1>9

(* A settled settlement and the payments that settled it never change.     *)
THEOREM SettledStays == Spec => SettledIsFinal
  BY StepKeepsSettled, MoneyAlways, PTL DEF Spec, SettledIsFinal

-----------------------------------------------------------------------------
(* The repository implements SettlementBooks.                              *)

(* A step of the repository changes at most one settlement and one payment. *)
LEMMA DueChange ==
    ASSUME MoneyInv,
           NEW s \in Settlements, NEW b \in SettlementRecords,
           settlement' = [settlement EXCEPT ![s] = b]
    PROVE  [t \in Settlements |-> settlement[t].due]'
             = [[t \in Settlements |-> settlement[t].due] EXCEPT ![s] = b.due]
<1>1. \A t \in Settlements :
         settlement'[t].due = IF t = s THEN b.due ELSE settlement[t].due
  BY DEF MoneyInv, TypeOK
<1>2. [t \in Settlements |-> settlement'[t].due]
        = [t \in Settlements |-> IF t = s THEN b.due ELSE settlement[t].due]
  BY <1>1, Zenon
<1>3. [t \in Settlements |-> IF t = s THEN b.due ELSE settlement[t].due]
        = [[t \in Settlements |-> settlement[t].due] EXCEPT ![s] = b.due]
  BY Zenon
<1>4. QED
  BY <1>2, <1>3

LEMMA PaidChange ==
    ASSUME MoneyInv,
           NEW s \in Settlements, NEW b \in SettlementRecords,
           settlement' = [settlement EXCEPT ![s] = b]
    PROVE  [t \in Settlements |-> settlement[t].paid]'
             = [[t \in Settlements |-> settlement[t].paid] EXCEPT ![s] = b.paid]
<1>1. \A t \in Settlements :
         settlement'[t].paid = IF t = s THEN b.paid ELSE settlement[t].paid
  BY DEF MoneyInv, TypeOK
<1>2. [t \in Settlements |-> settlement'[t].paid]
        = [t \in Settlements |-> IF t = s THEN b.paid ELSE settlement[t].paid]
  BY <1>1, Zenon
<1>3. [t \in Settlements |-> IF t = s THEN b.paid ELSE settlement[t].paid]
        = [[t \in Settlements |-> settlement[t].paid] EXCEPT ![s] = b.paid]
  BY Zenon
<1>4. QED
  BY <1>2, <1>3

LEMMA SlipChange ==
    ASSUME MoneyInv,
           NEW p \in Payments, NEW r \in PaymentRecords,
           payment' = [payment EXCEPT ![p] = r]
    PROVE  [q \in Payments |-> [of |-> payment[q].of, amount |-> payment[q].amount,
                                fate |-> payment[q].status]]'
             = [[q \in Payments |-> [of |-> payment[q].of,
                                     amount |-> payment[q].amount,
                                     fate |-> payment[q].status]]
                  EXCEPT ![p] = [of |-> r.of, amount |-> r.amount,
                                 fate |-> r.status]]
<1> DEFINE SlipOf(q) == [of |-> q.of, amount |-> q.amount, fate |-> q.status]
<1>1. \A q \in Payments :
         SlipOf(payment'[q]) = IF q = p THEN SlipOf(r) ELSE SlipOf(payment[q])
  BY DEF MoneyInv, TypeOK
<1> HIDE DEF SlipOf
<1>2. [q \in Payments |-> SlipOf(payment'[q])]
        = [q \in Payments |-> IF q = p THEN SlipOf(r) ELSE SlipOf(payment[q])]
  BY <1>1, Zenon
<1>3. [q \in Payments |-> IF q = p THEN SlipOf(r) ELSE SlipOf(payment[q])]
        = [[q \in Payments |-> SlipOf(payment[q])] EXCEPT ![p] = SlipOf(r)]
  BY Zenon
<1>4. [q \in Payments |-> SlipOf(payment'[q])]
        = [[q \in Payments |-> SlipOf(payment[q])] EXCEPT ![p] = SlipOf(r)]
  BY <1>2, <1>3
<1>5. QED
  BY <1>4 DEF SlipOf

LEMMA InitBooks == Init => Books!BooksInit
  BY DEF Init, NoSettlement, NoPayment, Books!BooksInit, Books!NoSlip

LEMMA OpenBooks ==
    ASSUME MoneyInv, NEW a \in Actors, NEW party \in Parties, NEW k \in Keys,
           NEW sum \in Sums, NEW s \in Settlements, NewDraft(a, party, k, sum, s)
    PROVE  Books!Open(s, sum)
<1> DEFINE b == [NoSettlement EXCEPT !.status = "draft", !.due = sum, !.creator = a]
<1>1. settlement' = [settlement EXCEPT ![s] = b] /\ payment' = payment
  BY DEF NewDraft
<1>2. /\ b \in SettlementRecords /\ b.due = sum /\ b.paid = 0
      /\ settlement[s].due = 0 /\ settlement[s].paid = 0
  <2>1. NoSettlement \in SettlementRecords
    BY DEF NoSettlement, SettlementRecords, Statuses
  <2>2. b \in SettlementRecords /\ b.due = sum /\ b.paid = NoSettlement.paid
    BY <2>1, MoneyAssumption DEF SettlementRecords, Statuses
  <2>3. QED
    BY <2>2 DEF NewDraft, NoSettlement
<1> HIDE DEF b
<1>3. [t \in Settlements |-> settlement[t].due]'
        = [[t \in Settlements |-> settlement[t].due] EXCEPT ![s] = sum]
  BY <1>1, <1>2, DueChange
<1>4. [t \in Settlements |-> settlement[t].paid]'
        = [t \in Settlements |-> settlement[t].paid]
  BY <1>1, <1>2, PaidChange
<1>5. QED
  BY <1>1, <1>2, <1>3, <1>4 DEF Books!Open

LEMMA WriteBooks ==
    ASSUME MoneyInv, NEW a \in Actors, NEW s \in Settlements, NEW k \in Keys,
           NEW n \in Amounts, NEW p \in Payments, NewPayment(a, s, k, n, p)
    PROVE  Books!Write(p, s, n)
<1> DEFINE r == [NoPayment EXCEPT !.status = "pending", !.of = s, !.amount = n,
                                  !.creator = a]
<1>1. payment' = [payment EXCEPT ![p] = r] /\ settlement' = settlement
  BY DEF NewPayment
<1>2. /\ r \in PaymentRecords /\ r.of = s /\ r.amount = n /\ r.status = "pending"
      /\ payment[p].of = None /\ payment[p].amount = 0
      /\ payment[p].status = "absent"
  <2>1. NoPayment \in PaymentRecords
    BY DEF NoPayment, PaymentRecords, Fates
  <2>2. /\ r \in PaymentRecords /\ r.of = s /\ r.amount = n
        /\ r.status = "pending"
    BY <2>1, MoneyAssumption DEF PaymentRecords, Fates
  <2>3. QED
    BY <2>2 DEF NewPayment, NoPayment
<1> HIDE DEF r
<1>3. settlement[s].due # 0
  BY MoneyAssumption DEF NewPayment, PayableStatuses, MoneyInv, SettlementSound
<1>4. QED
  BY <1>1, <1>2, <1>3, SlipChange DEF Books!Write, Books!NoSlip

LEMMA CountBooks ==
    ASSUME MoneyInv, NEW a \in Actors, NEW p \in Payments, NEW k \in Keys,
           ConfirmNow(a, p, k)
    PROVE  \E t \in Settlements : Books!Count(p, t)
<1>0. PICK s \in Settlements : s = payment[p].of
  BY ConfirmFacts
<1> DEFINE total == settlement[s].paid + payment[p].amount
           status == StatusWhenPaid(total, settlement[s].due)
           b == [settlement[s] EXCEPT !.paid = total, !.status = status]
           r == [payment[p] EXCEPT !.status = "confirmed", !.confirmer = a]
<1>1. /\ settlement' = [settlement EXCEPT ![s] = b]
      /\ payment' = [payment EXCEPT ![p] = r]
  BY <1>0 DEF ConfirmNow
<1>2. /\ s \in Settlements /\ payment[p].status = "pending"
      /\ total <= settlement[s].due /\ payment[p].amount \in Nat
      /\ settlement[s] \in SettlementRecords /\ payment[p] \in PaymentRecords
  BY <1>0, ConfirmFacts DEF MoneyInv, TypeOK
<1>3. b \in SettlementRecords /\ b.due = settlement[s].due /\ b.paid = total
  <2>1. status \in Statuses
    BY DEF StatusWhenPaid, Statuses
  <2>2. total \in Nat
    BY <1>2 DEF SettlementRecords
  <2>3. QED
    BY <1>2, <2>1, <2>2 DEF SettlementRecords
<1>4. /\ r \in PaymentRecords /\ r.of = s /\ r.amount = payment[p].amount
      /\ r.status = "confirmed"
  BY <1>0, <1>2 DEF PaymentRecords, Fates
<1> HIDE DEF b, r, total, status
<1>5. [t \in Settlements |-> settlement[t].due]'
        = [t \in Settlements |-> settlement[t].due]
  BY <1>1, <1>2, <1>3, DueChange
<1>6. [t \in Settlements |-> settlement[t].paid]'
        = [[t \in Settlements |-> settlement[t].paid] EXCEPT ![s] = total]
  BY <1>1, <1>2, <1>3, PaidChange
<1>7. [q \in Payments |-> [of |-> payment[q].of, amount |-> payment[q].amount,
                           fate |-> payment[q].status]]'
        = [[q \in Payments |-> [of |-> payment[q].of,
                                amount |-> payment[q].amount,
                                fate |-> payment[q].status]]
             EXCEPT ![p] = [of |-> s, amount |-> payment[p].amount,
                            fate |-> "confirmed"]]
  BY <1>1, <1>4, SlipChange
<1>8. Books!Count(p, s)
  BY <1>0, <1>2, <1>5, <1>6, <1>7 DEF Books!Count, total
<1>9. QED
  BY <1>8

LEMMA UndoBooks ==
    ASSUME MoneyInv, NEW a \in Actors, NEW p \in Payments, NEW k \in Keys,
           ReverseNow(a, p, k)
    PROVE  \E t \in Settlements : Books!Undo(p, t)
<1>0. PICK s \in Settlements : s = payment[p].of
  BY ReverseFacts
<1> DEFINE total == settlement[s].paid - payment[p].amount
           status == StatusWhenReversed(total)
           b == [settlement[s] EXCEPT !.paid = total, !.status = status]
           r == [payment[p] EXCEPT !.status = "reversed", !.reverser = a]
<1>1. /\ settlement' = [settlement EXCEPT ![s] = b]
      /\ payment' = [payment EXCEPT ![p] = r]
  BY <1>0 DEF ReverseNow
<1>2. /\ s \in Settlements /\ payment[p].status = "confirmed"
      /\ total \in Nat /\ payment[p].amount \in Nat
      /\ payment[p].amount <= settlement[s].paid
      /\ settlement[s].status = "partially_paid"
      /\ settlement[s] \in SettlementRecords /\ payment[p] \in PaymentRecords
  BY <1>0, ReverseFacts DEF MoneyInv, TypeOK, SettlementRecords
<1>3. b \in SettlementRecords /\ b.due = settlement[s].due /\ b.paid = total
  <2>1. status \in Statuses
    BY DEF StatusWhenReversed, Statuses
  <2>2. total \in Nat
    BY <1>2 DEF SettlementRecords
  <2>3. QED
    BY <1>2, <2>1, <2>2 DEF SettlementRecords
<1>4. /\ r \in PaymentRecords /\ r.of = s /\ r.amount = payment[p].amount
      /\ r.status = "reversed"
  BY <1>0, <1>2 DEF PaymentRecords, Fates
<1> HIDE DEF b, r, total, status
<1>5. [t \in Settlements |-> settlement[t].due]'
        = [t \in Settlements |-> settlement[t].due]
  BY <1>1, <1>2, <1>3, DueChange
<1>6. [t \in Settlements |-> settlement[t].paid]'
        = [[t \in Settlements |-> settlement[t].paid] EXCEPT ![s] = total]
  BY <1>1, <1>2, <1>3, PaidChange
<1>7. [q \in Payments |-> [of |-> payment[q].of, amount |-> payment[q].amount,
                           fate |-> payment[q].status]]'
        = [[q \in Payments |-> [of |-> payment[q].of,
                                amount |-> payment[q].amount,
                                fate |-> payment[q].status]]
             EXCEPT ![p] = [of |-> s, amount |-> payment[p].amount,
                            fate |-> "reversed"]]
  BY <1>1, <1>4, SlipChange
<1>8. settlement[s].paid < settlement[s].due
  BY <1>2 DEF MoneyInv, SettlementSound
<1>9. Books!Undo(p, s)
  BY <1>0, <1>2, <1>5, <1>6, <1>7, <1>8 DEF Books!Undo, total
<1>10. QED
  BY <1>9

LEMMA QuietBooks ==
    ASSUME MoneyInv,
           \/ KnownStep
           \/ \E a \in Actors, s \in Settlements, k \in Keys : LockNow(a, s, k)
           \/ \E a \in Actors, s \in Settlements : Void(a, s)
    PROVE  UNCHANGED Books!bookVars
<1>1. CASE KnownStep
  BY <1>1 DEF KnownStep, stores, Books!bookVars
<1>2. ASSUME NEW s \in Settlements, NEW b \in SettlementRecords,
             settlement' = [settlement EXCEPT ![s] = b],
             b.due = settlement[s].due, b.paid = settlement[s].paid,
             payment' = payment
      PROVE  UNCHANGED Books!bookVars
  <2>1. [t \in Settlements |-> settlement[t].due]'
          = [t \in Settlements |-> settlement[t].due]
    BY <1>2, DueChange
  <2>2. [t \in Settlements |-> settlement[t].paid]'
          = [t \in Settlements |-> settlement[t].paid]
    BY <1>2, PaidChange
  <2>3. QED
    BY <1>2, <2>1, <2>2 DEF Books!bookVars
<1>3. ASSUME NEW a \in Actors, NEW s \in Settlements, NEW k \in Keys,
             LockNow(a, s, k)
      PROVE  UNCHANGED Books!bookVars
  <2> DEFINE b == [settlement[s] EXCEPT !.status = "locked", !.locker = a]
  <2>1. /\ b \in SettlementRecords
        /\ b.due = settlement[s].due /\ b.paid = settlement[s].paid
    BY DEF MoneyInv, TypeOK, SettlementRecords, Statuses
  <2>2. settlement' = [settlement EXCEPT ![s] = b] /\ payment' = payment
    BY <1>3 DEF LockNow
  <2> HIDE DEF b
  <2>3. QED
    BY <1>2, <2>1, <2>2
<1>4. ASSUME NEW a \in Actors, NEW s \in Settlements, Void(a, s)
      PROVE  UNCHANGED Books!bookVars
  <2> DEFINE b == [settlement[s] EXCEPT !.status = "voided", !.voider = a]
  <2>1. /\ b \in SettlementRecords
        /\ b.due = settlement[s].due /\ b.paid = settlement[s].paid
    BY DEF MoneyInv, TypeOK, SettlementRecords, Statuses
  <2>2. settlement' = [settlement EXCEPT ![s] = b] /\ payment' = payment
    BY <1>4 DEF Void
  <2> HIDE DEF b
  <2>3. QED
    BY <1>2, <2>1, <2>2
<1>5. QED
  BY <1>1, <1>3, <1>4

LEMMA StepBooks == MoneyInv /\ [Next]_vars => [Books!BooksNext]_(Books!bookVars)
<1>1. CASE UNCHANGED vars
  BY <1>1 DEF vars, Books!bookVars
<1>2. ASSUME MoneyInv, Next PROVE Books!BooksNext \/ UNCHANGED Books!bookVars
  <2>1. ASSUME NEW a \in Actors, NEW party \in Parties, NEW k \in Keys,
               NEW sum \in Sums, NEW s \in Settlements,
               NewDraft(a, party, k, sum, s)
        PROVE  Books!BooksNext
    BY <1>2, <2>1, OpenBooks DEF Books!BooksNext
  <2>2. ASSUME NEW a \in Actors, NEW s \in Settlements, NEW k \in Keys,
               NEW n \in Amounts, NEW p \in Payments, NewPayment(a, s, k, n, p)
        PROVE  Books!BooksNext
    BY <1>2, <2>2, WriteBooks DEF Books!BooksNext
  <2>3. ASSUME NEW a \in Actors, NEW p \in Payments, NEW k \in Keys,
               ConfirmNow(a, p, k)
        PROVE  Books!BooksNext
    <3>1. \E t \in Settlements : Books!Count(p, t)
      BY <1>2, <2>3, CountBooks
    <3>2. QED
      BY <3>1 DEF Books!BooksNext
  <2>4. ASSUME NEW a \in Actors, NEW p \in Payments, NEW k \in Keys,
               ReverseNow(a, p, k)
        PROVE  Books!BooksNext
    <3>1. \E t \in Settlements : Books!Undo(p, t)
      BY <1>2, <2>4, UndoBooks
    <3>2. QED
      BY <3>1 DEF Books!BooksNext
  <2>5. CASE \/ KnownStep
             \/ \E a \in Actors, s \in Settlements, k \in Keys : LockNow(a, s, k)
             \/ \E a \in Actors, s \in Settlements : Void(a, s)
    <3>1. UNCHANGED Books!bookVars
      BY <1>2, <2>5, QuietBooks
    <3>2. QED
      BY <3>1
  <2>6. QED
    BY <1>2, <2>1, <2>2, <2>3, <2>4, <2>5, StepCases
<1>3. QED
  BY <1>1, <1>2

(* The repository keeps the books: each payment is counted at most once,   *)
(* never beyond the amount due, and nothing is undone on closed books.     *)
THEOREM ImplementsBooks == Spec => KeepsTheBooks
  BY InitBooks, StepBooks, MoneyAlways, PTL DEF Spec, KeepsTheBooks,
     Books!BooksSpec

-----------------------------------------------------------------------------
(* The audit trail.  A key stands for a record its actor did the operation *)
(* on, and a deed that can still be done has not been done.                *)

SettlementOps == {"settlement.create", "settlement.lock"}
PaymentOps == {"payment.create", "payment.confirm", "payment.reverse"}

KeysInv ==
    /\ \A i \in SettlementKeys, s \in Settlements :
          byIdempotency[i] = s => Doer(i.op, s) = i.actor
    /\ \A i \in PaymentKeys, p \in Payments :
          paymentByIdempotency[i] = p => Doer(i.op, p) = i.actor
    /\ \A p \in Payments :
          /\ payment[p].status = "pending" => payment[p].confirmer = None
          /\ payment[p].status \in {"pending", "confirmed"} =>
                payment[p].reverser = None

TrailInv == MoneyInv /\ KeysInv /\ TrailNamesTheActor

(* The trail stays exact when one result is recorded whose actor is, after *)
(* the step, the doer of its operation, and all other doers are the same.  *)
LEMMA TrailGrows ==
    ASSUME TrailNamesTheActor,
           NEW op0, NEW a0 \in Actors, NEW asked, NEW told,
           trail' = trail \cup {Result(op0, a0, asked, told)},
           \A s \in Settlements, op \in SettlementOps :
              /\ Doer(op, s)' = IF op = op0 /\ s = told THEN a0 ELSE Doer(op, s)
              /\ op = op0 /\ s = told => Doer(op, s) \in {None, a0},
           \A p \in Payments, op \in PaymentOps :
              /\ Doer(op, p)' = IF op = op0 /\ p = told THEN a0 ELSE Doer(op, p)
              /\ op = op0 /\ p = told => Doer(op, p) \in {None, a0}
    PROVE  TrailNamesTheActor'
<1> DEFINE r0 == Result(op0, a0, asked, told)
<1>0. r0.op = op0 /\ r0.actor = a0 /\ r0.told = told /\ trail' = trail \cup {r0}
  BY DEF Result
<1> HIDE DEF r0
<1>1. ASSUME NEW op, NEW a, NEW id
      PROVE  OnTrail(op, a, id)'
                 <=> OnTrail(op, a, id) \/ (op = op0 /\ a = a0 /\ id = told)
  BY <1>0 DEF OnTrail
<1>2. ASSUME NEW a \in Actors, NEW s \in Settlements, NEW op \in SettlementOps
      PROVE  OnTrail(op, a, s)' <=> Doer(op, s)' = a
  <2>1. OnTrail(op, a, s) <=> Doer(op, s) = a
    BY DEF TrailNamesTheActor, SettlementOps
  <2>2. QED
    BY <1>1, <2>1, NoneAssumption
<1>3. ASSUME NEW a \in Actors, NEW p \in Payments, NEW op \in PaymentOps
      PROVE  OnTrail(op, a, p)' <=> Doer(op, p)' = a
  <2>1. OnTrail(op, a, p) <=> Doer(op, p) = a
    BY DEF TrailNamesTheActor, PaymentOps
  <2>2. QED
    BY <1>1, <2>1, NoneAssumption
<1>4. QED
  BY <1>2, <1>3 DEF TrailNamesTheActor, SettlementOps, PaymentOps

LEMMA InitTrail == Init => TrailInv
<1> SUFFICES ASSUME Init PROVE TrailInv
  OBVIOUS
<1>1. KeysInv
  BY NoneAssumption DEF Init, KeysInv, NoPayment
<1>2. ASSUME NEW a \in Actors, NEW s \in Settlements, NEW op \in SettlementOps
      PROVE  ~ OnTrail(op, a, s) /\ Doer(op, s) # a
  BY NoneAssumption DEF Init, OnTrail, Doer, SettlementOps, NoSettlement
<1>3. ASSUME NEW a \in Actors, NEW p \in Payments, NEW op \in PaymentOps
      PROVE  ~ OnTrail(op, a, p) /\ Doer(op, p) # a
  BY NoneAssumption DEF Init, OnTrail, Doer, PaymentOps, NoPayment
<1>4. QED
  BY <1>1, <1>2, <1>3, InitMoney
     DEF TrailInv, TrailNamesTheActor, SettlementOps, PaymentOps

LEMMA SameDoers ==
    ASSUME settlement' = settlement, payment' = payment
    PROVE  \A op, id : Doer(op, id)' = Doer(op, id)
  BY DEF Doer

LEMMA KnownTrail == TrailInv /\ KnownStep => KeysInv' /\ TrailNamesTheActor'
<1> SUFFICES ASSUME TrailInv, KnownStep
             PROVE  KeysInv' /\ TrailNamesTheActor'
  OBVIOUS
<1>1. UNCHANGED <<settlement, payment, byIdempotency, paymentByIdempotency>>
  BY DEF KnownStep, stores, idem
<1>2. \A op, id : Doer(op, id)' = Doer(op, id)
  BY <1>1, SameDoers
<1>3. KeysInv'
  BY <1>1, <1>2 DEF TrailInv, KeysInv
<1>4. ASSUME NEW op0 \in SettlementOps \cup PaymentOps, NEW a0 \in Actors,
             NEW asked, NEW told, Answer(op0, a0, asked, told),
             Doer(op0, told) = a0
      PROVE  TrailNamesTheActor'
  <2>1. trail' = trail \cup {Result(op0, a0, asked, told)}
    BY <1>4 DEF Answer
  <2>2. QED
    BY <1>2, <1>4, <2>1, TrailGrows DEF TrailInv
<1>5. ASSUME NEW a \in Actors, NEW party \in Parties, NEW k \in Keys,
             KnownDraft(a, party, k)
      PROVE  TrailNamesTheActor'
  <2> DEFINE i == KeyOf("settlement.create", a, party, k)
             id == byIdempotency[i]
  <2>1. i \in SettlementKeys /\ i.op = "settlement.create" /\ i.actor = a
    BY KeyTypes DEF KeyOf
  <2>2. id # None /\ Answer("settlement.create", a, id, id)
    BY <1>5 DEF KnownDraft
  <2>3. Doer("settlement.create", id) = a
    BY <2>1, <2>2 DEF TrailInv, KeysInv, MoneyInv, TypeOK
  <2> HIDE DEF id
  <2>4. QED
    BY <1>4, <2>2, <2>3 DEF SettlementOps
<1>6. ASSUME NEW a \in Actors, NEW s \in Settlements, NEW k \in Keys,
             LockAgain(a, s, k), Answer("settlement.lock", a, s, s)
      PROVE  TrailNamesTheActor'
  <2> DEFINE i == KeyOf("settlement.lock", a, s, k)
  <2>1. i \in SettlementKeys /\ i.op = "settlement.lock" /\ i.actor = a
    BY KeyTypes DEF KeyOf
  <2>2. byIdempotency[i] = s /\ s # None
    BY <1>6, NoneAssumption DEF LockAgain
  <2>3. Doer("settlement.lock", s) = a
    BY <2>1, <2>2 DEF TrailInv, KeysInv
  <2>4. QED
    BY <1>4, <1>6, <2>3 DEF SettlementOps
<1>7. ASSUME NEW a \in Actors, NEW s \in Settlements, NEW k \in Keys, NEW asked,
             NEW op \in PaymentOps, Known(op, a, s, k, asked)
      PROVE  TrailNamesTheActor'
  <2> DEFINE i == KeyOf(op, a, s, k)
             id == paymentByIdempotency[i]
             about == IF op = "payment.create" THEN id ELSE asked
  <2>1. i \in PaymentKeys /\ i.op = op /\ i.actor = a
    BY KeyTypes DEF KeyOf, PaymentOps
  <2>2. id # None /\ Answer(op, a, about, id)
    BY <1>7 DEF Known
  <2>3. Doer(op, id) = a
    BY <2>1, <2>2 DEF TrailInv, KeysInv, MoneyInv, TypeOK
  <2> HIDE DEF id, about
  <2>4. QED
    BY <1>4, <2>2, <2>3
<1>8. ASSUME NEW a \in Actors, NEW p \in Payments, NEW k \in Keys,
             payment[p] # NoPayment,
             \/ Known("payment.confirm", a, payment[p].of, k, p)
             \/ Known("payment.reverse", a, payment[p].of, k, p)
      PROVE  TrailNamesTheActor'
  <2>1. PICK s \in Settlements : s = payment[p].of
    BY <1>8 DEF TrailInv, MoneyInv, TypeOK, PaymentSound, PaymentRecords, Fates
  <2>2. Known("payment.confirm", a, s, k, p) \/ Known("payment.reverse", a, s, k, p)
    BY <1>8, <2>1 DEF Known
  <2>3. QED
    BY <1>7, <2>2 DEF PaymentOps
<1>9. TrailNamesTheActor'
  BY <1>5, <1>6, <1>7, <1>8 DEF KnownStep, PaymentOps
<1>10. QED
  BY <1>3, <1>9

(* A key that is added stands for the deed that was just done.             *)
LEMMA SettlementKeyAdded ==
    ASSUME TrailInv, NEW op0 \in SettlementOps, NEW a0 \in Actors,
           NEW s0 \in Settlements, NEW i0 \in SettlementKeys,
           i0.op = op0, i0.actor = a0,
           byIdempotency' = [byIdempotency EXCEPT ![i0] = s0],
           Doer(op0, s0) = None,
           \A s \in Settlements, op \in SettlementOps :
              Doer(op, s)' = IF op = op0 /\ s = s0 THEN a0 ELSE Doer(op, s)
    PROVE  \A i \in SettlementKeys, s \in Settlements :
              byIdempotency'[i] = s => Doer(i.op, s)' = i.actor
<1> SUFFICES ASSUME NEW i \in SettlementKeys, NEW s \in Settlements,
                    byIdempotency'[i] = s
             PROVE  Doer(i.op, s)' = i.actor
  OBVIOUS
<1>1. i.op \in SettlementOps /\ i.actor \in Actors
  BY DEF SettlementKeys, SettlementOps
<1>2. CASE i = i0
  BY <1>1, <1>2 DEF TrailInv, MoneyInv, TypeOK
<1>3. CASE i # i0
  <2>1. byIdempotency[i] = s
    BY <1>3 DEF TrailInv, MoneyInv, TypeOK
  <2>2. Doer(i.op, s) = i.actor
    BY <2>1 DEF TrailInv, KeysInv
  <2>3. QED
    BY <1>1, <2>2, NoneAssumption
<1>4. QED
  BY <1>2, <1>3

LEMMA PaymentKeyAdded ==
    ASSUME TrailInv, NEW op0 \in PaymentOps, NEW a0 \in Actors,
           NEW p0 \in Payments, NEW i0 \in PaymentKeys,
           i0.op = op0, i0.actor = a0,
           paymentByIdempotency' = [paymentByIdempotency EXCEPT ![i0] = p0],
           Doer(op0, p0) = None,
           \A p \in Payments, op \in PaymentOps :
              Doer(op, p)' = IF op = op0 /\ p = p0 THEN a0 ELSE Doer(op, p)
    PROVE  \A i \in PaymentKeys, p \in Payments :
              paymentByIdempotency'[i] = p => Doer(i.op, p)' = i.actor
<1> SUFFICES ASSUME NEW i \in PaymentKeys, NEW p \in Payments,
                    paymentByIdempotency'[i] = p
             PROVE  Doer(i.op, p)' = i.actor
  OBVIOUS
<1>1. i.op \in PaymentOps /\ i.actor \in Actors
  BY DEF PaymentKeys, PaymentOps
<1>2. CASE i = i0
  BY <1>1, <1>2 DEF TrailInv, MoneyInv, TypeOK
<1>3. CASE i # i0
  <2>1. paymentByIdempotency[i] = p
    BY <1>3 DEF TrailInv, MoneyInv, TypeOK
  <2>2. Doer(i.op, p) = i.actor
    BY <2>1 DEF TrailInv, KeysInv
  <2>3. QED
    BY <1>1, <2>2, NoneAssumption
<1>4. QED
  BY <1>2, <1>3

LEMMA PaymentKeysKept ==
    ASSUME TrailInv, UNCHANGED paymentByIdempotency,
           \A p \in Payments, op \in PaymentOps : Doer(op, p)' = Doer(op, p)
    PROVE  \A i \in PaymentKeys, p \in Payments :
              paymentByIdempotency'[i] = p => Doer(i.op, p)' = i.actor
  BY DEF TrailInv, KeysInv, PaymentKeys, PaymentOps

LEMMA SettlementKeysKept ==
    ASSUME TrailInv, UNCHANGED byIdempotency,
           \A s \in Settlements, op \in SettlementOps : Doer(op, s)' = Doer(op, s)
    PROVE  \A i \in SettlementKeys, s \in Settlements :
              byIdempotency'[i] = s => Doer(i.op, s)' = i.actor
  BY DEF TrailInv, KeysInv, SettlementKeys, SettlementOps

LEMMA DraftTrail ==
    ASSUME TrailInv, NEW a \in Actors, NEW party \in Parties, NEW k \in Keys,
           NEW sum \in Sums, NEW s \in Settlements, NewDraft(a, party, k, sum, s)
    PROVE  KeysInv' /\ TrailNamesTheActor'
<1> DEFINE i == KeyOf("settlement.create", a, party, k)
<1>1. \A p \in Payments, op \in PaymentOps : Doer(op, p)' = Doer(op, p)
  BY DEF NewDraft, Doer, PaymentOps
<1>2. /\ Doer("settlement.create", s) = None
      /\ \A t \in Settlements, op \in SettlementOps :
            Doer(op, t)' = IF op = "settlement.create" /\ t = s THEN a
                           ELSE Doer(op, t)
  BY DEF NewDraft, NoSettlement, Doer, SettlementOps, TrailInv, MoneyInv, TypeOK
<1>3. TrailNamesTheActor'
  <2>1. trail' = trail \cup {Result("settlement.create", a, s, s)}
    BY DEF NewDraft, Answer
  <2>2. QED
    BY <1>1, <1>2, <2>1, TrailGrows DEF TrailInv, PaymentOps
<1>4. /\ i \in SettlementKeys /\ i.op = "settlement.create" /\ i.actor = a
      /\ byIdempotency' = [byIdempotency EXCEPT ![i] = s]
  BY KeyTypes DEF KeyOf, NewDraft
<1> HIDE DEF i
<1>5. KeysInv'
  <2>1. "settlement.create" \in SettlementOps
    BY DEF SettlementOps
  <2>2. \A j \in SettlementKeys, t \in Settlements :
           byIdempotency'[j] = t => Doer(j.op, t)' = j.actor
    BY <1>2, <1>4, <2>1, SettlementKeyAdded
  <2>3. QED
    BY <1>1, <2>2, PaymentKeysKept DEF NewDraft, TrailInv, KeysInv
<1>6. QED
  BY <1>3, <1>5

LEMMA LockTrail ==
    ASSUME TrailInv, NEW a \in Actors, NEW s \in Settlements, NEW k \in Keys,
           LockNow(a, s, k), Answer("settlement.lock", a, s, s)
    PROVE  KeysInv' /\ TrailNamesTheActor'
<1> DEFINE i == KeyOf("settlement.lock", a, s, k)
<1>1. \A p \in Payments, op \in PaymentOps : Doer(op, p)' = Doer(op, p)
  BY DEF LockNow, Doer, PaymentOps
<1>2. /\ Doer("settlement.lock", s) = None
      /\ \A t \in Settlements, op \in SettlementOps :
            Doer(op, t)' = IF op = "settlement.lock" /\ t = s THEN a
                           ELSE Doer(op, t)
  <2>1. settlement[s].status = "draft"
    BY DEF LockNow, CanTransition
  <2>2. settlement[s].locker = None
    BY <2>1 DEF TrailInv, MoneyInv, SettlementSound
  <2>3. QED
    BY <2>2 DEF LockNow, Doer, SettlementOps, TrailInv, MoneyInv, TypeOK,
                SettlementRecords
<1>3. TrailNamesTheActor'
  <2>1. trail' = trail \cup {Result("settlement.lock", a, s, s)}
    BY DEF Answer
  <2>2. QED
    BY <1>1, <1>2, <2>1, TrailGrows DEF TrailInv, PaymentOps
<1>4. /\ i \in SettlementKeys /\ i.op = "settlement.lock" /\ i.actor = a
      /\ byIdempotency' = [byIdempotency EXCEPT ![i] = s]
  BY KeyTypes DEF KeyOf, LockNow
<1> HIDE DEF i
<1>5. KeysInv'
  <2>1. "settlement.lock" \in SettlementOps
    BY DEF SettlementOps
  <2>2. \A j \in SettlementKeys, t \in Settlements :
           byIdempotency'[j] = t => Doer(j.op, t)' = j.actor
    BY <1>2, <1>4, <2>1, SettlementKeyAdded
  <2>3. QED
    BY <1>1, <2>2, PaymentKeysKept DEF LockNow, TrailInv, KeysInv
<1>6. QED
  BY <1>3, <1>5

LEMMA VoidTrail ==
    ASSUME TrailInv, NEW a \in Actors, NEW s \in Settlements, Void(a, s)
    PROVE  KeysInv' /\ TrailNamesTheActor'
<1>1. \A p \in Payments, op \in PaymentOps : Doer(op, p)' = Doer(op, p)
  BY DEF Void, Doer, PaymentOps
<1>2. \A t \in Settlements, op \in SettlementOps : Doer(op, t)' = Doer(op, t)
  BY DEF Void, Doer, SettlementOps, TrailInv, MoneyInv, TypeOK, SettlementRecords
<1>3. TrailNamesTheActor'
  <2>1. trail' = trail \cup {Result("settlement.void", a, s, s)}
    BY DEF Void, Answer
  <2>2. QED
    BY <1>1, <1>2, <2>1, TrailGrows DEF TrailInv, SettlementOps, PaymentOps
<1>4. UNCHANGED <<payment, byIdempotency, paymentByIdempotency>>
  BY DEF Void, idem
<1>5. KeysInv'
  BY <1>1, <1>2, <1>4, SettlementKeysKept, PaymentKeysKept DEF TrailInv, KeysInv
<1>6. QED
  BY <1>3, <1>5

LEMMA PaymentTrail ==
    ASSUME TrailInv, NEW op0 \in PaymentOps, NEW a \in Actors,
           NEW s \in Settlements, NEW k \in Keys, NEW p \in Payments,
           Remember(op0, a, s, k, p),
           \A t \in Settlements, op \in SettlementOps : Doer(op, t)' = Doer(op, t),
           Doer(op0, p) = None,
           \A q \in Payments, op \in PaymentOps :
              Doer(op, q)' = IF op = op0 /\ q = p THEN a ELSE Doer(op, q),
           \A q \in Payments :
              /\ payment'[q].status = "pending" => payment'[q].confirmer = None
              /\ payment'[q].status \in {"pending", "confirmed"} =>
                    payment'[q].reverser = None
    PROVE  KeysInv' /\ TrailNamesTheActor'
<1> DEFINE i == KeyOf(op0, a, s, k)
<1>1. TrailNamesTheActor'
  <2>1. trail' = trail \cup {Result(op0, a, p, p)}
    BY DEF Remember, Answer
  <2>2. QED
    BY <2>1, TrailGrows DEF TrailInv, SettlementOps, PaymentOps
<1>2. /\ i \in PaymentKeys /\ i.op = op0 /\ i.actor = a
      /\ paymentByIdempotency' = [paymentByIdempotency EXCEPT ![i] = p]
  BY KeyTypes DEF KeyOf, Remember, PaymentOps
<1> HIDE DEF i
<1>3. \A j \in PaymentKeys, q \in Payments :
         paymentByIdempotency'[j] = q => Doer(j.op, q)' = j.actor
  BY <1>2, PaymentKeyAdded
<1>4. KeysInv'
  BY <1>3, SettlementKeysKept DEF Remember, KeysInv
<1>5. QED
  BY <1>1, <1>4

LEMMA NewPaymentTrail ==
    ASSUME TrailInv, NEW a \in Actors, NEW s \in Settlements, NEW k \in Keys,
           NEW n \in Amounts, NEW p \in Payments, NewPayment(a, s, k, n, p)
    PROVE  KeysInv' /\ TrailNamesTheActor'
<1>1. \A t \in Settlements, op \in SettlementOps : Doer(op, t)' = Doer(op, t)
  BY DEF NewPayment, Doer, SettlementOps
<1>2. /\ Doer("payment.create", p) = None
      /\ \A q \in Payments, op \in PaymentOps :
            Doer(op, q)' = IF op = "payment.create" /\ q = p THEN a ELSE Doer(op, q)
  BY DEF NewPayment, NoPayment, Doer, PaymentOps, TrailInv, MoneyInv, TypeOK
<1>3. \A q \in Payments :
         /\ payment'[q].status = "pending" => payment'[q].confirmer = None
         /\ payment'[q].status \in {"pending", "confirmed"} =>
               payment'[q].reverser = None
  BY DEF NewPayment, NoPayment, TrailInv, MoneyInv, TypeOK, KeysInv
<1>4. Remember("payment.create", a, s, k, p) /\ "payment.create" \in PaymentOps
  BY DEF NewPayment, PaymentOps
<1>5. QED
  BY <1>1, <1>2, <1>3, <1>4, PaymentTrail

LEMMA ConfirmTrail ==
    ASSUME TrailInv, NEW a \in Actors, NEW p \in Payments, NEW k \in Keys,
           ConfirmNow(a, p, k)
    PROVE  KeysInv' /\ TrailNamesTheActor'
<1>0. PICK s \in Settlements :
         s = payment[p].of /\ payment[p].status = "pending"
  BY ConfirmFacts DEF TrailInv
<1>1. /\ payment' = [payment EXCEPT
            ![p] = [@ EXCEPT !.status = "confirmed", !.confirmer = a]]
      /\ Remember("payment.confirm", a, s, k, p)
      /\ \A t \in Settlements : /\ settlement'[t].creator = settlement[t].creator
                                /\ settlement'[t].locker = settlement[t].locker
  BY <1>0 DEF ConfirmNow, TrailInv, MoneyInv, TypeOK, SettlementRecords
<1>2. \A t \in Settlements, op \in SettlementOps : Doer(op, t)' = Doer(op, t)
  BY <1>1 DEF Doer, SettlementOps
<1>3. /\ Doer("payment.confirm", p) = None
      /\ \A q \in Payments, op \in PaymentOps :
            Doer(op, q)' = IF op = "payment.confirm" /\ q = p THEN a
                           ELSE Doer(op, q)
  BY <1>0, <1>1 DEF Doer, PaymentOps, TrailInv, KeysInv, MoneyInv, TypeOK,
                    PaymentRecords
<1>4. \A q \in Payments :
         /\ payment'[q].status = "pending" => payment'[q].confirmer = None
         /\ payment'[q].status \in {"pending", "confirmed"} =>
               payment'[q].reverser = None
  BY <1>0, <1>1 DEF TrailInv, MoneyInv, TypeOK, KeysInv, PaymentRecords
<1>5. "payment.confirm" \in PaymentOps
  BY DEF PaymentOps
<1>6. QED
  BY <1>1, <1>2, <1>3, <1>4, <1>5, PaymentTrail

LEMMA ReverseTrail ==
    ASSUME TrailInv, NEW a \in Actors, NEW p \in Payments, NEW k \in Keys,
           ReverseNow(a, p, k)
    PROVE  KeysInv' /\ TrailNamesTheActor'
<1>0. PICK s \in Settlements :
         s = payment[p].of /\ payment[p].status = "confirmed"
  BY ReverseFacts DEF TrailInv
<1>1. /\ payment' = [payment EXCEPT
            ![p] = [@ EXCEPT !.status = "reversed", !.reverser = a]]
      /\ Remember("payment.reverse", a, s, k, p)
      /\ \A t \in Settlements : /\ settlement'[t].creator = settlement[t].creator
                                /\ settlement'[t].locker = settlement[t].locker
  BY <1>0 DEF ReverseNow, TrailInv, MoneyInv, TypeOK, SettlementRecords
<1>2. \A t \in Settlements, op \in SettlementOps : Doer(op, t)' = Doer(op, t)
  BY <1>1 DEF Doer, SettlementOps
<1>3. /\ Doer("payment.reverse", p) = None
      /\ \A q \in Payments, op \in PaymentOps :
            Doer(op, q)' = IF op = "payment.reverse" /\ q = p THEN a
                           ELSE Doer(op, q)
  BY <1>0, <1>1 DEF Doer, PaymentOps, TrailInv, KeysInv, MoneyInv, TypeOK,
                    PaymentRecords
<1>4. \A q \in Payments :
         /\ payment'[q].status = "pending" => payment'[q].confirmer = None
         /\ payment'[q].status \in {"pending", "confirmed"} =>
               payment'[q].reverser = None
  BY <1>0, <1>1 DEF TrailInv, MoneyInv, TypeOK, KeysInv, PaymentRecords
<1>5. "payment.reverse" \in PaymentOps
  BY DEF PaymentOps
<1>6. QED
  BY <1>1, <1>2, <1>3, <1>4, <1>5, PaymentTrail

LEMMA NextTrail == TrailInv /\ [Next]_vars => TrailInv'
<1>1. CASE UNCHANGED vars
  <2>1. \A op, id : Doer(op, id)' = Doer(op, id)
    BY <1>1, SameDoers DEF vars
  <2>2. TrailInv => KeysInv' /\ TrailNamesTheActor'
    BY <1>1, <2>1 DEF vars, TrailInv, KeysInv, TrailNamesTheActor, OnTrail
  <2>3. QED
    BY <1>1, <2>2, NextMoney DEF TrailInv
<1>2. ASSUME TrailInv, Next PROVE TrailInv'
  <2>1. KeysInv' /\ TrailNamesTheActor'
    BY <1>2, StepCases, KnownTrail, DraftTrail, LockTrail, VoidTrail,
       NewPaymentTrail, ConfirmTrail, ReverseTrail
  <2>2. QED
    BY <1>2, <2>1, NextMoney DEF TrailInv
<1>3. QED
  BY <1>1, <1>2

(* The audit trail names an actor for an operation on a record exactly if  *)
(* this actor did it, for any number of repeated and concurrent calls.     *)
THEOREM TrailIsExact == Spec => []TrailNamesTheActor
<1>1. TrailInv => TrailNamesTheActor
  BY DEF TrailInv
<1>2. QED
  BY <1>1, InitTrail, NextTrail, PTL DEF Spec
-----------------------------------------------------------------------------
(* Sums over finite sets.  The fold of the community modules takes out one  *)
(* element after the other by CHOOSE; that a sum does not depend on the    *)
(* order has to be proved.  A claim about every finite set is proved by a  *)
(* smallest counterexample.                                                *)
AddUp(w, S) == MapThenSumSet(LAMBDA p : w[p].amount, S)
(* g is the function the fold defines by recursion on the subsets of S.    *)
Adds(g, w, S) ==
    g = [s \in SUBSET S |->
            IF s = {} THEN 0
            ELSE LET x == CHOOSE x \in s : TRUE IN w[x].amount + g[s \ {x}]]
First(s) == CHOOSE x \in s : TRUE

LEMMA AddUpIs ==
    ASSUME NEW w, NEW S PROVE AddUp(w, S) = (CHOOSE g : Adds(g, w, S))[S]
BY DEF AddUp, MapThenSumSet, MapThenFoldSet, Adds

LEMMA AddsAt ==
    ASSUME NEW g, NEW w, NEW S, Adds(g, w, S), NEW s \in SUBSET S
    PROVE  /\ s = {} => g[s] = 0
           /\ s # {} => /\ First(s) \in s /\ s \ {First(s)} \in SUBSET S
                        /\ g[s] = w[First(s)].amount + g[s \ {First(s)}]
<1>1. g[s] = IF s = {} THEN 0 ELSE w[First(s)].amount + g[s \ {First(s)}]
  BY DEF Adds, First
<1>2. s # {} => First(s) \in s
  BY DEF First
<1> QED BY <1>1, <1>2

LEMMA Smallest ==
    ASSUME NEW N, N \subseteq Nat, N # {}
    PROVE  \E n \in N : \A m \in N : ~(m < n)
<1>1. PICK n \in N : \A m \in N : ~(<<m, n>> \in OpToRel(<, Nat))
  BY NatLessThanWellFounded, WFMin
<1> QED BY <1>1 DEF OpToRel

(* There is one such function, on any finite set, and those of two sets    *)
(* agree where both are defined.                                          *)
LEMMA AddsAgree ==
    ASSUME NEW g, NEW h, NEW w, NEW S, NEW T, Adds(g, w, S), Adds(h, w, T),
           NEW s \in SUBSET (S \cap T), IsFiniteSet(s)
    PROVE  g[s] = h[s]
<1> DEFINE Differ == {n \in Nat : \E u \in SUBSET (S \cap T) :
                         IsFiniteSet(u) /\ Cardinality(u) = n /\ g[u] # h[u]}
<1> SUFFICES ASSUME g[s] # h[s] PROVE FALSE
  OBVIOUS
<1>1. Cardinality(s) \in Differ
  BY FS_CardinalityType
<1>2. PICK n \in Differ : \A m \in Differ : ~(m < n)
  BY <1>1, Smallest
<1>3. PICK u \in SUBSET (S \cap T) : IsFiniteSet(u) /\ Cardinality(u) = n /\ g[u] # h[u]
  BY <1>2
<1>4. u # {} /\ First(u) \in u /\ g[u \ {First(u)}] # h[u \ {First(u)}]
  <2>1. u \in SUBSET S /\ u \in SUBSET T
    OBVIOUS
  <2> HIDE DEF Differ
  <2>2. /\ u = {} => g[u] = 0
        /\ u # {} => First(u) \in u /\ g[u] = w[First(u)].amount + g[u \ {First(u)}]
    BY <2>1, AddsAt
  <2>3. /\ u = {} => h[u] = 0
        /\ u # {} => First(u) \in u /\ h[u] = w[First(u)].amount + h[u \ {First(u)}]
    BY <2>1, AddsAt
  <2> QED BY <1>3, <2>2, <2>3
<1>5. IsFiniteSet(u \ {First(u)}) /\ Cardinality(u \ {First(u)}) = n - 1
  BY <1>3, <1>4, FS_RemoveElement
<1>6. n \in Nat /\ n - 1 \in Nat
  BY <1>2, <1>5, FS_CardinalityType
<1>7. u \ {First(u)} \in SUBSET (S \cap T)
  OBVIOUS
<1>8. n - 1 \in Differ
  BY <1>4, <1>5, <1>6, <1>7
<1> QED BY <1>2, <1>6, <1>8

LEMMA AddsExists ==
    ASSUME NEW w, NEW S, IsFiniteSet(S)
    PROVE  \E g : Adds(g, w, S)
<1> DEFINE Lacks == {n \in Nat : \E T : /\ IsFiniteSet(T) /\ Cardinality(T) = n
                                        /\ ~\E g : Adds(g, w, T)}
<1> SUFFICES ASSUME ~\E g : Adds(g, w, S) PROVE FALSE
  OBVIOUS
<1>1. Cardinality(S) \in Lacks
  BY FS_CardinalityType
<1>2. PICK n \in Lacks : \A m \in Lacks : ~(m < n)
  BY <1>1, Smallest
<1>3. PICK T : IsFiniteSet(T) /\ Cardinality(T) = n /\ ~\E g : Adds(g, w, T)
  BY <1>2
<1>4. ASSUME NEW t \in SUBSET T, t # T PROVE IsFiniteSet(t) /\ \E g : Adds(g, w, t)
  <2>1. IsFiniteSet(t) /\ Cardinality(t) <= n /\ Cardinality(t) # n
    BY <1>3, <1>4, FS_Subset
  <2>2. Cardinality(t) \in Nat /\ n \in Nat
    BY <2>1, <1>2, FS_CardinalityType
  <2>3. Cardinality(t) \notin Lacks
    BY <1>2, <2>1, <2>2
  <2> QED BY <2>1, <2>2, <2>3
<1> DEFINE G == [s \in SUBSET T |-> IF s = {} THEN 0
                                   ELSE w[First(s)].amount + AddUp(w, s \ {First(s)})]
<1>5. ASSUME NEW s \in SUBSET T, s # {} PROVE G[s \ {First(s)}] = AddUp(w, s \ {First(s)})
  <2> DEFINE t == s \ {First(s)}
             h == CHOOSE g : Adds(g, w, t)
             v == t \ {First(t)}
  <2>1. First(s) \in s
    BY <1>5 DEF First
  <2>2. t \in SUBSET T /\ t # T
    BY <2>1
  <2>3. Adds(h, w, t) /\ IsFiniteSet(t)
    BY <1>4, <2>2
  <2>4. AddUp(w, t) = h[t]
    BY AddUpIs
  <2>5. CASE t = {}
    BY <2>2, <2>3, <2>4, <2>5, AddsAt
  <2>6. CASE t # {}
    <3>1. First(t) \in t /\ h[t] = w[First(t)].amount + h[v]
      <4> t \in SUBSET t
        OBVIOUS
      <4> HIDE DEF t, h
      <4> QED BY <2>3, <2>6, AddsAt DEF v
    <3>2. v \in SUBSET T /\ v # T /\ v \in SUBSET (t \cap v)
      BY <3>1, <2>2
    <3>3. IsFiniteSet(v) /\ Adds(CHOOSE g : Adds(g, w, v), w, v)
      BY <3>2, <1>4
    <3>4. AddUp(w, v) = (CHOOSE g : Adds(g, w, v))[v]
      BY AddUpIs
    <3>5. h[v] = AddUp(w, v)
      <4> HIDE DEF h, v, t
      <4> QED BY <2>3, <3>2, <3>3, <3>4, AddsAgree
    <3>6. G[t] = w[First(t)].amount + AddUp(w, v)
      BY <2>2, <2>6
    <3> QED BY <3>1, <3>5, <3>6, <2>4
  <2> QED BY <2>5, <2>6
<1>6. G = [s \in SUBSET T |-> IF s = {} THEN 0
                              ELSE LET x == CHOOSE x \in s : TRUE IN w[x].amount + G[s \ {x}]]
  <2> DEFINE Body(s) == IF s = {} THEN 0 ELSE w[First(s)].amount + G[s \ {First(s)}]
  <2>1. \A s \in SUBSET T : Body(s) = IF s = {} THEN 0
                                     ELSE w[First(s)].amount + AddUp(w, s \ {First(s)})
    <3> HIDE DEF G
    <3> QED BY <1>5
  <2>2. G = [s \in SUBSET T |-> Body(s)]
    <3> HIDE DEF Body
    <3> QED BY <2>1
  <2> HIDE DEF G
  <2> QED BY <2>2 DEF First
<1>7. Adds(G, w, T)
  <2> HIDE DEF G
  <2> QED BY <1>6 DEF Adds
<1> QED BY <1>3, <1>7

(* So sums can be taken step by step, are numbers, lose exactly what any   *)
(* element weighs when it is taken out, and depend on weights only.        *)
LEMMA AddUpSteps ==
    ASSUME NEW w, NEW S, IsFiniteSet(S)
    PROVE  /\ S = {} => AddUp(w, S) = 0
           /\ S # {} => /\ First(S) \in S
                        /\ AddUp(w, S) = w[First(S)].amount + AddUp(w, S \ {First(S)})
<1> DEFINE g == CHOOSE f : Adds(f, w, S)
           T == S \ {First(S)}
           h == CHOOSE f : Adds(f, w, T)
<1>1. Adds(g, w, S) /\ AddUp(w, S) = g[S]
  BY AddsExists, AddUpIs
<1>2. IsFiniteSet(T)
  BY FS_RemoveElement
<1>3. Adds(h, w, T) /\ AddUp(w, T) = h[T]
  BY <1>2, AddsExists, AddUpIs
<1>4. g[T] = h[T]
  <2>1. T \in SUBSET (S \cap T)
    OBVIOUS
  <2> HIDE DEF g, h, T
  <2> QED BY <1>1, <1>2, <1>3, <2>1, AddsAgree
<1>5. /\ S = {} => g[S] = 0
      /\ S # {} => First(S) \in S /\ g[S] = w[First(S)].amount + g[T]
  BY <1>1, AddsAt
<1> QED BY <1>1, <1>3, <1>4, <1>5

LEMMA AddUpNat ==
    ASSUME NEW w, NEW S, IsFiniteSet(S), \A x \in S : w[x].amount \in Nat
    PROVE  AddUp(w, S) \in Nat
<1> DEFINE Odd == {n \in Nat : \E T \in SUBSET S : Cardinality(T) = n /\ AddUp(w, T) \notin Nat}
<1> SUFFICES ASSUME AddUp(w, S) \notin Nat PROVE FALSE
  OBVIOUS
<1>1. Cardinality(S) \in Odd
  BY FS_CardinalityType
<1>2. PICK n \in Odd : \A m \in Odd : ~(m < n)
  BY <1>1, Smallest
<1>3. PICK T \in SUBSET S : Cardinality(T) = n /\ AddUp(w, T) \notin Nat
  BY <1>2
<1>4. IsFiniteSet(T)
  BY FS_Subset
<1> DEFINE U == T \ {First(T)}
<1>0. T # {}
  <2>1. T = {} => AddUp(w, T) = 0
    BY <1>4, AddUpSteps
  <2> QED BY <1>3, <2>1
<1>5. First(T) \in T /\ AddUp(w, T) = w[First(T)].amount + AddUp(w, U)
  BY <1>0, <1>4, AddUpSteps
<1>6. IsFiniteSet(U) /\ Cardinality(U) = n - 1 /\ U \in SUBSET S
  BY <1>3, <1>4, <1>5, FS_RemoveElement
<1>7. n \in Nat /\ n - 1 \in Nat
  BY <1>2, <1>6, FS_CardinalityType
<1>8. AddUp(w, U) \in Nat
  BY <1>2, <1>6, <1>7
<1> QED BY <1>3, <1>5, <1>8

LEMMA AddUpWithout ==
    ASSUME NEW w, NEW S, IsFiniteSet(S), \A p \in S : w[p].amount \in Nat, NEW y \in S
    PROVE  AddUp(w, S) = w[y].amount + AddUp(w, S \ {y})
<1> DEFINE Odd == {n \in Nat : \E T \in SUBSET S : \E z \in T :
              Cardinality(T) = n /\ AddUp(w, T) # w[z].amount + AddUp(w, T \ {z})}
<1> SUFFICES ASSUME AddUp(w, S) # w[y].amount + AddUp(w, S \ {y}) PROVE FALSE
  OBVIOUS
<1>1. Cardinality(S) \in Odd
  BY FS_CardinalityType
<1>2. PICK n \in Odd : \A m \in Odd : ~(m < n)
  BY <1>1, Smallest
<1>3. PICK T \in SUBSET S : \E z \in T :
         Cardinality(T) = n /\ AddUp(w, T) # w[z].amount + AddUp(w, T \ {z})
  BY <1>2
<1>4. PICK z \in T :
         Cardinality(T) = n /\ AddUp(w, T) # w[z].amount + AddUp(w, T \ {z})
  BY <1>3
<1>5. IsFiniteSet(T)
  BY FS_Subset
<1> DEFINE x == First(T)
           U == T \ {x}
           V == T \ {z}
           R == T \ {x, z}
<1>6. x \in T /\ AddUp(w, T) = w[x].amount + AddUp(w, U)
  BY <1>4, <1>5, AddUpSteps
<1>7. x # z
  BY <1>4, <1>6
<1>8. /\ IsFiniteSet(U) /\ Cardinality(U) = n - 1
      /\ IsFiniteSet(V) /\ Cardinality(V) = n - 1
  BY <1>4, <1>5, <1>6, FS_RemoveElement
<1>9. n \in Nat /\ n - 1 \in Nat /\ n - 1 \notin Odd
  BY <1>2, <1>8, FS_CardinalityType
<1>10. U \ {z} = R /\ V \ {x} = R /\ z \in U /\ x \in V /\ U \in SUBSET S /\ V \in SUBSET S
  BY <1>4, <1>6, <1>7
<1> HIDE DEF U, V, R, x
<1>11. AddUp(w, U) = w[z].amount + AddUp(w, R) /\ AddUp(w, V) = w[x].amount + AddUp(w, R)
  <2>1. \A W \in SUBSET S : \A u \in W :
           Cardinality(W) = n - 1 => AddUp(w, W) = w[u].amount + AddUp(w, W \ {u})
    BY <1>9
  <2> QED BY <2>1, <1>8, <1>10
<1>12. w[x].amount \in Nat /\ w[z].amount \in Nat
  BY <1>4, <1>6
<1>13. IsFiniteSet(R) /\ R \in SUBSET S
  BY <1>8, <1>10, FS_RemoveElement
<1>14. AddUp(w, R) \in Nat
  BY <1>13, AddUpNat
<1> QED BY <1>4, <1>6, <1>11, <1>12, <1>14 DEF V

LEMMA AddUpSame ==
    ASSUME NEW w, NEW v, NEW S, IsFiniteSet(S), \A p \in S : w[p].amount = v[p].amount
    PROVE  AddUp(w, S) = AddUp(v, S)
<1> DEFINE Differ == {n \in Nat : \E T \in SUBSET S :
                         Cardinality(T) = n /\ AddUp(w, T) # AddUp(v, T)}
<1> SUFFICES ASSUME AddUp(w, S) # AddUp(v, S) PROVE FALSE
  OBVIOUS
<1>1. Cardinality(S) \in Differ
  BY FS_CardinalityType
<1>2. PICK n \in Differ : \A m \in Differ : ~(m < n)
  BY <1>1, Smallest
<1>3. PICK T \in SUBSET S : Cardinality(T) = n /\ AddUp(w, T) # AddUp(v, T)
  BY <1>2
<1>4. IsFiniteSet(T)
  BY FS_Subset
<1> DEFINE U == T \ {First(T)}
<1>5. /\ T # {} /\ First(T) \in T
      /\ AddUp(w, T) = w[First(T)].amount + AddUp(w, U)
      /\ AddUp(v, T) = v[First(T)].amount + AddUp(v, U)
  BY <1>3, <1>4, AddUpSteps
<1>6. IsFiniteSet(U) /\ Cardinality(U) = n - 1 /\ U \in SUBSET S
  BY <1>3, <1>4, <1>5, FS_RemoveElement
<1>7. n \in Nat /\ n - 1 \in Nat
  BY <1>2, <1>6, FS_CardinalityType
<1>8. AddUp(w, U) = AddUp(v, U)
  BY <1>2, <1>6, <1>7
<1> QED BY <1>3, <1>5, <1>8
-----------------------------------------------------------------------------
(* What is paid is what the confirmed payments add up to.                  *)

Confirmed(s) ==
    {p \in Payments : /\ payment[p].of = s
                      /\ payment[p].status = "confirmed"}

SumInv ==
    /\ MoneyInv
    /\ \A s \in Settlements :
          /\ settlement[s].paid = AddUp(payment, Confirmed(s))
          /\ IsFiniteSet(Confirmed(s))

LEMMA InitSum == Init => SumInv
<1> SUFFICES ASSUME Init PROVE SumInv
  OBVIOUS
<1>1. \A s \in Settlements : Confirmed(s) = {} /\ settlement[s].paid = 0
  BY DEF Init, Confirmed, NoPayment, NoSettlement
<1>2. IsFiniteSet({}) /\ AddUp(payment, {}) = 0
  BY FS_EmptySet, AddUpSteps
<1> QED BY <1>1, <1>2, InitMoney DEF SumInv

(* Where no payment is confirmed or reversed, nothing is to be recounted.  *)
LEMMA SameSum ==
    ASSUME SumInv, NEW s \in Settlements, settlement'[s].paid = settlement[s].paid,
           Confirmed(s)' = Confirmed(s),
           \A p \in Confirmed(s) : payment'[p].amount = payment[p].amount
    PROVE  settlement'[s].paid = AddUp(payment', Confirmed(s)') /\ IsFiniteSet(Confirmed(s)')
<1>1. IsFiniteSet(Confirmed(s)) /\ settlement[s].paid = AddUp(payment, Confirmed(s))
  BY DEF SumInv
<1>2. AddUp(payment, Confirmed(s)) = AddUp(payment', Confirmed(s))
  BY <1>1, AddUpSame
<1> QED BY <1>1, <1>2

LEMMA QuietSum ==
    ASSUME SumInv, payment' = payment,
           \A s \in Settlements : settlement'[s].paid = settlement[s].paid,
           NEW s \in Settlements
    PROVE  settlement'[s].paid = AddUp(payment', Confirmed(s)') /\ IsFiniteSet(Confirmed(s)')
<1>1. Confirmed(s)' = Confirmed(s)
  BY DEF Confirmed
<1>2. \A p \in Confirmed(s) : payment'[p].amount = payment[p].amount
  OBVIOUS
<1> QED BY <1>1, <1>2, SameSum

LEMMA NewPaymentSum ==
    ASSUME SumInv, NEW a \in Actors, NEW b \in Settlements, NEW k \in Keys,
           NEW n \in Amounts, NEW p \in Payments, NewPayment(a, b, k, n, p),
           NEW s \in Settlements
    PROVE  settlement'[s].paid = AddUp(payment', Confirmed(s)') /\ IsFiniteSet(Confirmed(s)')
<1>1. /\ payment[p].status = "absent" /\ payment'[p].status = "pending"
      /\ \A q \in Payments \ {p} : payment'[q] = payment[q]
      /\ settlement' = settlement
  BY DEF NewPayment, NoPayment, SumInv, MoneyInv, TypeOK
<1>2. Confirmed(s)' = Confirmed(s) /\ p \notin Confirmed(s)
  BY <1>1 DEF Confirmed
<1>3. \A q \in Confirmed(s) : payment'[q].amount = payment[q].amount
  BY <1>1, <1>2 DEF Confirmed
<1> QED BY <1>1, <1>2, <1>3, SameSum

(* A confirmation adds one payment to one sum, a reversal takes it out.    *)
LEMMA ConfirmSum ==
    ASSUME SumInv, NEW a \in Actors, NEW p \in Payments, NEW k \in Keys,
           ConfirmNow(a, p, k), NEW s \in Settlements
    PROVE  settlement'[s].paid = AddUp(payment', Confirmed(s)') /\ IsFiniteSet(Confirmed(s)')
<1> DEFINE b == payment[p].of
<1>1. /\ b \in Settlements /\ payment[p].amount \in Nat /\ payment[p].status = "pending"
      /\ settlement[b] \in SettlementRecords
  BY ConfirmFacts DEF SumInv
<1>2. /\ settlement' \in [Settlements -> SettlementRecords]
      /\ settlement'[b].paid = settlement[b].paid + payment[p].amount
      /\ \A t \in Settlements \ {b} : settlement'[t] = settlement[t]
  <2>1. settlement' = [settlement EXCEPT ![b] =
           [@ EXCEPT !.paid = settlement[b].paid + payment[p].amount,
                     !.status = StatusWhenPaid(settlement[b].paid + payment[p].amount, settlement[b].due)]]
    BY DEF ConfirmNow
  <2>2. MoneyInv'
    BY ConfirmMoney DEF SumInv
  <2>3. settlement \in [Settlements -> SettlementRecords] /\ settlement' \in [Settlements -> SettlementRecords]
    BY <2>2 DEF SumInv, MoneyInv, TypeOK
  <2> HIDE DEF b
  <2> QED BY <1>1, <2>1, <2>3 DEF SettlementRecords
<1>3. /\ payment'[p].of = b /\ payment'[p].status = "confirmed"
      /\ payment'[p].amount = payment[p].amount
      /\ \A q \in Payments \ {p} : payment'[q] = payment[q]
  BY DEF ConfirmNow, SumInv, MoneyInv, TypeOK, PaymentRecords
<1> HIDE DEF b
<1>4. CASE s = b
  <2>1. Confirmed(s)' = Confirmed(s) \cup {p} /\ p \notin Confirmed(s)
    BY <1>1, <1>3, <1>4 DEF Confirmed, b
  <2>2. /\ IsFiniteSet(Confirmed(s)) /\ IsFiniteSet(Confirmed(s)')
        /\ settlement[s].paid = AddUp(payment, Confirmed(s))
    BY <2>1, FS_AddElement DEF SumInv
  <2>3. \A q \in Confirmed(s)' : payment'[q].amount \in Nat
    BY <1>1, <1>3 DEF Confirmed, SumInv, MoneyInv, TypeOK, PaymentRecords
  <2>4. AddUp(payment', Confirmed(s)') = payment'[p].amount + AddUp(payment', Confirmed(s)' \ {p})
    <3>1. p \in Confirmed(s)'
      BY <2>1
    <3> QED BY <3>1, <2>2, <2>3, AddUpWithout
  <2>5. Confirmed(s)' \ {p} = Confirmed(s)
    BY <2>1
  <2>6. AddUp(payment', Confirmed(s)) = AddUp(payment, Confirmed(s))
    <3>1. \A q \in Confirmed(s) : payment[q].amount = payment'[q].amount
      BY <1>3, <2>1 DEF Confirmed
    <3> QED BY <3>1, <2>2, AddUpSame
  <2>7. settlement[s].paid \in Nat
    BY <1>1, <1>4 DEF SettlementRecords
  <2>8. AddUp(payment', Confirmed(s)') = payment[p].amount + settlement[s].paid
    BY <1>3, <2>2, <2>4, <2>5, <2>6
  <2>9. settlement'[s].paid = settlement[s].paid + payment[p].amount
    BY <1>2, <1>4
  <2> QED BY <1>1, <2>2, <2>7, <2>8, <2>9
<1>5. CASE s # b
  <2>1. Confirmed(s)' = Confirmed(s) /\ p \notin Confirmed(s)
    BY <1>3, <1>5 DEF Confirmed, b
  <2>2. \A q \in Confirmed(s) : payment'[q].amount = payment[q].amount
    BY <1>3, <2>1 DEF Confirmed
  <2> QED BY <1>2, <1>5, <2>1, <2>2, SameSum
<1> QED BY <1>4, <1>5

LEMMA ReverseSum ==
    ASSUME SumInv, NEW a \in Actors, NEW p \in Payments, NEW k \in Keys,
           ReverseNow(a, p, k), NEW s \in Settlements
    PROVE  settlement'[s].paid = AddUp(payment', Confirmed(s)') /\ IsFiniteSet(Confirmed(s)')
<1> DEFINE b == payment[p].of
<1>1. /\ b \in Settlements /\ payment[p].amount \in Nat /\ payment[p].status = "confirmed"
      /\ settlement[b] \in SettlementRecords
  BY ReverseFacts DEF SumInv
<1>2. /\ settlement'[b].paid = settlement[b].paid - payment[p].amount
      /\ \A t \in Settlements \ {b} : settlement'[t] = settlement[t]
  <2>1. settlement' = [settlement EXCEPT ![b] =
           [@ EXCEPT !.paid = settlement[b].paid - payment[p].amount,
                     !.status = StatusWhenReversed(settlement[b].paid - payment[p].amount)]]
    BY DEF ReverseNow
  <2>2. settlement \in [Settlements -> SettlementRecords]
    BY DEF SumInv, MoneyInv, TypeOK
  <2> HIDE DEF b
  <2> QED BY <1>1, <2>1, <2>2 DEF SettlementRecords
<1>3. /\ payment'[p].of = b /\ payment'[p].status = "reversed"
      /\ \A q \in Payments \ {p} : payment'[q] = payment[q]
  BY DEF ReverseNow, SumInv, MoneyInv, TypeOK, PaymentRecords
<1> HIDE DEF b
<1>4. CASE s = b
  <2>1. Confirmed(s)' = Confirmed(s) \ {p} /\ p \in Confirmed(s)
    BY <1>1, <1>3, <1>4 DEF Confirmed, b
  <2>2. /\ IsFiniteSet(Confirmed(s)) /\ IsFiniteSet(Confirmed(s)')
        /\ settlement[s].paid = AddUp(payment, Confirmed(s))
    BY <2>1, FS_RemoveElement DEF SumInv
  <2>3. \A q \in Confirmed(s) : payment[q].amount \in Nat
    BY DEF Confirmed, SumInv, MoneyInv, TypeOK, PaymentRecords
  <2>4. AddUp(payment, Confirmed(s)) = payment[p].amount + AddUp(payment, Confirmed(s)')
    BY <2>1, <2>2, <2>3, AddUpWithout
  <2>5. AddUp(payment, Confirmed(s)') = AddUp(payment', Confirmed(s)')
    <3>1. \A q \in Confirmed(s)' : payment[q].amount = payment'[q].amount
      BY <1>3, <2>1 DEF Confirmed
    <3> QED BY <3>1, <2>2, AddUpSame
  <2>6. AddUp(payment, Confirmed(s)') \in Nat
    BY <2>1, <2>2, <2>3, AddUpNat
  <2> QED BY <1>1, <1>2, <1>4, <2>2, <2>4, <2>5, <2>6
<1>5. CASE s # b
  <2>1. Confirmed(s)' = Confirmed(s) /\ p \notin Confirmed(s)
    BY <1>3, <1>5 DEF Confirmed, b
  <2>2. \A q \in Confirmed(s) : payment'[q].amount = payment[q].amount
    BY <1>3, <2>1 DEF Confirmed
  <2> QED BY <1>2, <1>5, <2>1, <2>2, SameSum
<1> QED BY <1>4, <1>5

LEMMA NextSum == SumInv /\ [Next]_vars => SumInv'
<1> SUFFICES ASSUME SumInv, [Next]_vars,
                    NEW s \in Settlements
             PROVE  settlement'[s].paid = AddUp(payment', Confirmed(s)') /\ IsFiniteSet(Confirmed(s)')
  BY NextMoney DEF SumInv
<1>1. CASE UNCHANGED vars
  BY <1>1, QuietSum DEF vars
<1>2. CASE KnownStep
  BY <1>2, QuietSum DEF KnownStep, stores
<1>3. ASSUME NEW a \in Actors, NEW party \in Parties, NEW k \in Keys, NEW sum \in Sums,
             NEW t \in Settlements, NewDraft(a, party, k, sum, t)
      PROVE  settlement'[s].paid = AddUp(payment', Confirmed(s)') /\ IsFiniteSet(Confirmed(s)')
  <2>1. payment' = payment /\ \A u \in Settlements : settlement'[u].paid = settlement[u].paid
    BY <1>3 DEF NewDraft, NoSettlement, SumInv, MoneyInv, TypeOK
  <2> QED BY <2>1, QuietSum
<1>4. ASSUME NEW a \in Actors, NEW k \in Keys, NEW t \in Settlements, LockNow(a, t, k)
      PROVE  settlement'[s].paid = AddUp(payment', Confirmed(s)') /\ IsFiniteSet(Confirmed(s)')
  <2>1. payment' = payment /\ \A u \in Settlements : settlement'[u].paid = settlement[u].paid
    BY <1>4 DEF LockNow, SumInv, MoneyInv, TypeOK, SettlementRecords
  <2> QED BY <2>1, QuietSum
<1>5. ASSUME NEW a \in Actors, NEW t \in Settlements, Void(a, t)
      PROVE  settlement'[s].paid = AddUp(payment', Confirmed(s)') /\ IsFiniteSet(Confirmed(s)')
  <2>1. payment' = payment /\ \A u \in Settlements : settlement'[u].paid = settlement[u].paid
    BY <1>5 DEF Void, SumInv, MoneyInv, TypeOK, SettlementRecords
  <2> QED BY <2>1, QuietSum
<1>6. CASE Next
  BY <1>6, <1>2, <1>3, <1>4, <1>5, StepCases, NewPaymentSum, ConfirmSum, ReverseSum
<1> QED BY <1>1, <1>6

(* paidConfirmedMinor is always what the confirmed payments add up to, for *)
(* any number of payments, confirmed and reversed in any order and asked   *)
(* for again under any keys.                                               *)
THEOREM PaidAlwaysConfirmed == Spec => []PaidIsConfirmed
<1>1. SumInv => PaidIsConfirmed
  BY DEF SumInv, PaidIsConfirmed, AddUp, Confirmed
<1> QED BY <1>1, InitSum, NextSum, PTL DEF Spec
=============================================================================
