--------------------------- MODULE SettlementBooks ---------------------------
(***************************************************************************)
(* What settlements promise about money, whoever writes them and however   *)
(* often a call is sent again: a settlement is owed an amount fixed when   *)
(* it is opened; a payment counts towards it at most once and, once undone,*)
(* never again; nothing is counted beyond the amount due; and when the     *)
(* amount due is reached the books of the settlement are closed for good.  *)
(***************************************************************************)
EXTENDS Naturals

CONSTANTS Settlements, Payments,
          Sums,      \* amounts a settlement can be owed
          Amounts,   \* amounts of payments
          None

VARIABLES due,    \* due[s]: the amount owed, 0 before s is opened
          paid,   \* paid[s]: what the counted payments of s add up to
          slip    \* slip[p]: the settlement, amount and fate of a payment

bookVars == <<due, paid, slip>>

NoSlip == [of |-> None, amount |-> 0, fate |-> "absent"]

BooksInit == /\ due = [s \in Settlements |-> 0]
             /\ paid = [s \in Settlements |-> 0]
             /\ slip = [p \in Payments |-> NoSlip]

Open(s, d) == /\ due[s] = 0
              /\ due' = [due EXCEPT ![s] = d]
              /\ UNCHANGED <<paid, slip>>

Write(p, s, n) ==
    /\ slip[p] = NoSlip
    /\ due[s] # 0
    /\ slip' = [slip EXCEPT ![p] = [of |-> s, amount |-> n, fate |-> "pending"]]
    /\ UNCHANGED <<due, paid>>

Count(p, s) ==
    /\ slip[p].of = s /\ slip[p].fate = "pending"
    /\ paid[s] + slip[p].amount <= due[s]
    /\ paid' = [paid EXCEPT ![s] = @ + slip[p].amount]
    /\ slip' = [slip EXCEPT ![p] = [@ EXCEPT !.fate = "confirmed"]]
    /\ UNCHANGED due

Undo(p, s) ==
    /\ slip[p].of = s /\ slip[p].fate = "confirmed"
    /\ paid[s] < due[s]
    /\ slip[p].amount <= paid[s]
    /\ paid' = [paid EXCEPT ![s] = @ - slip[p].amount]
    /\ slip' = [slip EXCEPT ![p] = [@ EXCEPT !.fate = "reversed"]]
    /\ UNCHANGED due

BooksNext ==
    \/ \E s \in Settlements, d \in Sums : Open(s, d)
    \/ \E s \in Settlements, p \in Payments :
          \/ \E n \in Amounts : Write(p, s, n)
          \/ Count(p, s)
          \/ Undo(p, s)

BooksSpec == BooksInit /\ [][BooksNext]_bookVars
=============================================================================
