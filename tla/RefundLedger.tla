---------------------------- MODULE RefundLedger ----------------------------
(***************************************************************************)
(* What refunds promise, seen from the books: every refund is entered by   *)
(* one person within what is left of the transaction, approved by another  *)
(* once, sent to the provider only then and once; what the books say of it *)
(* is true and final; and a transaction is shown as refunded only when all *)
(* of it was paid back.  A refund whose dispatch was taken over from a     *)
(* slow process is doubtful: the books may call it failed too early, and   *)
(* may say something else of it later.  Requests, processes, leases and    *)
(* the parent's other columns do not appear.                               *)
(***************************************************************************)
EXTENDS Integers, FiniteSets

CONSTANTS TxIds, Total, RefundIds, Amounts, Requesters, Approvers, Nobody

VARIABLES
  entered,   \* the refunds entered: transaction, amount, maker and checker of each
  money,     \* what the provider holds for each refund
  outcome,   \* what the books say of each refund
  doubtful,  \* refunds whose dispatch was taken over
  closed     \* transactions shown as refunded

ledger == <<entered, money, outcome, doubtful>>

NoEntries == [r \in {} |-> Nobody]
Entry(t, a, u) == [txn |-> t, amount |-> a, maker |-> u, checker |-> Nobody]

\* Each refund contributes the units of its amount.
Worth(S) == Cardinality(UNION {{r} \X (1..entered[r].amount) : r \in S})

Of(t) == {r \in DOMAIN entered : entered[r].txn = t}
Promised(t) == {r \in Of(t) : outcome[r] # "failed"}
Paid(t) == {r \in Of(t) : money[r] = "COMPLETED"}

Init ==
  /\ entered = NoEntries
  /\ money = [r \in RefundIds |-> "NONE"]
  /\ outcome = [r \in RefundIds |-> "open"]
  /\ doubtful = {}
  /\ closed = {}

\* Within what neither was paid nor is promised yet.
Enter(r, t, a, u) ==
  /\ r \notin DOMAIN entered
  /\ Worth(Promised(t)) + a <= Total[t]
  /\ entered' = [q \in DOMAIN entered \cup {r} |-> IF q = r THEN Entry(t, a, u) ELSE entered[q]]
  /\ UNCHANGED <<money, outcome, doubtful>>

\* By one other person, once.
Approve(r, v) ==
  /\ r \in DOMAIN entered
  /\ entered[r].checker = Nobody
  /\ entered[r].maker # v
  /\ entered' = [entered EXCEPT ![r].checker = v]
  /\ UNCHANGED <<money, outcome, doubtful>>

\* Only when approved, once, and never after the books called it failed.
Pay(r) ==
  /\ r \in DOMAIN entered
  /\ entered[r].checker # Nobody
  /\ money[r] = "NONE"
  /\ outcome[r] = "failed" => r \in doubtful
  /\ money' = [money EXCEPT ![r] = "PENDING"]
  /\ UNCHANGED <<entered, outcome, doubtful>>

Conclude(r) ==
  /\ money[r] = "PENDING"
  /\ \E s \in {"COMPLETED", "FAILED"} : money' = [money EXCEPT ![r] = s]
  /\ UNCHANGED <<entered, outcome, doubtful>>

\* Said once, and only what is so.
Tell(r, o) ==
  /\ r \in DOMAIN entered
  /\ outcome[r] = "open" \/ r \in doubtful
  /\ o = "paid" => money[r] = "COMPLETED"
  /\ o = "failed" => money[r] \in {"NONE", "FAILED"} \/ r \in doubtful
  /\ outcome' = [outcome EXCEPT ![r] = o]
  /\ UNCHANGED <<entered, money, doubtful>>

TakeOver(r) ==
  /\ r \in DOMAIN entered
  /\ doubtful' = doubtful \cup {r}
  /\ UNCHANGED <<entered, money, outcome>>

Step ==
  \E r \in RefundIds :
    \/ \E t \in TxIds, a \in Amounts, u \in Requesters : Enter(r, t, a, u)
    \/ \E v \in Approvers : Approve(r, v)
    \/ Pay(r) \/ Conclude(r) \/ TakeOver(r)
    \/ \E o \in {"open", "paid", "failed"} : Tell(r, o)

\* Beside any step, a transaction is shown as refunded only when it is.
Shown == \A t \in closed' : (Worth(Paid(t)) >= Total[t])'

Next == (Step \/ UNCHANGED ledger) /\ Shown

Spec == Init /\ [][Next]_<<ledger, closed>>

=============================================================================
