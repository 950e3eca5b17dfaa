-------------------------- MODULE CanonicalModels --------------------------
(***************************************************************************)
(* The vocabulary the components of the control plane share: the statuses  *)
(* of a vend and of a transaction, what one decides about the other and    *)
(* about the money, and the columns by which a table hands its rows to     *)
(* recovery workers.                                                       *)
(***************************************************************************)
EXTENDS Naturals

VendStatus ==
  {"CREATED", "SUBMITTED", "ACCEPTED", "FULFILLED", "FAILED", "UNKNOWN", "CANCELLED"}

TransactionStatus ==
  {"CREATED", "PAYMENT_PENDING", "PAID", "SUBMITTED", "ACCEPTED", "FULFILLED", "SETTLED",
   "FAILED", "UNKNOWN", "TIMED_OUT", "CANCELLED", "REVERSED", "REFUND_PENDING",
   "REFUNDED", "DISPUTED"}

\* Outcomes after which a provider's answer is final.
Terminal == {"FULFILLED", "FAILED", "CANCELLED", "REFUNDED", "REVERSED", "SETTLED"}

\* A lease column is NULL, in the future, or in the past.
Lease == {"none", "live", "expired"}

\* The columns of the recovery worker.  due: next_recovery_at is NULL or has
\* passed.  Token 0 stands for NULL.
RecoveryColumns == [attempts : Nat, due : BOOLEAN, lease : Lease, token : Nat]

NoRecovery == [attempts |-> 0, due |-> TRUE, lease |-> "none", token |-> 0]

\* Mutant of NormalizedFromVend: acceptance taken for delivery.
AcceptedIsFulfilled(v) == IF v \in {"ACCEPTED", "FULFILLED"} THEN "FULFILLED" ELSE v

NormalizedFromVend(v) == IF v = "CREATED" THEN "SUBMITTED" ELSE v

NeedsFullRefund(v) == v \in {"FAILED", "CANCELLED"}

\* What every writer of a vend's outcome stores: the status columns of the
\* transaction, all decided by the vend status v.
WithOutcome(row, v) ==
  [row EXCEPT !.status = NormalizedFromVend(v),
              !.vend = v,
              !.refundRequired = NeedsFullRefund(v),
              !.blocked = NormalizedFromVend(v) # "FULFILLED"]

=============================================================================
