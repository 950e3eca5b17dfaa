--------------------------- MODULE TransactionRow ---------------------------
(***************************************************************************)
(* The transactions row as the writers of an open outcome see it: the vend *)
(* handler, the recovery worker, the webhook and the manual query.         *)
(*                                                                         *)
(* payment_status is 'SUCCESS' on every row the program inserts, so it is  *)
(* left out; so are the descriptive columns (hold reason, provider text,   *)
(* timestamps that no guard reads).                                        *)
(***************************************************************************)
EXTENDS CanonicalModels

CONSTANTS
  Keys,        \* idempotency keys the clients of one tenant use
  Candidates   \* provider/connector pairs the tenant's routes can select

DispatchState == {"READY", "DISPATCHING", "COMPLETED", "FAILED", "UNKNOWN"}

\* ref: provider_transaction_id IS NOT NULL.
Row == [key : Keys, candidate : Candidates,
        status : TransactionStatus, vend : VendStatus, ref : BOOLEAN,
        refundRequired : BOOLEAN, blocked : BOOLEAN,
        dispatch : DispatchState, lease : Lease, attempts : Nat,
        recovery : RecoveryColumns]

\* The row INSERTed before anything is sent to a provider.
RoutedRow(k, c) ==
  [key |-> k, candidate |-> c,
   status |-> "SUBMITTED", vend |-> "SUBMITTED", ref |-> FALSE,
   refundRequired |-> FALSE, blocked |-> FALSE,
   dispatch |-> "READY", lease |-> "none", attempts |-> 0,
   recovery |-> NoRecovery]

=============================================================================
