---------------------------- MODULE MCReconciliation ----------------------------
(***************************************************************************)
(* Two transactions that share a reference, one settlement, reports that   *)
(* are complete, open or about nothing, and any two of two                 *)
(* synchronisations and two reconciliations.                               *)
(***************************************************************************)
EXTENDS Reconciliation, TLC

CONSTANTS t1, t2, s1, h1, h2, c1, c2

SharedReference == [t \in Transactions |-> "P1"]

Said(complete) == [s \in Settlements |-> [complete |-> complete, references |-> References]]

CompleteOrOpen == {Said(TRUE), Said(FALSE)}

OwnerAndAdministrator ==
  {[owner |-> TRUE, isPlatformAdmin |-> FALSE], [owner |-> FALSE, isPlatformAdmin |-> TRUE]}

Interchangeable == Permutations({t1, t2}) \cup Permutations({h1, h2}) \cup Permutations({c1, c2})

=============================================================================
