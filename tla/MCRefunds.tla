----------------------------- MODULE MCRefunds -----------------------------
(***************************************************************************)
(* Small instances of Refunds: one transaction worth two units, refunds of *)
(* one or two units that compete for them, and two users.                  *)
(***************************************************************************)
EXTENDS Refunds, TLC

CONSTANTS u1, u2, h1, h2, r1, r2, w1, w2

TwoUnits == [t \in TxIds |-> 2]

\* u2 serves the approvals and may also have made a request.
ApprovedByU2 == [h \in Handlers |-> u2]

Interchangeable ==
  Permutations({h1, h2}) \cup Permutations({r1, r2}) \cup Permutations({w1, w2})

=============================================================================
