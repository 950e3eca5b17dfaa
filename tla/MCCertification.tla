--------------------------- MODULE MCCertification ---------------------------
(***************************************************************************)
(* A small instance of Certification: a connector that can pass once it is *)
(* switched on and that a run before it fails without a probe, a run that  *)
(* one of two users approves, and two replacements of the capabilities.    *)
(***************************************************************************)
EXTENDS Certification, TLC

CONSTANTS r1, u1, u2, e1, e2

Sound ==
  [status |-> "DISABLED", enabled |-> FALSE, production |-> FALSE, https |-> TRUE,
   credentials |-> TRUE, runtime |-> TRUE, secret |-> TRUE, registered |-> TRUE,
   endpoints |-> Capabilities, fields |-> Capabilities, executable |-> Capabilities]

JustCreated == {Sound}

Interchangeable == Permutations({u1, u2}) \cup Permutations({e1, e2})

=============================================================================
