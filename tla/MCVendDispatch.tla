--------------------------- MODULE MCVendDispatch ---------------------------
(***************************************************************************)
(* Small instances of VendDispatch: two candidates the routes can select,  *)
(* c1 preferred to c2, and requests that race for one idempotency key.     *)
(***************************************************************************)
EXTENDS VendDispatch, TLC

CONSTANTS c1, c2, k1, h1, h2, h3, t1, t2

Preferred == [c \in Candidates |-> IF c = c1 THEN 0 ELSE 1]

\* Two processes in production and one in staging race for one key; each
\* environment has one candidate.
OneKey == [h \in Handlers |-> k1]
MixedProcesses == [h \in Handlers |-> IF h = h3 THEN "STAGING" ELSE "PRODUCTION"]
MixedCandidates == [c \in Candidates |-> IF c = c2 THEN "STAGING" ELSE "PRODUCTION"]
Interchangeable == Permutations({h1, h2}) \cup Permutations({t1, t2})

\* Everything in production, where routes decide between c1 and c2.
AllProduction == [h \in Handlers |-> "PRODUCTION"]
ProductionCandidates == [c \in Candidates |-> "PRODUCTION"]

=============================================================================
