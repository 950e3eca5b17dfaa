------------------------- MODULE MCProviderRecovery -------------------------
(***************************************************************************)
(* Small instances of ProviderRecovery: workers that reclaim one row from  *)
(* each other, with an operator and the provider's webhooks in between.    *)
(***************************************************************************)
EXTENDS ProviderRecovery, TLC

CONSTANTS w1, w2

InterchangeableWorkers == Permutations({w1, w2})

=============================================================================
