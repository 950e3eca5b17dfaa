------------------------- MODULE IdentityRegister -------------------------
(***************************************************************************)
(* What the synchronisation of identities promises, seen from the tables:  *)
(* a row moves forward in source time only, each time by the effect of one *)
(* message on the row as it is, and a message with several items is stored *)
(* as a whole or not at all.                                               *)
(***************************************************************************)
EXTENDS IdentityModels

VARIABLE register

Init == register \in FirstRows

\* A row stays as it is, or takes up a newer item of the message.
TakesUp(m, k) ==
  \/ register'[k] = register[k]
  \/ \E i \in 1..Len(m) : /\ m[i].key = k
                          /\ m[i].time > register[k].time
                          /\ register'[k] = Effective(register[k], m[i])
                          /\ Valid(k, register'[k])

Store(m) ==
  /\ DOMAIN register' = Keys
  /\ \A k \in Keys : TakesUp(m, k)
  /\ \A i \in 1..Len(m) : Reflects(register'[m[i].key], m[i])

Next == \E m \in Messages : Store(m)

Spec == Init /\ [][Next]_register

=============================================================================
