-------------------------- MODULE PurchaseRegister --------------------------
(***************************************************************************)
(* What vending promises, seen from outside: for each idempotency key one  *)
(* provider is chosen, for good; that provider makes the purchase once; and *)
(* what the tenant is told of it, delivered or to be refunded, is true,    *)
(* final, and leaves the customer with the goods or the money and never    *)
(* with both.  A purchase whose dispatch was taken over from a slow process *)
(* is stale: what is told of it may be told again, and may be wrong about  *)
(* the money, though never about a delivery.  Requests, processes and      *)
(* leases do not appear.                                                   *)
(***************************************************************************)
CONSTANTS Keys, Candidates

VARIABLES
  chosen,    \* the purchases asked for: a candidate and a key
  purchase,  \* what each provider holds for each key
  verdict,   \* what the tenant is told of each purchase
  stale      \* purchases whose dispatch was taken over

Purchases == Candidates \X Keys

Init ==
  /\ chosen = {}
  /\ purchase = [p \in Purchases |-> "NONE"]
  /\ verdict = [p \in Purchases |-> "open"]
  /\ stale = {}

\* Once, whatever other candidates there are.
Choose(p) ==
  /\ \A q \in chosen : q[2] # p[2]
  /\ chosen' = chosen \cup {p}
  /\ UNCHANGED <<purchase, verdict, stale>>

\* Once, from the chosen candidate only, and never after the money was promised back.
Buy(p) ==
  /\ p \in chosen
  /\ purchase[p] = "NONE"
  /\ verdict[p] = "refund" => p \in stale
  /\ \E s \in {"ACCEPTED", "FULFILLED", "FAILED"} : purchase' = [purchase EXCEPT ![p] = s]
  /\ UNCHANGED <<chosen, verdict, stale>>

Conclude(p) ==
  /\ purchase[p] = "ACCEPTED"
  /\ \E s \in {"FULFILLED", "FAILED", "CANCELLED"} : purchase' = [purchase EXCEPT ![p] = s]
  /\ UNCHANGED <<chosen, verdict, stale>>

\* Said once, and only what is so.
Tell(p, v) ==
  /\ p \in chosen
  /\ verdict[p] = "open" \/ p \in stale
  /\ v = "delivered" => purchase[p] = "FULFILLED"
  /\ v = "refund" => purchase[p] \notin {"ACCEPTED", "FULFILLED"} \/ p \in stale
  /\ verdict' = [verdict EXCEPT ![p] = v]
  /\ UNCHANGED <<chosen, purchase, stale>>

TakeOver(p) ==
  /\ p \in chosen
  /\ stale' = stale \cup {p}
  /\ UNCHANGED <<chosen, purchase, verdict>>

Next ==
  \E p \in Purchases :
    \/ Choose(p) \/ Buy(p) \/ Conclude(p) \/ TakeOver(p)
    \/ \E v \in {"open", "delivered", "refund"} : Tell(p, v)

Spec == Init /\ [][Next]_<<chosen, purchase, verdict, stale>>

=============================================================================
