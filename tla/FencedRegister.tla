---------------------------- MODULE FencedRegister ----------------------------
(***************************************************************************)
(* What recovery promises, seen from outside: whoever says how a vend      *)
(* ended says what the provider holds; and among the workers one at a time *)
(* owns a transaction, the one that claimed it last.  A worker says        *)
(* something of a transaction only while it owns it, and owns it no more   *)
(* afterwards; one that was overtaken leaves without a trace.  Operators   *)
(* and webhooks own nothing and may speak at any time, even take a final   *)
(* word back.  Queries, tokens, leases, due times and attempts do not      *)
(* appear.                                                                 *)
(***************************************************************************)
CONSTANTS TxIds, Workers, Nobody, Final

VARIABLES
  held,   \* what the provider holds for each transaction
  said,   \* how the vend of each transaction is said to have ended, or "open"
  owner,  \* the worker that may say so, or Nobody
  hand    \* the transaction each worker has in hand: a set of one, or none

Init ==
  /\ held \in [TxIds -> {"NONE", "ACCEPTED"} \cup Final]
  /\ said = [t \in TxIds |-> "open"]
  /\ owner = [t \in TxIds |-> Nobody]
  /\ hand = [w \in Workers |-> {}]

\* A final state is for good.
Move(t) ==
  /\ held[t] \notin Final
  /\ \E s \in {"ACCEPTED"} \cup Final : held' = [held EXCEPT ![t] = s]
  /\ UNCHANGED <<said, owner, hand>>

\* From whomever had it before, but never once it has an end.
Claim(w, t) ==
  /\ hand[w] = {}
  /\ said[t] = "open"
  /\ owner' = [owner EXCEPT ![t] = w]
  /\ hand' = [hand EXCEPT ![w] = {t}]
  /\ UNCHANGED <<held, said>>

Say(t, v) ==
  /\ v = "open" \/ held[t] = v
  /\ said' = [said EXCEPT ![t] = v]

\* The owner's last word.
Resolve(w, t, v) ==
  /\ hand[w] = {t}
  /\ owner[t] = w
  /\ Say(t, v)
  /\ owner' = [owner EXCEPT ![t] = Nobody]
  /\ hand' = [hand EXCEPT ![w] = {}]
  /\ UNCHANGED held

\* Without a word; the owner may or may not get to say that it owns no more.
Leave(w, t) ==
  /\ hand[w] = {t}
  /\ hand' = [hand EXCEPT ![w] = {}]
  /\ \/ UNCHANGED owner
     \/ owner[t] = w /\ owner' = [owner EXCEPT ![t] = Nobody]
  /\ UNCHANGED <<held, said>>

\* An operator's query or a webhook.
Publish(t, v) ==
  /\ Say(t, v)
  /\ UNCHANGED <<held, owner, hand>>

Next ==
  \E t \in TxIds :
    \/ Move(t)
    \/ \E w \in Workers : Claim(w, t) \/ Leave(w, t)
    \/ \E v \in {"open"} \cup Final :
         Publish(t, v) \/ \E w \in Workers : Resolve(w, t, v)

Spec == Init /\ [][Next]_<<held, said, owner, hand>>

=============================================================================
