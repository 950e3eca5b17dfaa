---------------------------- MODULE VendDispatch ----------------------------
(***************************************************************************)
(* Vending a product that has already been paid for: POST /api/v1/vends.   *)
(*                                                                         *)
(* A handler looks the idempotency key up, or selects a route and inserts  *)
(* the transaction; claims its dispatch under a lease; calls the provider; *)
(* records the result; and closes the dispatch.  Each of those steps is a  *)
(* database transaction of its own (or an HTTP call), so handlers          *)
(* interleave between any two of them, a process can die between any two   *)
(* of them, and a lease can run out while a call is still under way.       *)
(*                                                                         *)
(* The provider is external.  It honours the idempotency key (a repeated   *)
(* key vends nothing new), a request may reach it long after the caller    *)
(* gave up on it, and it may refuse a request with an HTTP 4xx (expired    *)
(* credentials, say) whatever became of the requests before it.            *)
(***************************************************************************)
EXTENDS TransactionRow

CONSTANTS
  TxIds,          \* transaction identifiers (gen_random_uuid)
  NoTx,           \* a handler that has no transaction at hand
  Handlers,       \* requests being served, by any number of API processes
  KeyOf,          \* the idempotency key a handler's request carries
  Environments,   \* values of PROVIDER_RUNTIME_ENV
  EnvOf,          \* the PROVIDER_RUNTIME_ENV of the process a handler runs in
  EnvironmentOf,  \* the environment a candidate's connector belongs to
  Preference,     \* (routes.priority, PRIMARY before SECONDARY), smaller first
  MaxCrashes      \* bound: how many handlers die before their last step

ASSUME NoTxAssumption == NoTx \notin TxIds
ASSUME KeyOfAssumption == KeyOf \in [Handlers -> Keys]
ASSUME EnvironmentAssumption ==
  /\ EnvOf \in [Handlers -> Environments]
  /\ EnvironmentOf \in [Candidates -> Environments]
ASSUME PreferenceAssumption == Preference \in [Candidates -> Nat]
ASSUME MaxCrashesAssumption == MaxCrashes \in Nat

VARIABLES
  tx,        \* the transactions table: a function on the ids inserted so far
  eligible,  \* candidates that pass the health, lifecycle and mapping gates now
  pc,        \* where each handler is
  at,        \* the transaction each handler works on
  result,    \* what the provider call of a handler came to
  sent,      \* history: every vend request that left for a provider
  outstanding, \* requests that left and that the provider has yet to see
  vended,    \* what each provider holds for each idempotency key
  lapsed,    \* history: transactions whose dispatch lease ran out
  crashes    \* handlers lost so far

vars == <<tx, eligible, pc, at, result, sent, outstanding, vended, lapsed, crashes>>

PC == {"idle", "insert", "claim", "send", "await", "record", "complete"}

\* Past the claim: the handler may still call the provider or write its answer.
Dispatching == {"send", "await", "record", "complete"}

Result == [outcome : {"NONE", "CONFIRMED", "FAILED", "UNKNOWN"}, vend : VendStatus]
NoResult == [outcome |-> "NONE", vend |-> "UNKNOWN"]
Confirmed(v) == [outcome |-> "CONFIRMED", vend |-> v]
FailedResult == [outcome |-> "FAILED", vend |-> "FAILED"]
\* Mutant of UnknownResult: a timeout counts as a failure.
TimeoutIsFailure == FailedResult
UnknownResult == [outcome |-> "UNKNOWN", vend |-> "UNKNOWN"]

ProviderState == {"NONE", "ACCEPTED", "FULFILLED", "FAILED", "CANCELLED"}
Request == Candidates \X Keys \X Environments

Stored == DOMAIN tx

TypeOK ==
  /\ Stored \subseteq TxIds
  /\ tx \in [Stored -> Row]
  /\ eligible \subseteq Candidates
  /\ pc \in [Handlers -> PC]
  /\ at \in [Handlers -> TxIds \cup {NoTx}]
  /\ result \in [Handlers -> Result]
  /\ sent \subseteq Request
  /\ outstanding \subseteq Candidates \X Keys \X Handlers
  /\ vended \in [Candidates \X Keys -> ProviderState]
  /\ lapsed \subseteq Stored
  /\ crashes \in 0..MaxCrashes

-----------------------------------------------------------------------------
(* Handler bookkeeping. *)

Goto(h, where) == pc' = [pc EXCEPT ![h] = where]

Finish(h) ==
  /\ Goto(h, "idle")
  /\ at' = [at EXCEPT ![h] = NoTx]
  /\ result' = [result EXCEPT ![h] = NoResult]

GotResult(h, r) ==
  /\ Goto(h, "record")
  /\ result' = [result EXCEPT ![h] = r]

-----------------------------------------------------------------------------
(* prepareRoutedVend: the SELECT by key, then routing and the INSERT. *)

HasKey(t, k) == tx[t].key = k

\* The key is known: carry on with the frozen provider and connector.
LookupExisting(h) ==
  /\ pc[h] = "idle"
  /\ \E t \in Stored :
       /\ HasKey(t, KeyOf[h])
       /\ at' = [at EXCEPT ![h] = t]
  /\ Goto(h, "claim")
  /\ UNCHANGED <<tx, eligible, result, sent, outstanding, vended, lapsed, crashes>>

LookupMissing(h) ==
  /\ pc[h] = "idle"
  /\ \A t \in Stored : ~ HasKey(t, KeyOf[h])
  /\ Goto(h, "insert")
  /\ UNCHANGED <<tx, eligible, at, result, sent, outstanding, vended, lapsed, crashes>>

Selectable(h) == {c \in eligible : EnvironmentOf[c] = EnvOf[h]}

\* ORDER BY priority, candidate_rank LIMIT 1
Selected(h) ==
  {c \in Selectable(h) : \A d \in Selectable(h) : Preference[c] <= Preference[d]}

\* Mutant of KeyIsFree: no unique index behind the lookup.
NoUniqueIndex(k) == TRUE

\* UNIQUE (tenant_id, idempotency_key)
KeyIsFree(k) == \A t \in Stored : ~ HasKey(t, k)

WithRow(t, row) == [s \in Stored \cup {t} |-> IF s = t THEN row ELSE tx[s]]

InsertRouted(h) ==
  /\ pc[h] = "insert"
  /\ KeyIsFree(KeyOf[h])
  /\ \E t \in TxIds \ Stored, c \in Selected(h) :
       /\ tx' = WithRow(t, RoutedRow(KeyOf[h], c))
       /\ at' = [at EXCEPT ![h] = t]
  /\ Goto(h, "claim")
  /\ UNCHANGED <<eligible, result, sent, outstanding, vended, lapsed, crashes>>

\* NO_ELIGIBLE_VENDING_ROUTE, or the unique index rolls the INSERT back: a 409.
InsertRefused(h) ==
  /\ pc[h] = "insert"
  /\ Selected(h) = {} \/ ~ KeyIsFree(KeyOf[h])
  /\ Finish(h)
  /\ UNCHANGED <<tx, eligible, sent, outstanding, vended, lapsed, crashes>>

-----------------------------------------------------------------------------
(* claimVendDispatch, and what the handler does with its answer. *)

\* Mutants of LeaseIsFree: a claim that ignores leases; one that only looks for NULL.
LeasesIgnored(row) == TRUE
OnlyNullLeaseIsFree(row) == row.lease = "none"

\* NULL, or in the past.
LeaseIsFree(row) == row.lease # "live"

\* Mutant of Claimable: whatever is not under way may be dispatched again.
ClaimableUnlessUnderWay(row) == row.dispatch # "DISPATCHING" \/ LeaseIsFree(row)

Claimable(row) ==
  /\ row.status = "SUBMITTED"
  /\ \/ row.dispatch = "READY"
     \/ row.dispatch = "DISPATCHING" /\ LeaseIsFree(row)

\* Mutant of Claimed: a dispatch taken over fails over to another provider.
ClaimedWithFailover(row) ==
  [row EXCEPT !.dispatch = "DISPATCHING", !.lease = "live", !.attempts = @ + 1,
              !.candidate = IF row.dispatch = "READY" THEN @
                            ELSE CHOOSE c \in Candidates : c # row.candidate]

Claimed(row) ==
  [row EXCEPT !.dispatch = "DISPATCHING", !.lease = "live", !.attempts = @ + 1]

\* Mutant of Mismatch: the environment is checked by routing only.
EnvironmentNotChecked(h, row) == FALSE

\* A frozen connector of another environment is never called.
Mismatch(h, row) == EnvironmentOf[row.candidate] # EnvOf[h]

ClaimDispatch(h) ==
  /\ pc[h] = "claim"
  /\ Claimable(tx[at[h]])
  /\ tx' = [tx EXCEPT ![at[h]] = Claimed(@)]
  /\ \/ /\ Mismatch(h, tx[at[h]])
        /\ GotResult(h, FailedResult)
     \/ /\ ~ Mismatch(h, tx[at[h]])
        /\ Goto(h, "send")
        /\ UNCHANGED result
  /\ UNCHANGED <<eligible, at, sent, outstanding, vended, lapsed, crashes>>

\* Not claimed: reply with the state of the row (an idempotent replay).
Replay(h) ==
  /\ pc[h] = "claim"
  /\ ~ Claimable(tx[at[h]])
  /\ Finish(h)
  /\ UNCHANGED <<tx, eligible, sent, outstanding, vended, lapsed, crashes>>

Expired(row) == [row EXCEPT !.lease = "expired"]

LeaseExpires(t) ==
  /\ t \in Stored
  /\ tx[t].lease = "live"
  /\ tx' = [tx EXCEPT ![t] = Expired(@)]
  /\ lapsed' = lapsed \cup {t}
  /\ UNCHANGED <<eligible, pc, at, result, sent, outstanding, vended, crashes>>

-----------------------------------------------------------------------------
(* executeVendSafely: the call, and the three ways it can end. *)

SendVend(h) ==
  /\ pc[h] = "send"
  /\ sent' = sent \cup {<<tx[at[h]].candidate, KeyOf[h], EnvOf[h]>>}
  /\ outstanding' = outstanding \cup {<<tx[at[h]].candidate, KeyOf[h], h>>}
  /\ Goto(h, "await")
  /\ UNCHANGED <<tx, eligible, at, result, vended, lapsed, crashes>>

\* What the adapters make of a provider's state: in-flight wording maps to one
\* of three statuses, and wording outside the status map to UNKNOWN.
Reports(s) ==
  {"UNKNOWN"} \cup IF s = "ACCEPTED" THEN {"CREATED", "SUBMITTED", "ACCEPTED"} ELSE {s}

\* The provider has seen the request and says where the purchase stands.
AnswerVend(h) ==
  LET c == tx[at[h]].candidate
      k == KeyOf[h]
  IN  /\ pc[h] = "await"
      /\ <<c, k, h>> \notin outstanding
      /\ vended[<<c, k>>] # "NONE"
      /\ \E v \in Reports(vended[<<c, k>>]) : GotResult(h, Confirmed(v))
      /\ UNCHANGED <<tx, eligible, at, sent, outstanding, vended, lapsed, crashes>>

\* classify: an HTTP 4xx other than 408, 409, 425, 429 is a definite failure.
\* The provider has refused this request and will not act on it.
RejectVend(h) ==
  LET request == <<tx[at[h]].candidate, KeyOf[h], h>>
  IN  /\ pc[h] = "await"
      /\ request \in outstanding
      /\ outstanding' = outstanding \ {request}
      /\ GotResult(h, FailedResult)
      /\ UNCHANGED <<tx, eligible, at, sent, vended, lapsed, crashes>>

\* classify: anything else thrown is ambiguous, a timeout as much as a connector
\* that was switched off before the request left.
TimeoutVend(h) ==
  /\ pc[h] \in {"send", "await"}
  /\ GotResult(h, UnknownResult)
  /\ UNCHANGED <<tx, eligible, at, sent, outstanding, vended, lapsed, crashes>>

-----------------------------------------------------------------------------
(* recordVendResult and completeVendDispatch: two database transactions. *)

Recorded(row, r) ==
  [WithOutcome(row, r.vend) EXCEPT !.ref = @ \/ r.outcome = "CONFIRMED"]

RecordVendResult(h) ==
  /\ pc[h] = "record"
  /\ tx' = [tx EXCEPT ![at[h]] = Recorded(@, result[h])]
  /\ Goto(h, "complete")
  /\ UNCHANGED <<eligible, at, result, sent, outstanding, vended, lapsed, crashes>>

\* Mutant of DispatchStateFor: the outcome stored as it is.
OutcomeAsState(outcome) == outcome
DispatchStateFor(outcome) == IF outcome = "CONFIRMED" THEN "COMPLETED" ELSE outcome

Completed(row, outcome) ==
  [row EXCEPT !.dispatch = DispatchStateFor(outcome), !.lease = "none"]

CompleteVendDispatch(h) ==
  /\ pc[h] = "complete"
  /\ tx' = [tx EXCEPT ![at[h]] = Completed(@, result[h].outcome)]
  /\ Finish(h)
  /\ UNCHANGED <<eligible, sent, outstanding, vended, lapsed, crashes>>

-----------------------------------------------------------------------------
(* The environment: processes die, routes change, the provider works. *)

Crash(h) ==
  /\ pc[h] # "idle"
  /\ crashes < MaxCrashes
  /\ crashes' = crashes + 1
  /\ Finish(h)
  /\ UNCHANGED <<tx, eligible, sent, outstanding, vended, lapsed>>

EligibilityChanges ==
  /\ eligible' \in SUBSET Candidates \ {eligible}
  /\ UNCHANGED <<tx, pc, at, result, sent, outstanding, vended, lapsed, crashes>>

\* A request arrives, at any time after it was sent; only the first one vends.
ProviderReceives(c, k) ==
  /\ \E h \in Handlers :
       /\ <<c, k, h>> \in outstanding
       /\ outstanding' = outstanding \ {<<c, k, h>>}
  /\ IF vended[<<c, k>>] = "NONE"
     THEN \E s \in {"ACCEPTED", "FULFILLED", "FAILED"} :
            vended' = [vended EXCEPT ![<<c, k>>] = s]
     ELSE UNCHANGED vended
  /\ UNCHANGED <<tx, eligible, pc, at, result, sent, lapsed, crashes>>

ProviderFinishes(c, k) ==
  /\ vended[<<c, k>>] = "ACCEPTED"
  /\ \E s \in {"FULFILLED", "FAILED", "CANCELLED"} :
       vended' = [vended EXCEPT ![<<c, k>>] = s]
  /\ UNCHANGED <<tx, eligible, pc, at, result, sent, outstanding, lapsed, crashes>>

-----------------------------------------------------------------------------

Init ==
  /\ tx = [t \in {} |-> NoTx]
  /\ eligible = Candidates
  /\ pc = [h \in Handlers |-> "idle"]
  /\ at = [h \in Handlers |-> NoTx]
  /\ result = [h \in Handlers |-> NoResult]
  /\ sent = {}
  /\ outstanding = {}
  /\ vended = [r \in Candidates \X Keys |-> "NONE"]
  /\ lapsed = {}
  /\ crashes = 0

HandlerStep(h) ==
  \/ LookupExisting(h) \/ LookupMissing(h)
  \/ InsertRouted(h) \/ InsertRefused(h)
  \/ ClaimDispatch(h) \/ Replay(h)
  \/ SendVend(h) \/ AnswerVend(h) \/ RejectVend(h) \/ TimeoutVend(h)
  \/ RecordVendResult(h) \/ CompleteVendDispatch(h)

ProviderStep == \E c \in Candidates, k \in Keys : ProviderReceives(c, k) \/ ProviderFinishes(c, k)

Next ==
  \/ \E h \in Handlers : HandlerStep(h) \/ Crash(h)
  \/ \E t \in TxIds : LeaseExpires(t)
  \/ EligibilityChanges
  \/ ProviderStep

Spec == Init /\ [][Next]_vars

(***************************************************************************)
(* A client that got no answer repeats its request, a process takes its    *)
(* next step, and time passes.  Nothing is assumed of the provider: a call *)
(* it never answers ends in a timeout.                                     *)
(***************************************************************************)
FairSpec ==
  /\ Spec
  /\ \A h \in Handlers : WF_vars(HandlerStep(h))
  /\ \A t \in TxIds : WF_vars(LeaseExpires(t))

-----------------------------------------------------------------------------
(* Properties. *)

\* However requests that carry one idempotency key race each other between the
\* lookup and the INSERT of prepareRoutedVend, they never create a second
\* transaction (docs/PHASE3_IMPLEMENTATION.md, safety invariant 4).
OneTransactionPerKey ==
  \A s, t \in Stored : tx[s].key = tx[t].key => s = t

\* Once a vend request has left for one provider, no request with the same
\* idempotency key ever leaves for another, whatever routes, crashes and
\* resumed dispatches do in between (safety invariants 1, 3 and 5).
NoCrossProviderRetry ==
  \A r, q \in sent : r[2] = q[2] => r[1] = q[1]

\* No process calls a connector of another environment than its own, not even
\* when it resumes a dispatch frozen by a process of that other environment
\* (safety invariant 10).
EnvironmentBoundary ==
  \A r \in sent : EnvironmentOf[r[1]] = r[3]

\* The purchase a transaction stands for, as the tables show it.
PurchaseOf(t) == <<tx[t].candidate, tx[t].key>>
Chosen == {PurchaseOf(t) : t \in Stored}
Stale == {PurchaseOf(t) : t \in lapsed}

SaidDelivered(p) == \E t \in Stored : PurchaseOf(t) = p /\ tx[t].status = "FULFILLED"
SaidRefund(p) == \E t \in Stored : PurchaseOf(t) = p /\ tx[t].refundRequired

Verdict ==
  [p \in Candidates \X Keys |->
     IF SaidDelivered(p) THEN "delivered" ELSE IF SaidRefund(p) THEN "refund" ELSE "open"]

Register == INSTANCE PurchaseRegister WITH
  chosen <- Chosen, purchase <- vended, verdict <- Verdict, stale <- Stale

\* Whatever requests race, processes die, answers come late and leases run out: one
\* provider is chosen for a key, makes the purchase once, and what the row says of
\* it is true and final, the money never promised back for goods still to come.
OnePurchase == Register!Spec

\* As long as no lease on it has run out, a transaction has at most one handler
\* between its claim and the end of its dispatch.
SoleDispatcher ==
  \A g, h \in Handlers :
    /\ pc[g] \in Dispatching /\ pc[h] \in Dispatching
    /\ at[g] = at[h] /\ at[g] \notin lapsed
    => g = h

\* A vend request leaves for the provider only while no outcome is recorded, so
\* a recorded UNKNOWN is never vended again blindly.  The one exception is a
\* dispatch whose lease ran out under a slow handler.
OutcomeEndsDispatch ==
  [][\A h \in Handlers :
       SendVend(h) /\ at[h] \notin lapsed => tx[at[h]].status = "SUBMITTED"]_vars

\* An outcome, once recorded, is not replaced by the vend handlers: neither a
\* late answer nor a replay rewrites it.  Again, only while no lease ran out.
OutcomeIsKept ==
  [][\A t \in Stored \ lapsed :
       tx[t].status # "SUBMITTED" => tx'[t].status = tx[t].status]_vars

\* A row that says FULFILLED is one the provider fulfilled: no late, repeated or
\* misattributed answer turns into a delivery that did not happen.
FulfilledIsTrue ==
  \A t \in Stored :
    tx[t].status = "FULFILLED" => vended[<<tx[t].candidate, tx[t].key>>] = "FULFILLED"

InProvidersHands(c, k) ==
  \/ vended[<<c, k>>] \in {"ACCEPTED", "FULFILLED"}
  \/ \E h \in Handlers : <<c, k, h>> \in outstanding

\* A transaction that asks for a full refund, and whose lease never ran out, is
\* one the provider neither vended nor still can: an ambiguous answer is never
\* taken for a failure.
RefundIsDue ==
  \A t \in Stored \ lapsed :
    tx[t].refundRequired
      => ~ InProvidersHands(tx[t].candidate, tx[t].key)

\* Without the exception: a row left as FAILED, with no handler at work on it any
\* more, is not one whose vend the provider has taken on.
\* docs/PHASE3_IMPLEMENTATION.md, safety invariant 5: "Ambiguous provider outcomes
\* become UNKNOWN".  A resumed dispatch does not keep this: the 4xx answer to its
\* request is recorded as FAILED although what became of the request of the
\* process that died is still open.
AmbiguousBecomesUnknown ==
  \A t \in Stored :
    tx[t].status = "FAILED" /\ (\A h \in Handlers : at[h] # t)
      => vended[<<tx[t].candidate, tx[t].key>>] \notin {"ACCEPTED", "FULFILLED"}

\* A transaction does not stay stranded between its INSERT and an outcome: as
\* long as the client repeats its request, the row comes to carry a provider
\* reference or an outcome, however many processes die on the way.
NotStranded ==
  \A t \in TxIds :
    t \in Stored ~> (t \in Stored /\ (tx[t].ref \/ tx[t].status # "SUBMITTED"))

=============================================================================
