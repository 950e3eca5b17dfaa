-------------------------- MODULE ProviderRecovery --------------------------
(***************************************************************************)
(* What happens to a transaction whose dispatch is over but whose outcome  *)
(* is open.  Four parties write the row, each in database transactions of  *)
(* its own with provider calls in between:                                 *)
(*                                                                         *)
(*  - recovery workers (services/recovery-worker) claim a row under a      *)
(*    lease with a fresh token, query the provider, and write the answer   *)
(*    or the failure only if the token is still theirs;                    *)
(*  - operators (POST .../query-provider) read the row, query the provider *)
(*    and write the answer whatever happened in between;                   *)
(*  - webhooks write what an event says, once per event, in whatever order *)
(*    the events arrive;                                                   *)
(*  - the escalation pass opens one support case per stuck transaction.    *)
(*                                                                         *)
(* A provider's state of a vend goes from ACCEPTED to a final one.  Rows   *)
(* start as recordVendResult leaves them.                                  *)
(***************************************************************************)
EXTENDS TransactionRow, FiniteSets

CONSTANTS
  TxIds,          \* transactions of one tenant
  Workers,        \* recovery loops, scheduled or started by POST .../recovery/run
  Operators,      \* manual provider queries
  Nobody,         \* nobody claimed the row yet
  InFlight,       \* how the adapters word a vend that is under way
  Final,          \* how it can end
  EscalateAfter,  \* attempts after which an UNKNOWN row is escalated (5 in the code)
  MaxAttempts,    \* bound: claims per transaction
  MaxFlips,       \* bound: how often the connector is switched on or off
  MaxCrashes      \* bound: how many workers die with a claim

ASSUME NobodyAssumption == Nobody \notin Workers
ASSUME WordingAssumption ==
  /\ InFlight \subseteq {"CREATED", "SUBMITTED", "ACCEPTED"}
  /\ Final \subseteq {"FULFILLED", "FAILED", "CANCELLED"}
ASSUME BoundsAssumption ==
  /\ EscalateAfter \in Nat \ {0} /\ MaxAttempts \in Nat
  /\ MaxFlips \in Nat /\ MaxCrashes \in Nat

VARIABLES
  tx,           \* the transactions table
  truth,        \* what the provider holds for each transaction
  worker,       \* each worker: where it is, its claim, the provider's answer
  operator,     \* each manual query, likewise
  operational,  \* the connector is enabled and ACTIVE or DEGRADED
  inbox,        \* webhook events sent and not processed yet
  processed,    \* webhook_events: events that were processed
  cases,        \* transactions with a support case
  issued,       \* lease tokens issued so far: the last one
  flips,        \* connector changes so far
  crashes,      \* workers lost so far
  queried,      \* last_provider_query_at IS NOT NULL
  claimant,     \* history: the worker that claimed each row last
  writer        \* history: who wrote each row's status last

vars == <<tx, truth, worker, operator, operational, inbox, processed, cases,
          issued, flips, crashes, queried, claimant, writer>>

Party == [pc : {"idle", "query", "apply", "fail"}, at : TxIds, token : Nat, answer : VendStatus]
Idle(t) == [pc |-> "idle", at |-> t, token |-> 0, answer |-> "UNKNOWN"]
Answered(p, v) == [p EXCEPT !.pc = "apply", !.answer = v]
\* Mutant of Failing: the answer to be written is taken from the error.
StillQuerying(p) == [p EXCEPT !.pc = "fail", !.answer = "NONE"]
Failing(p) == [p EXCEPT !.pc = "fail", !.answer = "UNKNOWN"]

Truth == {"NONE", "ACCEPTED"} \cup Final

TypeOK ==
  /\ tx \in [TxIds -> Row]
  /\ truth \in [TxIds -> Truth]
  /\ worker \in [Workers -> Party]
  /\ operator \in [Operators -> Party]
  /\ operational \in BOOLEAN
  /\ inbox \subseteq TxIds \X VendStatus
  /\ processed \subseteq TxIds \X VendStatus
  /\ cases \subseteq TxIds
  /\ issued \in Nat
  /\ flips \in 0..MaxFlips
  /\ crashes \in 0..MaxCrashes
  /\ queried \subseteq TxIds
  /\ claimant \in [TxIds -> Workers \cup {Nobody}]
  /\ writer \in [TxIds -> {"dispatch", "worker", "operator", "webhook"}]

environment == <<truth, operational, inbox, processed, flips>>

-----------------------------------------------------------------------------
(* Answers. *)

\* Mutant of Reports: wording outside the status map becomes FAILED.
UnmappedIsFailed(s) == {"FAILED"} \cup IF s \in Final THEN {s} ELSE InFlight

\* What an adapter makes of the provider's state; wording outside the status map
\* becomes UNKNOWN.
Reports(s) == {"UNKNOWN"} \cup IF s \in Final THEN {s} ELSE InFlight

Open == {"CREATED", "SUBMITTED", "ACCEPTED"}
Unresolved == {"UNKNOWN", "TIMED_OUT"}

\* resolveUnknownTransaction refuses everything else.
Queryable(row) == row.status \in Open \cup Unresolved /\ row.ref

-----------------------------------------------------------------------------
(* The recovery worker. *)

\* The WHERE clause of claimNextTransaction.
Recoverable(row) ==
  /\ \/ row.status \in Unresolved
     \/ row.status \in Open /\ row.recovery.attempts > 0
  /\ row.ref
  /\ row.recovery.due
  /\ row.recovery.lease # "live"

ClaimColumns(columns, token) ==
  [columns EXCEPT !.lease = "live", !.token = token, !.attempts = @ + 1, !.due = TRUE]

Claim(t, token) == [pc |-> "query", at |-> t, token |-> token, answer |-> "UNKNOWN"]

\* FOR UPDATE SKIP LOCKED: a recoverable row that nobody else is claiming.
ClaimNextTransaction(w, t) ==
  /\ worker[w].pc = "idle"
  /\ operational
  /\ Recoverable(tx[t])
  /\ tx[t].recovery.attempts < MaxAttempts
  /\ issued' = issued + 1
  /\ tx' = [tx EXCEPT ![t].recovery = ClaimColumns(@, issued + 1)]
  /\ worker' = [worker EXCEPT ![w] = Claim(t, issued + 1)]
  /\ claimant' = [claimant EXCEPT ![t] = w]
  /\ UNCHANGED <<environment, operator, cases, crashes, queried, writer>>

QueryProvider(w) ==
  /\ worker[w].pc = "query"
  /\ \E v \in Reports(truth[worker[w].at]) :
       worker' = [worker EXCEPT ![w] = Answered(@, v)]
  /\ UNCHANGED <<environment, tx, operator, cases, issued, crashes, queried, claimant, writer>>

\* The query threw, or the write of its answer did.
RecoveryFails(w) ==
  /\ worker[w].pc \in {"query", "apply"}
  /\ worker' = [worker EXCEPT ![w] = Failing(@)]
  /\ UNCHANGED <<environment, tx, operator, cases, issued, crashes, queried, claimant, writer>>

\* Mutant of OwnsLease: completion keyed by the row's id alone.
AnyoneOwnsLease(w) == TRUE

\* WHERE id = $1 AND recovery_lease_token = $2
OwnsLease(w) == tx[worker[w].at].recovery.token = worker[w].token

Released(columns, isDue) ==
  [columns EXCEPT !.lease = "none", !.token = 0, !.due = isDue]

\* The answer, and either no further query or one in five minutes.
Resolved(row, v) ==
  [WithOutcome(row, v) EXCEPT !.recovery = Released(@, NormalizedFromVend(v) \in Terminal)]

ApplyTransactionResolution(w) ==
  /\ worker[w].pc = "apply"
  /\ worker' = [worker EXCEPT ![w] = Idle(@.at)]
  /\ \/ /\ OwnsLease(w)
        /\ tx' = [tx EXCEPT ![worker[w].at] = Resolved(@, worker[w].answer)]
        /\ writer' = [writer EXCEPT ![worker[w].at] = "worker"]
        /\ queried' = queried \cup {worker[w].at}
     \/ /\ ~ OwnsLease(w)
        /\ UNCHANGED <<tx, writer, queried>>
  /\ UNCHANGED <<environment, operator, cases, issued, crashes, claimant>>

\* Back off: the row is due again some minutes later.
RecordTransactionRecoveryFailure(w) ==
  /\ worker[w].pc = "fail"
  /\ worker' = [worker EXCEPT ![w] = Idle(@.at)]
  /\ \/ /\ OwnsLease(w)
        /\ tx' = [tx EXCEPT ![worker[w].at].recovery = Released(@, FALSE)]
     \/ /\ ~ OwnsLease(w)
        /\ UNCHANGED tx
  /\ UNCHANGED <<environment, operator, cases, issued, crashes, queried, claimant, writer>>

Crash(w) ==
  /\ worker[w].pc # "idle"
  /\ crashes < MaxCrashes
  /\ crashes' = crashes + 1
  /\ worker' = [worker EXCEPT ![w] = Idle(@.at)]
  /\ UNCHANGED <<environment, tx, operator, cases, issued, queried, claimant, writer>>

-----------------------------------------------------------------------------
(* The manual query. *)

\* getTransactionRuntime: status, reference and connector are read once, before
\* the provider is asked.
StartQuery(o) ==
  /\ operator[o].pc = "idle"
  /\ operational
  /\ \E t \in TxIds :
       /\ Queryable(tx[t])
       /\ operator' = [operator EXCEPT ![o] = Claim(t, 0)]
  /\ UNCHANGED <<environment, tx, worker, cases, issued, crashes, queried, claimant, writer>>

ManualAnswer(o) ==
  /\ operator[o].pc = "query"
  /\ \E v \in Reports(truth[operator[o].at]) :
       operator' = [operator EXCEPT ![o] = Answered(@, v)]
  /\ UNCHANGED <<environment, tx, worker, cases, issued, crashes, queried, claimant, writer>>

ManualFails(o) ==
  /\ operator[o].pc \in {"query", "apply"}
  /\ operator' = [operator EXCEPT ![o] = Idle(@.at)]
  /\ UNCHANGED <<environment, tx, worker, cases, issued, crashes, queried, claimant, writer>>

\* Clears the lease of whoever holds one, but not its token; next_recovery_at is
\* five minutes ahead for UNKNOWN and NULL for everything else.
ManuallyResolved(row, v) ==
  [WithOutcome(row, v) EXCEPT !.recovery.lease = "none",
                              !.recovery.due = NormalizedFromVend(v) \notin Unresolved]

ApplyProviderResolution(o) ==
  /\ operator[o].pc = "apply"
  /\ operator' = [operator EXCEPT ![o] = Idle(@.at)]
  /\ tx' = [tx EXCEPT ![operator[o].at] = ManuallyResolved(@, operator[o].answer)]
  /\ writer' = [writer EXCEPT ![operator[o].at] = "operator"]
  /\ queried' = queried \cup {operator[o].at}
  /\ UNCHANGED <<environment, worker, cases, issued, crashes, claimant>>

-----------------------------------------------------------------------------
(* Webhooks. *)

Notified(row, v, named) == [WithOutcome(row, v) EXCEPT !.ref = @ \/ named]

\* recordAndApplyWebhook: one database transaction that a second event with the
\* same identifier or payload aborts.  The row is found by its correlation id,
\* whether or not the event names a provider reference, or by that reference.
\* The statuses it protects are those of refunds and disputes, which no row has
\* here.
RecordAndApplyWebhook(t, v) ==
  /\ <<t, v>> \in inbox
  /\ inbox' = inbox \ {<<t, v>>}
  /\ processed' = processed \cup {<<t, v>>}
  /\ \E named \in BOOLEAN : tx' = [tx EXCEPT ![t] = Notified(@, v, named)]
  /\ writer' = [writer EXCEPT ![t] = "webhook"]
  /\ UNCHANGED <<truth, worker, operator, operational, cases, issued, flips, crashes,
                 queried, claimant>>

-----------------------------------------------------------------------------
(* Escalation. *)

\* Mutant of Stuck: nobody looks at rows that cannot be queried at all.
StuckWithReference(row) ==
  /\ row.status \in Unresolved
  /\ \/ row.recovery.attempts >= EscalateAfter
     \/ ~ operational

Stuck(row) ==
  /\ row.status \in Unresolved
  /\ \/ ~ row.ref
     \/ row.recovery.attempts >= EscalateAfter
     \/ ~ operational

\* aged: the rows unresolved for ten minutes, some or all of those stuck.  A
\* second case for one of them is refused by the unique source_key.
RunRecoveryEscalations(aged) ==
  /\ aged # {}
  /\ \A t \in aged : t \notin cases /\ Stuck(tx[t])
  /\ cases' = cases \cup aged
  /\ UNCHANGED <<environment, tx, worker, operator, issued, crashes, queried, claimant, writer>>

-----------------------------------------------------------------------------
(* Time, the connector and the provider. *)

LeaseExpires(t) ==
  /\ tx[t].recovery.lease = "live"
  /\ tx' = [tx EXCEPT ![t].recovery.lease = "expired"]
  /\ UNCHANGED <<environment, worker, operator, cases, issued, crashes, queried, claimant, writer>>

BecomesDue(t) ==
  /\ ~ tx[t].recovery.due
  /\ tx' = [tx EXCEPT ![t].recovery.due = TRUE]
  /\ UNCHANGED <<environment, worker, operator, cases, issued, crashes, queried, claimant, writer>>

ConnectorChanges ==
  /\ flips < MaxFlips
  /\ flips' = flips + 1
  /\ operational' = ~ operational
  /\ UNCHANGED <<tx, truth, worker, operator, inbox, processed, cases, issued, crashes,
                 queried, claimant, writer>>

\* The request of a vend arrives late, or the vend comes to its end.
ProviderMoves(t) ==
  /\ truth[t] \notin Final
  /\ \E s \in Truth \ {"NONE", truth[t]} : truth' = [truth EXCEPT ![t] = s]
  /\ UNCHANGED <<tx, worker, operator, operational, inbox, processed, cases, issued, flips,
                 crashes, queried, claimant, writer>>

\* The provider announces each state once; the event takes its time.
ProviderNotifies(t) ==
  /\ truth[t] # "NONE"
  /\ <<t, truth[t]>> \notin inbox \cup processed
  /\ inbox' = inbox \cup {<<t, truth[t]>>}
  /\ UNCHANGED <<tx, truth, worker, operator, operational, processed, cases, issued, flips,
                 crashes, queried, claimant, writer>>

-----------------------------------------------------------------------------

\* The row recordVendResult and completeVendDispatch leave behind when the outcome
\* is open: the provider answered (known) without a final status, or the call
\* ended in a timeout and no reference is known.
OpenRow(k, c, v, known) ==
  [WithOutcome(RoutedRow(k, c), v) EXCEPT
     !.ref = known,
     !.dispatch = IF known THEN "COMPLETED" ELSE "UNKNOWN",
     !.attempts = 1]

\* A provider that answered holds the vend; one that did not may hold nothing.
Init ==
  /\ \E key \in [TxIds -> Keys], candidate \in [TxIds -> Candidates],
        v \in [TxIds -> InFlight \cup {"UNKNOWN"}], known \in [TxIds -> BOOLEAN] :
       /\ \A s, t \in TxIds : key[s] = key[t] => s = t
       /\ \A t \in TxIds : ~ known[t] => v[t] = "UNKNOWN"
       /\ tx = [t \in TxIds |-> OpenRow(key[t], candidate[t], v[t], known[t])]
  /\ truth \in [TxIds -> Truth]
  /\ \A t \in TxIds : tx[t].ref => truth[t] # "NONE"
  /\ \E t \in TxIds :
       /\ worker = [w \in Workers |-> Idle(t)]
       /\ operator = [o \in Operators |-> Idle(t)]
  /\ operational = TRUE
  /\ inbox = {}
  /\ processed = {}
  /\ cases = {}
  /\ issued = 0
  /\ flips = 0
  /\ crashes = 0
  /\ queried = {}
  /\ claimant = [t \in TxIds |-> Nobody]
  /\ writer = [t \in TxIds |-> "dispatch"]

\* What a worker does once it has a claim.
WorkerStep(w) ==
  \/ QueryProvider(w) \/ RecoveryFails(w)
  \/ ApplyTransactionResolution(w) \/ RecordTransactionRecoveryFailure(w)

OperatorStep(o) ==
  StartQuery(o) \/ ManualAnswer(o) \/ ManualFails(o) \/ ApplyProviderResolution(o)

Next ==
  \/ \E w \in Workers :
       WorkerStep(w) \/ Crash(w) \/ \E t \in TxIds : ClaimNextTransaction(w, t)
  \/ \E o \in Operators : OperatorStep(o)
  \/ \E t \in TxIds, v \in VendStatus : RecordAndApplyWebhook(t, v)
  \/ \E aged \in SUBSET TxIds : RunRecoveryEscalations(aged)
  \/ \E t \in TxIds :
       LeaseExpires(t) \/ BecomesDue(t) \/ ProviderMoves(t) \/ ProviderNotifies(t)
  \/ ConnectorChanges

Spec == Init /\ [][Next]_vars

(***************************************************************************)
(* worker.ts runs a cycle and then the escalations, again and again, and   *)
(* finishes what it claimed; time passes.  A row that is claimable again   *)
(* and again is claimed (the oldest goes first), although an operator's    *)
(* query may push its next attempt into the future once more: strong       *)
(* fairness.  Nothing is assumed of the operators, the provider, its       *)
(* webhooks or the connector.                                              *)
(***************************************************************************)
FairSpec ==
  /\ Spec
  /\ \A w \in Workers : WF_vars(WorkerStep(w))
  /\ \A t \in TxIds :
       /\ SF_vars(\E w \in Workers : ClaimNextTransaction(w, t))
       /\ WF_vars(LeaseExpires(t))
       /\ WF_vars(BecomesDue(t))
       /\ WF_vars(\E aged \in SUBSET TxIds : t \in aged /\ RunRecoveryEscalations(aged))

-----------------------------------------------------------------------------
(* Properties. *)

\* Worker w ends its claim by writing the row or by finding that it may not.
Settles(w) ==
  \/ ApplyTransactionResolution(w)
  \/ RecordTransactionRecoveryFailure(w)

\* A worker that claimed a row later wins: whoever is slower finishes its query
\* but writes nothing, neither its answer nor its failure
\* (services/recovery-worker/README.md; docs/PHASE4_IMPLEMENTATION.md, safety
\* invariant 4).
NewerWorkerWins ==
  [][\A w \in Workers :
       Settles(w) /\ claimant[worker[w].at] # w => UNCHANGED tx]_vars

\* A final status a worker wrote stays until an operator or a webhook writes the
\* row: no other worker that queried earlier takes it back.
WorkersKeepTerminal ==
  [][\A t \in TxIds :
       /\ writer[t] = "worker" /\ tx[t].status \in Terminal
       /\ tx'[t].status # tx[t].status
       => writer'[t] \in {"operator", "webhook"}]_vars

\* The table as a register that workers write under a fence.
Said == [t \in TxIds |-> IF tx[t].status \in Terminal THEN tx[t].status ELSE "open"]
Owner == [t \in TxIds |-> IF tx[t].recovery.token = 0 THEN Nobody ELSE claimant[t]]
Hand == [w \in Workers |-> IF worker[w].pc = "idle" THEN {} ELSE {worker[w].at}]

Fenced == INSTANCE FencedRegister WITH
  held <- truth, said <- Said, owner <- Owner, hand <- Hand

\* Whatever leases run out, workers die, and operators and events come between: a
\* worker writes a row only as the one that claimed it last, never twice for one
\* claim and never over an end that a worker wrote, and every end is the provider's.
WritersAreFenced == Fenced!Spec

\* A final status is the one the provider holds, in whatever order answers and
\* events arrive; the money follows it (refund due or not).
ResolutionIsTrue ==
  \A t \in TxIds :
    tx[t].status \in Terminal
      => truth[t] = tx[t].status /\ (tx[t].refundRequired <=> truth[t] # "FULFILLED")

\* A transaction does not stay unresolved unseen: its status is resolved, or
\* somebody has a support case about it.
ResolvedOrEscalated ==
  \A t \in TxIds :
    tx[t].status \in Unresolved ~> (tx[t].status \notin Unresolved \/ t \in cases)

\* The part of claimNextTransaction's WHERE clause that no passing of time and no
\* lease changes.
Scheduled(row) == row.status \in Unresolved \/ row.recovery.attempts > 0

\* A row that is scheduled for queries stays so until its status is final.
\* docs/PHASE4_IMPLEMENTATION.md:208, safety invariant 6: "Nonterminal provider
\* results remain scheduled for polling."  A manual query does not keep this: it
\* turns an UNKNOWN row that no worker has claimed yet into ACCEPTED, and no
\* worker ever claims it.
NonterminalScheduled ==
  [][\A t \in TxIds :
       Scheduled(tx[t]) /\ t \in queried' => Scheduled(tx'[t]) \/ tx'[t].status \in Terminal]_vars

=============================================================================
