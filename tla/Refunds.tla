------------------------------ MODULE Refunds ------------------------------
(***************************************************************************)
(* Giving money back: requestRefund, approveRefund, the dispatch of an     *)
(* approved refund to its provider under a lease, and the recovery of      *)
(* refunds whose outcome stayed open; and what all of them write in the    *)
(* transaction the refunds belong to (their parent).                       *)
(*                                                                         *)
(* Every repository function is one database transaction at READ           *)
(* COMMITTED.  Two of them read an aggregate over all refunds of a parent  *)
(* and write it back with no lock on the parent in between:                *)
(* recordRefundResult and recalculateRefundParent.  They are two actions   *)
(* each here, the aggregate and the commit.                                *)
(*                                                                         *)
(* A refund and its idempotency key are one: the key is unique, and a      *)
(* request that repeats it gets the stored refund or an error.             *)
(*                                                                         *)
(* The provider is external and behaves as for vends: it honours the key,  *)
(* may receive a request late, and may refuse one with an HTTP 4xx         *)
(* whatever became of the requests before it.  A vend that ended stays     *)
(* ended; answers and events about it may still arrive.                    *)
(***************************************************************************)
EXTENDS CanonicalModels, FiniteSets

CONSTANTS
  TxIds,          \* paid transactions whose vend has come to its end
  Total,          \* total_amount of each, in some unit
  RefundIds,      \* idempotency keys of refund requests
  Amounts,        \* amounts a request may ask for
  Requesters,     \* users with refund.request
  Approvers,      \* users with refund.approve
  Nobody,         \* approved_by IS NULL
  NoRefund,       \* a handler or worker that has no refund at hand
  Handlers,       \* approvals being served
  UserOf,         \* the user behind each of them
  Workers,        \* recovery workers
  Final,          \* how a vend can end with this provider
  LateVends,      \* vend statuses that late events and answers still carry
  MaxClaims,      \* bound: claims by recovery workers
  MaxLapses,      \* bound: dispatch leases that run out
  MaxCrashes      \* bound: handlers and workers that die

ASSUME TotalAssumption == Total \in [TxIds -> Nat \ {0}]
ASSUME AmountsAssumption == Amounts \subseteq Nat \ {0}
ASSUME UsersAssumption == UserOf \in [Handlers -> Approvers] /\ Nobody \notin Requesters \cup Approvers
ASSUME NoRefundAssumption == NoRefund \notin RefundIds
ASSUME VendsAssumption ==
  Final \subseteq {"FULFILLED", "FAILED", "CANCELLED"} /\ LateVends \subseteq VendStatus
ASSUME RefundBoundsAssumption ==
  MaxClaims \in Nat /\ MaxLapses \in Nat /\ MaxCrashes \in Nat

VARIABLES
  parent,       \* the columns of each transaction that refunds read or write
  refund,       \* the refunds table: a function on the keys inserted so far
  handler,      \* the approval each handler serves, and how far it is
  worker,       \* the claim each worker holds, and how far it is
  vended,       \* how each vend really ended
  outstanding,  \* requests that left and that the provider has yet to see
  refunded,     \* what the provider holds for each idempotency key
  issued,       \* recovery lease tokens handed out so far
  lapses,       \* dispatch leases that ran out so far
  crashes,      \* handlers and workers lost so far
  lapsed,       \* history: refunds whose dispatch lease ran out
  disordered    \* history: transactions that a late answer set back

vars == <<parent, refund, handler, worker, vended, outstanding, refunded,
          issued, lapses, crashes, lapsed, disordered>>

RefundStatus == {"REQUESTED", "APPROVED", "PENDING", "COMPLETED", "FAILED", "UNKNOWN"}

\* next_recovery_at, which only ever delays a claim, and the attempts that it and the
\* escalation depend on are left out.  Token 0 is NULL.
RefundRecovery == [lease : Lease, token : Nat]

\* ref: provider_refund_id IS NOT NULL.
RefundRow == [txn : TxIds, amount : Amounts, status : RefundStatus,
              maker : Requesters, checker : Approvers \cup {Nobody},
              dispatch : {"NOT_READY", "DISPATCHING", "COMPLETED", "FAILED", "UNKNOWN"},
              lease : Lease, ref : BOOLEAN, recovery : RefundRecovery]

ParentRefundStatus ==
  {"NONE", "REQUESTED", "PENDING", "UNKNOWN", "COMPLETED", "FAILED", "PARTIAL"}

\* ref: provider_transaction_id IS NOT NULL.
ParentRow == [vend : VendStatus, ref : BOOLEAN, status : TransactionStatus,
              refundStatus : ParentRefundStatus, refundRequired : BOOLEAN, blocked : BOOLEAN]

\* The columns an aggregate decides.  A NULL status keeps the one there is.
ParentColumns == [status : {"REFUNDED", "REFUND_PENDING", "FULFILLED", "NULL"},
                  refundStatus : ParentRefundStatus, refundRequired : BOOLEAN,
                  blocked : BOOLEAN]

NoColumns ==
  [status |-> "NULL", refundStatus |-> "NONE", refundRequired |-> FALSE, blocked |-> FALSE]

\* What the call of a handler came to, and the status it stores.
Outcome == {"PENDING", "COMPLETED", "FAILED", "UNKNOWN"}
Result == [outcome : {"CONFIRMED", "FAILED", "UNKNOWN"}, status : Outcome]
Confirmed(s) == [outcome |-> "CONFIRMED", status |-> s]
FailedResult == [outcome |-> "FAILED", status |-> "FAILED"]
\* Mutant of UnknownResult: a timeout counts as a failure.
TimeoutIsFailure == FailedResult
UnknownResult == [outcome |-> "UNKNOWN", status |-> "UNKNOWN"]

Approval == [pc : {"idle", "claim", "send", "await", "record", "commit", "complete"},
             at : RefundIds \cup {NoRefund}, result : Result, columns : ParentColumns]
Recovery == [pc : {"idle", "query", "apply", "aggregate", "commit", "fail"},
             at : RefundIds \cup {NoRefund}, token : Nat, answer : Outcome,
             columns : ParentColumns]

NoApproval ==
  [pc |-> "idle", at |-> NoRefund, result |-> UnknownResult, columns |-> NoColumns]
NoRecoveryClaim ==
  [pc |-> "idle", at |-> NoRefund, token |-> 0, answer |-> "UNKNOWN", columns |-> NoColumns]

Dispatching == {"send", "await", "record", "commit", "complete"}

Stored == DOMAIN refund

TypeOK ==
  /\ parent \in [TxIds -> ParentRow]
  /\ Stored \subseteq RefundIds
  /\ refund \in [Stored -> RefundRow]
  /\ handler \in [Handlers -> Approval]
  /\ worker \in [Workers -> Recovery]
  /\ vended \in [TxIds -> Final]
  /\ outstanding \subseteq RefundIds \X Handlers
  /\ refunded \in [RefundIds -> {"NONE", "PENDING", "COMPLETED", "FAILED"}]
  /\ issued \in Nat
  /\ lapses \in 0..MaxLapses
  /\ crashes \in 0..MaxCrashes
  /\ lapsed \subseteq Stored
  /\ disordered \subseteq TxIds

provider == <<vended, outstanding, refunded>>
environment == <<lapses, crashes, disordered>>

-----------------------------------------------------------------------------
(* Sums and aggregates. *)

\* The sum of the amounts of the refunds in S: each contributes its units.
Units(r) == {r} \X (1..refund[r].amount)
Worth(S) == Cardinality(UNION {Units(r) : r \in S})

RefundsOf(t) == {r \in Stored : refund[r].txn = t}

\* status NOT IN ('REJECTED','CANCELLED','FAILED'); nothing writes the first two.
Reserved(t) == {r \in RefundsOf(t) : refund[r].status # "FAILED"}

\* Mutant of FullyRefunded: what is promised counts as paid.
FullyReserved(t, statusOf) ==
  Worth({r \in RefundsOf(t) : statusOf[r] # "FAILED"}) >= Total[t]

FullyRefunded(t, statusOf) ==
  Worth({r \in RefundsOf(t) : statusOf[r] = "COMPLETED"}) >= Total[t]

\* Mutant of Held: the money is held for open refunds only.
HeldWhileOpen(full, owed, open) == ~ full /\ open

Held(full, owed, open) == ~ full /\ (owed \/ open)

\* The parent's columns, recalculated from its refunds with the given statuses.
Recalculated(t, statusOf) ==
  LET some(s) == \E r \in RefundsOf(t) : statusOf[r] = s
      full == FullyRefunded(t, statusOf)
      open == some("REQUESTED") \/ some("APPROVED") \/ some("PENDING") \/ some("UNKNOWN")
      owed == NeedsFullRefund(parent[t].vend)
      required == ~ full /\ (owed \/ open \/ some("FAILED"))
  IN  [refundStatus |->
         CASE open /\ some("UNKNOWN") -> "UNKNOWN"
           [] open /\ ~ some("UNKNOWN") -> "PENDING"
           [] ~ open /\ full -> "COMPLETED"
           [] ~ open /\ ~ full /\ some("FAILED") -> "FAILED"
           [] ~ open /\ ~ full /\ ~ some("FAILED") /\ some("COMPLETED") -> "PARTIAL"
           [] OTHER -> "NONE",
       status |->
         CASE full -> "REFUNDED"
           [] ~ full /\ required -> "REFUND_PENDING"
           [] ~ full /\ ~ required /\ parent[t].vend = "FULFILLED" -> "FULFILLED"
           [] OTHER -> "NULL",
       refundRequired |-> required,
       blocked |-> Held(full, owed, open)]

WithColumns(row, columns) ==
  [row EXCEPT !.status = IF columns.status = "NULL" THEN @ ELSE columns.status,
              !.refundStatus = columns.refundStatus,
              !.refundRequired = columns.refundRequired,
              !.blocked = columns.blocked]

StatusOf == [r \in Stored |-> refund[r].status]

-----------------------------------------------------------------------------
(* Requests. *)

RequestedRow(t, a, u) ==
  [txn |-> t, amount |-> a, status |-> "REQUESTED", maker |-> u, checker |-> Nobody,
   dispatch |-> "NOT_READY", lease |-> "none", ref |-> FALSE,
   recovery |-> [lease |-> "none", token |-> 0]]

WithRefund(r, row) == [q \in Stored \cup {r} |-> IF q = r THEN row ELSE refund[q]]

\* A terminal, known vend outcome.
Refundable(row) ==
  /\ row.vend \in {"FULFILLED", "FAILED", "CANCELLED"}
  /\ row.status \notin {"UNKNOWN", "TIMED_OUT"}

\* Mutant of WithinTotal: each request is compared with the total on its own.
EachWithinTotal(t, a) == a <= Total[t]

WithinTotal(t, a) == Worth(Reserved(t)) + a <= Total[t]

\* The parent is locked FOR UPDATE from the reading of its reservation to the
\* commit, so two requests do not interleave.
RequestRefund(u, t, r, a) ==
  /\ r \notin Stored
  /\ Refundable(parent[t])
  /\ WithinTotal(t, a)
  /\ refund' = WithRefund(r, RequestedRow(t, a, u))
  /\ parent' = [parent EXCEPT ![t].refundStatus = "REQUESTED",
                              ![t].refundRequired = TRUE,
                              ![t].status = "REFUND_PENDING",
                              ![t].blocked = TRUE]
  /\ UNCHANGED <<provider, environment, handler, worker, issued, lapsed>>

-----------------------------------------------------------------------------
(* Approval and dispatch. *)

\* recordRefundResult holds the refund's row lock from its aggregate to its commit;
\* everything else that writes the row waits.
Locked(r) == \E h \in Handlers : handler[h].pc = "commit" /\ handler[h].at = r

Goto(h, where) == handler' = [handler EXCEPT ![h].pc = where]
Leave(h) == handler' = [handler EXCEPT ![h] = NoApproval]

Serve(h, r) == handler' = [handler EXCEPT ![h] = [NoApproval EXCEPT !.pc = "claim", !.at = r]]

\* Mutant of MayApprove: nobody compares the approver with the requester.
AnyoneMayApprove(h, row) == row.status = "REQUESTED" /\ parent[row.txn].ref

\* The table has the second guard as a CHECK, too.
MayApprove(h, row) ==
  /\ row.status = "REQUESTED"
  /\ row.maker # UserOf[h]
  /\ parent[row.txn].ref

\* The handler goes on only if the connector it has just read is operational and
\* has the capability, which may change at any time.
ApproveRefund(h, r) ==
  /\ handler[h].pc = "idle"
  /\ r \in Stored
  /\ MayApprove(h, refund[r])
  /\ refund' = [refund EXCEPT ![r].status = "APPROVED", ![r].checker = UserOf[h]]
  /\ Serve(h, r) \/ UNCHANGED handler
  /\ UNCHANGED <<provider, environment, parent, worker, issued, lapsed>>

\* getApprovedRefundRuntime: approved before, so carry on with the dispatch.
ResumeRefund(h, r) ==
  /\ handler[h].pc = "idle"
  /\ r \in Stored
  /\ refund[r].status = "APPROVED"
  /\ parent[refund[r].txn].ref
  /\ Serve(h, r)
  /\ UNCHANGED <<provider, environment, parent, refund, worker, issued, lapsed>>

\* Mutant of LeaseIsFree: a claim that ignores leases.
LeasesIgnored(row) == TRUE

LeaseIsFree(row) == row.lease # "live"

\* Mutant of Claimable: whatever is not under way may be dispatched again.
ClaimableUnlessUnderWay(row) == row.dispatch # "DISPATCHING" \/ LeaseIsFree(row)

Claimable(row) ==
  /\ row.status = "APPROVED"
  /\ \/ row.dispatch = "NOT_READY"
     \/ row.dispatch = "DISPATCHING" /\ LeaseIsFree(row)

ClaimRefundDispatch(h) ==
  LET r == handler[h].at
  IN  /\ handler[h].pc = "claim"
      /\ ~ Locked(r)
      /\ Claimable(refund[r])
      /\ refund' = [refund EXCEPT ![r].dispatch = "DISPATCHING", ![r].lease = "live"]
      /\ Goto(h, "send")
      /\ UNCHANGED <<provider, environment, parent, worker, issued, lapsed>>

\* Not claimed: reply with the state of the row (an idempotent replay).
Replay(h) ==
  /\ handler[h].pc = "claim"
  /\ ~ Locked(handler[h].at)
  /\ ~ Claimable(refund[handler[h].at])
  /\ Leave(h)
  /\ UNCHANGED <<provider, environment, parent, refund, worker, issued, lapsed>>

SendRefund(h) ==
  /\ handler[h].pc = "send"
  /\ outstanding' = outstanding \cup {<<handler[h].at, h>>}
  /\ Goto(h, "await")
  /\ UNCHANGED <<vended, refunded, environment, parent, refund, worker, issued, lapsed>>

GotResult(h, result) ==
  handler' = [handler EXCEPT ![h].pc = "record", ![h].result = result]

\* normalizeRefundStatus: wording it does not know is PENDING.
Reports(s) == {"PENDING"} \cup ({s} \cap {"COMPLETED", "FAILED"})

\* The provider has seen the request and says where the refund stands.
AnswerRefund(h) ==
  LET r == handler[h].at
  IN  /\ handler[h].pc = "await"
      /\ <<r, h>> \notin outstanding
      /\ refunded[r] # "NONE"
      /\ \E s \in Reports(refunded[r]) : GotResult(h, Confirmed(s))
      /\ UNCHANGED <<provider, environment, parent, refund, worker, issued, lapsed>>

\* classify: a definite HTTP 4xx.  The provider will not act on this request.
RejectRefund(h) ==
  LET request == <<handler[h].at, h>>
  IN  /\ handler[h].pc = "await"
      /\ request \in outstanding
      /\ outstanding' = outstanding \ {request}
      /\ GotResult(h, FailedResult)
      /\ UNCHANGED <<vended, refunded, environment, parent, refund, worker, issued,
                     lapsed>>

\* Anything else that goes wrong, an answer without a refund reference included.
TimeoutRefund(h) ==
  /\ handler[h].pc \in {"send", "await"}
  /\ GotResult(h, UnknownResult)
  /\ UNCHANGED <<provider, environment, parent, refund, worker, issued, lapsed>>

\* recordRefundResult up to its aggregate, which sees the new status of its own
\* refund and, of the others, what is committed.
AggregateRefundResult(h) ==
  LET r == handler[h].at
  IN  /\ handler[h].pc = "record"
      /\ ~ Locked(r)
      /\ handler' = [handler EXCEPT
           ![h].pc = "commit",
           ![h].columns = Recalculated(refund[r].txn,
                                       [StatusOf EXCEPT ![r] = handler[h].result.status])]
      /\ UNCHANGED <<provider, environment, parent, refund, worker, issued, lapsed>>

\* ... and from there to its commit.
RecordRefundResult(h) ==
  LET r == handler[h].at
  IN  /\ handler[h].pc = "commit"
      /\ refund' = [refund EXCEPT
           ![r].status = handler[h].result.status,
           ![r].ref = @ \/ handler[h].result.outcome = "CONFIRMED"]
      /\ parent' = [parent EXCEPT ![refund[r].txn] = WithColumns(@, handler[h].columns)]
      /\ handler' = [handler EXCEPT ![h].pc = "complete", ![h].columns = NoColumns]
      /\ UNCHANGED <<provider, environment, worker, issued, lapsed>>

\* Mutant of DispatchStateFor: the outcome stored as it is.
OutcomeAsState(outcome) == outcome

DispatchStateFor(outcome) == IF outcome = "CONFIRMED" THEN "COMPLETED" ELSE outcome

CompleteRefundDispatch(h) ==
  LET r == handler[h].at
  IN  /\ handler[h].pc = "complete"
      /\ ~ Locked(r)
      /\ refund' = [refund EXCEPT ![r].dispatch = DispatchStateFor(handler[h].result.outcome),
                                  ![r].lease = "none"]
      /\ Leave(h)
      /\ UNCHANGED <<provider, environment, parent, worker, issued, lapsed>>

-----------------------------------------------------------------------------
(* Recovery. *)

Idle(w) == worker' = [worker EXCEPT ![w] = NoRecoveryClaim]

Holds(w, where, r, token) ==
  worker' = [worker EXCEPT ![w] =
               [NoRecoveryClaim EXCEPT !.pc = where, !.at = r, !.token = token]]

\* The WHERE clause of claimNextRefund.
Recoverable(row) ==
  /\ row.status \in {"PENDING", "UNKNOWN"}
  /\ row.ref
  /\ row.recovery.lease # "live"

ClaimColumns(columns, token) ==
  [columns EXCEPT !.lease = "live", !.token = token]

\* FOR UPDATE SKIP LOCKED: a row that somebody is recording is passed over.
ClaimNextRefund(w, r) ==
  /\ worker[w].pc = "idle"
  /\ r \in Stored
  /\ ~ Locked(r)
  /\ Recoverable(refund[r])
  /\ issued < MaxClaims
  /\ issued' = issued + 1
  /\ refund' = [refund EXCEPT ![r].recovery = ClaimColumns(@, issued + 1)]
  /\ Holds(w, "query", r, issued + 1)
  /\ UNCHANGED <<provider, environment, parent, handler, lapsed>>

QueryRefundStatus(w) ==
  /\ worker[w].pc = "query"
  /\ \E s \in Reports(refunded[worker[w].at]) :
       worker' = [worker EXCEPT ![w].pc = "apply", ![w].answer = s]
  /\ UNCHANGED <<provider, environment, parent, refund, handler, issued, lapsed>>

\* An ambiguous answer, or an error in any of the steps that follow it.
RecoveryFails(w) ==
  /\ worker[w].pc \in {"query", "apply", "aggregate", "commit"}
  /\ Holds(w, "fail", worker[w].at, worker[w].token)
  /\ UNCHANGED <<provider, environment, parent, refund, handler, issued, lapsed>>

\* Mutant of OwnsLease: completion keyed by the refund's id alone.
AnyoneOwnsLease(w) == TRUE

OwnsLease(w) == refund[worker[w].at].recovery.token = worker[w].token

Released(columns) == [columns EXCEPT !.lease = "none", !.token = 0]

ApplyRefundRecoveryResult(w) ==
  LET r == worker[w].at
      s == worker[w].answer
  IN  /\ worker[w].pc = "apply"
      /\ ~ Locked(r)
      /\ \/ /\ OwnsLease(w)
            /\ refund' = [refund EXCEPT ![r].status = s,
                                        ![r].recovery = Released(@)]
            /\ Holds(w, "aggregate", r, worker[w].token)
         \/ /\ ~ OwnsLease(w)
            /\ Idle(w)
            /\ UNCHANGED refund
      /\ UNCHANGED <<provider, environment, parent, handler, issued, lapsed>>

\* recalculateRefundParent, a second database transaction: its aggregate ...
AggregateParent(w) ==
  /\ worker[w].pc = "aggregate"
  /\ worker' = [worker EXCEPT
       ![w].pc = "commit",
       ![w].columns = Recalculated(refund[worker[w].at].txn, StatusOf)]
  /\ UNCHANGED <<provider, environment, parent, refund, handler, issued, lapsed>>

\* ... and its UPDATE.
RecalculateRefundParent(w) ==
  /\ worker[w].pc = "commit"
  /\ parent' = [parent EXCEPT ![refund[worker[w].at].txn] = WithColumns(@, worker[w].columns)]
  /\ Idle(w)
  /\ UNCHANGED <<provider, environment, refund, handler, issued, lapsed>>

\* The refund becomes UNKNOWN, again some minutes later; its parent is left alone.
RecordRefundRecoveryFailure(w) ==
  LET r == worker[w].at
  IN  /\ worker[w].pc = "fail"
      /\ ~ Locked(r)
      /\ Idle(w)
      /\ \/ /\ OwnsLease(w)
            /\ refund' = [refund EXCEPT ![r].status = "UNKNOWN",
                                        ![r].recovery = Released(@)]
         \/ /\ ~ OwnsLease(w)
            /\ UNCHANGED refund
      /\ UNCHANGED <<provider, environment, parent, handler, issued, lapsed>>

-----------------------------------------------------------------------------
(* Late answers about the vend itself. *)

\* Nothing contradicts the way the vend ended; what is not final is out of date.
Late(t) == {v \in LateVends : v \in {"FULFILLED", "FAILED", "CANCELLED"} => v = vended[t]}

SetsBack(t, v) ==
  disordered' = IF v = vended[t] THEN disordered ELSE disordered \cup {t}

\* The status of a transaction with refunds is protected, its vend status is not.
Notified(row, v) ==
  IF row.status \in {"REFUND_PENDING", "REFUNDED", "DISPUTED"}
  THEN [row EXCEPT !.vend = v, !.blocked = row.status # "REFUNDED"]
  ELSE WithOutcome(row, v)

\* An event or an answer may bring the provider's reference.
WithReference(row, named) == [row EXCEPT !.ref = @ \/ named]

RecordAndApplyWebhook(t, v) ==
  /\ v \in Late(t)
  /\ \E named \in BOOLEAN :
       parent' = [parent EXCEPT ![t] = WithReference(Notified(@, v), named)]
  /\ SetsBack(t, v)
  /\ UNCHANGED <<provider, lapses, crashes, refund, handler, worker, issued, lapsed>>

\* recordVendResult, applyProviderResolution and applyTransactionResolution: a call
\* that began before the vend ended writes its answer whatever the transaction has
\* become.
LateVendResult(t, v) ==
  /\ v \in Late(t)
  /\ \E named \in BOOLEAN :
       parent' = [parent EXCEPT ![t] = WithReference(WithOutcome(@, v), named)]
  /\ SetsBack(t, v)
  /\ UNCHANGED <<provider, lapses, crashes, refund, handler, worker, issued, lapsed>>

-----------------------------------------------------------------------------
(* Time, deaths, the connector and the provider. *)

LeaseExpires(r) ==
  /\ r \in Stored
  /\ refund[r].lease = "live"
  /\ lapses < MaxLapses
  /\ lapses' = lapses + 1
  /\ refund' = [refund EXCEPT ![r].lease = "expired"]
  /\ lapsed' = lapsed \cup {r}
  /\ UNCHANGED <<provider, crashes, disordered, parent, handler, worker, issued>>

RecoveryLeaseExpires(r) ==
  /\ r \in Stored
  /\ refund[r].recovery.lease = "live"
  /\ refund' = [refund EXCEPT ![r].recovery.lease = "expired"]
  /\ UNCHANGED <<provider, environment, parent, handler, worker, issued, lapsed>>

HandlerCrash(h) ==
  /\ handler[h].pc # "idle"
  /\ crashes < MaxCrashes
  /\ crashes' = crashes + 1
  /\ handler' = [handler EXCEPT ![h] = NoApproval]
  /\ UNCHANGED <<provider, lapses, disordered, parent, refund, worker, issued, lapsed>>

WorkerCrash(w) ==
  /\ worker[w].pc # "idle"
  /\ crashes < MaxCrashes
  /\ crashes' = crashes + 1
  /\ Idle(w)
  /\ UNCHANGED <<provider, lapses, disordered, parent, refund, handler, issued, lapsed>>

\* A request arrives, at any time after it was sent; only the first one counts.
ProviderReceives(r) ==
  /\ \E h \in Handlers :
       /\ <<r, h>> \in outstanding
       /\ outstanding' = outstanding \ {<<r, h>>}
  /\ \/ /\ refunded[r] = "NONE"
        /\ refunded' = [refunded EXCEPT ![r] = "PENDING"]
     \/ /\ refunded[r] # "NONE"
        /\ UNCHANGED refunded
  /\ UNCHANGED <<vended, environment, parent, refund, handler, worker, issued, lapsed>>

ProviderFinishes(r) ==
  /\ refunded[r] = "PENDING"
  /\ \E s \in {"COMPLETED", "FAILED"} : refunded' = [refunded EXCEPT ![r] = s]
  /\ UNCHANGED <<vended, outstanding, environment, parent, refund, handler, worker, issued, lapsed>>

-----------------------------------------------------------------------------

\* The transaction as its vend left it.  A provider that refused the request
\* outright left no reference.
VendedRow(v, known) ==
  [vend |-> v, ref |-> known, status |-> v, refundStatus |-> "NONE",
   refundRequired |-> NeedsFullRefund(v), blocked |-> v # "FULFILLED"]

Init ==
  /\ vended \in [TxIds -> Final]
  /\ \E known \in [TxIds -> BOOLEAN] :
       /\ \A t \in TxIds : vended[t] # "FAILED" => known[t]
       /\ parent = [t \in TxIds |-> VendedRow(vended[t], known[t])]
  /\ refund = [r \in {} |-> Nobody]
  /\ handler = [h \in Handlers |-> NoApproval]
  /\ worker = [w \in Workers |-> NoRecoveryClaim]
  /\ outstanding = {}
  /\ refunded = [r \in RefundIds |-> "NONE"]
  /\ issued = 0
  /\ lapses = 0
  /\ crashes = 0
  /\ lapsed = {}
  /\ disordered = {}

\* What a handler does once it serves an approved refund.
HandlerStep(h) ==
  \/ ClaimRefundDispatch(h) \/ Replay(h)
  \/ SendRefund(h) \/ AnswerRefund(h) \/ RejectRefund(h) \/ TimeoutRefund(h)
  \/ AggregateRefundResult(h) \/ RecordRefundResult(h) \/ CompleteRefundDispatch(h)

\* What a worker does once it has a claim.
WorkerStep(w) ==
  \/ QueryRefundStatus(w) \/ RecoveryFails(w)
  \/ ApplyRefundRecoveryResult(w) \/ AggregateParent(w) \/ RecalculateRefundParent(w)
  \/ RecordRefundRecoveryFailure(w)

Next ==
  \/ \E u \in Requesters, t \in TxIds, r \in RefundIds, a \in Amounts : RequestRefund(u, t, r, a)
  \/ \E h \in Handlers :
       \/ \E r \in RefundIds : ApproveRefund(h, r) \/ ResumeRefund(h, r)
       \/ HandlerStep(h) \/ HandlerCrash(h)
  \/ \E w \in Workers :
       WorkerStep(w) \/ WorkerCrash(w) \/ \E r \in RefundIds : ClaimNextRefund(w, r)
  \/ \E t \in TxIds, v \in LateVends : RecordAndApplyWebhook(t, v) \/ LateVendResult(t, v)
  \/ \E r \in RefundIds :
       LeaseExpires(r) \/ RecoveryLeaseExpires(r) \/ ProviderReceives(r) \/ ProviderFinishes(r)

Spec == Init /\ [][Next]_vars

-----------------------------------------------------------------------------
(* Properties. *)

Paid(t) == {r \in RefundsOf(t) : refunded[r] = "COMPLETED"}

\* Whoever requests, approves, records or recovers refunds of one transaction at
\* the same time, what is not known to have failed never adds up to more than the
\* transaction (docs/PHASE3_IMPLEMENTATION.md, safety invariant 7).  The exception
\* is a dispatch whose lease ran out: see CumulativeReservation.
ReservationHolds ==
  \A t \in TxIds : RefundsOf(t) \cap lapsed = {} => Worth(Reserved(t)) <= Total[t]

\* Nor do the providers ever pay back more than the transaction: what the table
\* calls failed, and therefore lets somebody request again, is not paid.  The same
\* exception.
NotOverpaid ==
  \A t \in TxIds : RefundsOf(t) \cap lapsed = {} => Worth(Paid(t)) <= Total[t]

\* A transaction is called REFUNDED only when the providers have paid all of it
\* back, however late answers, stale aggregates and recoveries are interleaved.
RefundedIsPaid ==
  \A t \in TxIds : parent[t].status = "REFUNDED" => Worth(Paid(t)) >= Total[t]

\* The money of a vend that did not happen is not released for settlement before
\* it is paid back in full, unless a late answer made the vend look unfinished.
UnpaidIsHeld ==
  \A t \in TxIds \ disordered :
    NeedsFullRefund(vended[t]) /\ ~ parent[t].blocked => Worth(Paid(t)) >= Total[t]

\* No refund gets to a provider without two persons behind it, whoever resumed its
\* dispatch (safety invariant 6).
TwoPersons ==
  \A r \in RefundIds :
    refunded[r] # "NONE" \/ (\E h \in Handlers : <<r, h>> \in outstanding)
      => r \in Stored /\ refund[r].checker \notin {Nobody, refund[r].maker}

\* As long as its lease did not run out, a refund has at most one dispatcher.
SoleRefundDispatcher ==
  \A g, h \in Handlers :
    /\ handler[g].pc \in Dispatching /\ handler[h].pc \in Dispatching
    /\ handler[g].at = handler[h].at /\ handler[g].at \notin lapsed
    => g = h

\* The books as the tables keep them.
Entered ==
  [r \in Stored |-> [txn |-> refund[r].txn, amount |-> refund[r].amount,
                     maker |-> refund[r].maker, checker |-> refund[r].checker]]

Says(r) ==
  IF r \in Stored /\ refund[r].status = "COMPLETED" THEN "paid"
  ELSE IF r \in Stored /\ refund[r].status = "FAILED" THEN "failed" ELSE "open"

Told == [r \in RefundIds |-> Says(r)]
Closed == {t \in TxIds : parent[t].status = "REFUNDED"}

Ledger == INSTANCE RefundLedger WITH
  entered <- Entered, money <- refunded, outcome <- Told, doubtful <- lapsed, closed <- Closed

\* Whoever requests, approves, resumes, records and recovers: a refund is entered
\* within what is left, approved by another person, paid once; what the tables say of
\* it is true and final; and a transaction is shown as refunded only when it is.
LedgerIsKept == Ledger!Spec

\* A refund request leaves for the provider only while no outcome is recorded: a
\* refund that is PENDING or UNKNOWN is queried, never sent again (safety invariant
\* 9; docs/PHASE4_IMPLEMENTATION.md, safety invariant 2).  The same exception.
NoResubmission ==
  [][\A h \in Handlers :
       SendRefund(h) /\ handler[h].at \notin lapsed
         => refund[handler[h].at].status = "APPROVED"]_vars

\* A final outcome stays: no slower worker and no replayed approval rewinds it
\* (safety invariant 8).  The same exception.
FinalOutcomeStays ==
  [][\A r \in Stored \ lapsed :
       refund[r].status \in {"COMPLETED", "FAILED"} => refund'[r].status = refund[r].status]_vars

\* ReservationHolds without its exception.  docs/PHASE3_IMPLEMENTATION.md:18:
\* "Cumulative refund reservation prevents aggregate active/completed refunds from
\* exceeding the original transaction value."  It does not when a dispatch was
\* resumed under a slow handler: the second request is refused and recorded as
\* FAILED, its amount is requested again, and the first answer arrives.
CumulativeReservation ==
  \A t \in TxIds : Worth(Reserved(t)) <= Total[t]

Recovering(t) ==
  \E w \in Workers : worker[w].pc # "idle" /\ refund[worker[w].at].txn = t

Recording(t) ==
  \E h \in Handlers : handler[h].pc \in {"record", "commit"} /\ refund[handler[h].at].txn = t

\* When every refund of a transaction has come to its end and nobody is about to
\* write, the transaction's columns follow from its refunds.
\* docs/PHASE4_IMPLEMENTATION.md:33: the worker "recalculates the parent
\* transaction financial state after a terminal provider result".  It does so in a
\* database transaction of its own; when that one fails, nothing repeats it.
ParentRecalculated ==
  \A t \in TxIds :
    /\ RefundsOf(t) # {}
    /\ \A r \in RefundsOf(t) : refund[r].status \in {"COMPLETED", "FAILED"}
    /\ ~ Recovering(t) /\ ~ Recording(t)
    => parent[t] = WithColumns(parent[t], Recalculated(t, StatusOf))

=============================================================================
