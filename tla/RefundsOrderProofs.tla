------------------------- MODULE RefundsOrderProofs -------------------------
(***************************************************************************)
(* What Refunds promises about who sends a refund and how often, and about *)
(* outcomes that are final, for every number of transactions, refunds,     *)
(* users, handlers, workers, lapses and crashes.                           *)
(***************************************************************************)
EXTENDS RefundsProofs, FunctionTheorems

-----------------------------------------------------------------------------
(* Two persons. *)

Sent(r) == refunded[r] # "NONE" \/ \E h \in Handlers : <<r, h>> \in outstanding

\* A stored refund that has left the status REQUESTED.
Decided(r) == r \in Stored /\ refund[r].status # "REQUESTED"

\* Only what a second person has approved is handled, recovered or sent.
PersonsInv ==
  /\ \A r \in Stored : Decided(r) => refund[r].checker \notin {Nobody, refund[r].maker}
  /\ \A h \in Handlers : handler[h].pc # "idle" => Decided(handler[h].at)
  /\ \A w \in Workers : worker[w].pc # "idle" => Decided(worker[w].at)
  /\ \A r \in RefundIds : Sent(r) => Decided(r)

LEMMA PersonsInit == Init => PersonsInv
BY DEF Init, PersonsInv, Stored, Sent, NoApproval, NoRecoveryClaim

LEMMA PersonsSafe == PersonsInv => TwoPersons
BY DEF PersonsInv, TwoPersons, Sent, Decided

\* A step that approves nothing.
LEMMA PersonsKept ==
  ASSUME TypeInv, PersonsInv, Stored' = Stored,
         \A r \in Stored : /\ refund'[r].checker = refund[r].checker
                           /\ refund'[r].maker = refund[r].maker
                           /\ refund'[r].status = "REQUESTED" <=> refund[r].status = "REQUESTED",
         \A h \in Handlers : handler'[h].pc # "idle" => Decided(handler'[h].at),
         \A w \in Workers : worker'[w].pc # "idle" => Decided(worker'[w].at),
         \A r \in RefundIds : Sent(r)' => Decided(r)
  PROVE  PersonsInv'
<1>1. \A r : Decided(r)' <=> Decided(r)
  BY DEF Decided
<1> QED
  BY <1>1 DEF PersonsInv

\* The status of one refund is replaced, and nothing of its request or approval.
LEMMA StatusReplaced ==
  ASSUME TypeInv, NEW r \in Stored, NEW row \in RefundRow, Decided(r),
         row.checker = refund[r].checker, row.maker = refund[r].maker,
         row.status # "REQUESTED",
         refund' = [refund EXCEPT ![r] = row]
  PROVE  /\ Stored' = Stored
         /\ \A q \in Stored :
              /\ refund'[q].checker = refund[q].checker
              /\ refund'[q].maker = refund[q].maker
              /\ refund'[q].status = "REQUESTED" <=> refund[q].status = "REQUESTED"
BY DEF TypeInv, RefundsFine, Stored, Decided

LEMMA PersonsNext == TypeInv /\ TypeInv' /\ PersonsInv /\ [Next]_vars => PersonsInv'
<1> SUFFICES ASSUME TypeInv, TypeInv', PersonsInv, [Next]_vars PROVE PersonsInv'
  OBVIOUS
<1>t. /\ \A r \in Stored : r \in RefundIds /\ refund[r] \in RefundRow
      /\ handler \in [Handlers -> Approval]
      /\ worker \in [Workers -> Recovery]
      /\ refund \in [Stored -> RefundRow]
  BY DEF TypeInv, RefundsFine, HandlersFine, WorkersFine
<1>1. ASSUME NEW u \in Requesters, NEW t \in TxIds, NEW r \in RefundIds, NEW a \in Amounts,
             RequestRefund(u, t, r, a)
      PROVE  PersonsInv'
  <2>1. /\ Stored' = Stored \cup {r}
        /\ \A q \in Stored' : refund'[q] = IF q = r THEN RequestedRow(t, a, u) ELSE refund[q]
        /\ r \notin Stored
    BY <1>1 DEF RequestRefund, WithRefund, Stored
  <2>2. \A q : Decided(q)' <=> Decided(q)
    BY <2>1 DEF Decided, RequestedRow
  <2>3. UNCHANGED <<handler, worker, refunded, outstanding>>
    BY <1>1 DEF RequestRefund, provider
  <2> QED
    BY <2>1, <2>2, <2>3 DEF PersonsInv, Sent, Decided
<1>2. ASSUME NEW h \in Handlers, NEW r \in RefundIds, ApproveRefund(h, r)
      PROVE  PersonsInv'
  <2>1. /\ r \in Stored
        /\ refund[r].maker # UserOf[h] /\ UserOf[h] # Nobody
        /\ UNCHANGED <<worker, refunded, outstanding>>
    BY <1>2, UsersAssumption DEF ApproveRefund, MayApprove, provider
  <2>2. /\ Stored' = Stored
        /\ refund'[r].status = "APPROVED"
        /\ refund'[r].checker = UserOf[h]
        /\ refund'[r].maker = refund[r].maker
        /\ \A q \in Stored : q # r => refund'[q] = refund[q]
    BY <1>2, <1>t, <2>1 DEF ApproveRefund, Stored, RefundRow
  <2>3. \A q : Decided(q)' <=> Decided(q) \/ q = r
    BY <2>1, <2>2 DEF Decided
  <2>4. \A g \in Handlers :
          handler'[g].pc # "idle" => Decided(handler'[g].at) \/ handler'[g].at = r
    BY <1>2, <1>t DEF ApproveRefund, Serve, PersonsInv, NoApproval
  <2>5. (\A q \in Stored : Decided(q) => refund[q].checker \notin {Nobody, refund[q].maker})'
    BY <2>1, <2>2, <2>3 DEF PersonsInv
  <2>6. (\A g \in Handlers : handler[g].pc # "idle" => Decided(handler[g].at))'
    BY <2>1, <2>2, <2>4 DEF Decided
  <2>7. (\A w \in Workers : worker[w].pc # "idle" => Decided(worker[w].at))'
    BY <2>1, <2>2 DEF PersonsInv, Decided
  <2>8. (\A q \in RefundIds : Sent(q) => Decided(q))'
    <3>1. \A q : Sent(q)' <=> Sent(q)
      BY <2>1 DEF Sent
    <3> QED
      BY <2>3, <3>1 DEF PersonsInv
  <2> QED
    BY <2>5, <2>6, <2>7, <2>8 DEF PersonsInv
<1>3. ASSUME NEW h \in Handlers, NEW r \in RefundIds, ResumeRefund(h, r)
      PROVE  PersonsInv'
  <2>1. Decided(r) /\ UNCHANGED <<refund, worker, refunded, outstanding>>
    BY <1>3 DEF ResumeRefund, Decided, provider
  <2>2. \A g \in Handlers : handler'[g].pc # "idle" => Decided(handler'[g].at)
    BY <1>3, <1>t, <2>1 DEF ResumeRefund, Serve, PersonsInv, NoApproval
  <2> QED
    BY <2>1, <2>2, PersonsKept DEF PersonsInv, Sent, Stored
<1>4. ASSUME NEW h \in Handlers, HandlerStep(h) \/ HandlerCrash(h)
      PROVE  /\ handler[h].pc # "idle"
             /\ UNCHANGED worker
             /\ \A g \in Handlers :
                  handler'[g].pc # "idle" => handler[g].pc # "idle" /\ handler'[g].at = handler[g].at
             /\ \A r \in RefundIds : Sent(r)' => Sent(r) \/ r = handler[h].at
  <2>1. /\ handler[h].pc # "idle"
        /\ UNCHANGED <<worker, refunded>>
        /\ outstanding' \subseteq outstanding \cup {<<handler[h].at, h>>}
    BY <1>4
    DEF HandlerStep, HandlerCrash, ClaimRefundDispatch, Replay, SendRefund, AnswerRefund,
        RejectRefund, TimeoutRefund, AggregateRefundResult, RecordRefundResult,
        CompleteRefundDispatch, provider
  <2>2. \A g \in Handlers : g # h => handler'[g] = handler[g]
    BY <1>4, <1>t
    DEF HandlerStep, HandlerCrash, ClaimRefundDispatch, Replay, SendRefund, AnswerRefund,
        RejectRefund, TimeoutRefund, AggregateRefundResult, RecordRefundResult,
        CompleteRefundDispatch, Goto, Leave, GotResult
  <2>3. handler'[h] = NoApproval \/ handler'[h].at = handler[h].at
    <3>1. handler[h] \in Approval /\ handler \in [Handlers -> Approval]
      BY <1>t DEF TypeOK
    <3>2. CASE ClaimRefundDispatch(h) \/ AggregateRefundResult(h) \/ RecordRefundResult(h)
      BY <3>1, <3>2
      DEF ClaimRefundDispatch, AggregateRefundResult, RecordRefundResult, Goto, Approval
    <3>3. CASE SendRefund(h) \/ AnswerRefund(h) \/ RejectRefund(h) \/ TimeoutRefund(h)
      BY <3>1, <3>3
      DEF SendRefund, AnswerRefund, RejectRefund, TimeoutRefund, Goto, GotResult, Approval
    <3>4. CASE Replay(h) \/ CompleteRefundDispatch(h) \/ HandlerCrash(h)
      BY <3>1, <3>4 DEF Replay, CompleteRefundDispatch, HandlerCrash, Leave
    <3> QED
      BY <1>4, <3>2, <3>3, <3>4 DEF HandlerStep
  <2>4. ASSUME NEW r \in RefundIds, Sent(r)', ~ Sent(r) PROVE r = handler[h].at
    <3>1. PICK g \in Handlers : <<r, g>> \in outstanding' /\ <<r, g>> \notin outstanding
      BY <2>1, <2>4 DEF Sent
    <3> QED
      BY <2>1, <3>1
  <2>5. \A g \in Handlers :
          handler'[g].pc # "idle" => handler[g].pc # "idle" /\ handler'[g].at = handler[g].at
    BY <2>1, <2>2, <2>3 DEF NoApproval
  <2> QED
    BY <2>1, <2>4, <2>5
<1>5. ASSUME NEW h \in Handlers, HandlerStep(h) \/ HandlerCrash(h), Decided(handler[h].at)
      PROVE  /\ Stored' = Stored
             /\ \A q \in Stored :
                  /\ refund'[q].checker = refund[q].checker
                  /\ refund'[q].maker = refund[q].maker
                  /\ refund'[q].status = "REQUESTED" <=> refund[q].status = "REQUESTED"
  <2> DEFINE r == handler[h].at
  <2>1. r \in Stored /\ refund[r] \in RefundRow /\ handler[h] \in Approval
    BY <1>5, <1>t DEF Decided
  <2>2. CASE UNCHANGED refund
    BY <2>2 DEF Stored
  <2>3. CASE ClaimRefundDispatch(h) \/ CompleteRefundDispatch(h)
    BY <1>t, <2>1, <2>3
    DEF ClaimRefundDispatch, CompleteRefundDispatch, Stored, RefundRow
  <2>4. CASE RecordRefundResult(h)
    <3>1. handler[h].result.status # "REQUESTED"
      BY <2>1 DEF Approval, Result, Outcome
    <3> QED
      BY <1>5, <1>t, <2>1, <2>4, <3>1 DEF RecordRefundResult, Stored, RefundRow, Decided
  <2> QED
    BY <1>5, <2>2, <2>3, <2>4
    DEF HandlerStep, HandlerCrash, Replay, SendRefund, AnswerRefund, RejectRefund,
        TimeoutRefund, AggregateRefundResult
<1>6. ASSUME NEW h \in Handlers, HandlerStep(h) \/ HandlerCrash(h) PROVE PersonsInv'
  <2>1. Decided(handler[h].at)
    BY <1>4, <1>6 DEF PersonsInv
  <2>2. \A g \in Handlers : handler'[g].pc # "idle" => Decided(handler'[g].at)
    BY <1>4, <1>6 DEF PersonsInv
  <2>3. \A w \in Workers : worker'[w].pc # "idle" => Decided(worker'[w].at)
    BY <1>4, <1>6 DEF PersonsInv
  <2>4. \A r \in RefundIds : Sent(r)' => Decided(r)
    BY <1>4, <1>6, <2>1 DEF PersonsInv
  <2> QED
    BY <1>5, <1>6, <2>1, <2>2, <2>3, <2>4, PersonsKept
<1>7. ASSUME NEW w \in Workers, NEW r \in RefundIds, ClaimNextRefund(w, r) PROVE PersonsInv'
  <2>1. Decided(r) /\ UNCHANGED <<handler, refunded, outstanding>>
    BY <1>7 DEF ClaimNextRefund, Recoverable, Decided, provider
  <2>2. \A x \in Workers : worker'[x].pc # "idle" => Decided(worker'[x].at)
    BY <1>7, <1>t, <2>1 DEF ClaimNextRefund, Holds, PersonsInv, NoRecoveryClaim
  <2>3. /\ Stored' = Stored
        /\ \A q \in Stored :
             /\ refund'[q].checker = refund[q].checker
             /\ refund'[q].maker = refund[q].maker
             /\ refund'[q].status = "REQUESTED" <=> refund[q].status = "REQUESTED"
    BY <1>7, <1>t, <2>1 DEF ClaimNextRefund, Stored, RefundRow
  <2> QED
    BY <2>1, <2>2, <2>3, PersonsKept DEF PersonsInv, Sent
<1>8. ASSUME NEW w \in Workers, WorkerStep(w) \/ WorkerCrash(w) PROVE PersonsInv'
  <2> DEFINE r == worker[w].at
  <2>1. worker[w].pc # "idle" /\ UNCHANGED <<handler, refunded, outstanding>>
    BY <1>8
    DEF WorkerStep, WorkerCrash, QueryRefundStatus, RecoveryFails, ApplyRefundRecoveryResult,
        AggregateParent, RecalculateRefundParent, RecordRefundRecoveryFailure, provider
  <2>2. \A x \in Workers : x # w => worker'[x] = worker[x]
    BY <1>8, <1>t
    DEF WorkerStep, WorkerCrash, QueryRefundStatus, RecoveryFails, ApplyRefundRecoveryResult,
        AggregateParent, RecalculateRefundParent, RecordRefundRecoveryFailure, Holds, Idle
  <2>3. worker'[w] = NoRecoveryClaim \/ worker'[w].at = r
    <3>1. CASE QueryRefundStatus(w) \/ AggregateParent(w)
      BY <1>t, <3>1 DEF QueryRefundStatus, AggregateParent, Recovery
    <3>2. ASSUME NEW where, Holds(w, where, r, worker[w].token) PROVE worker'[w].at = r
      BY <1>t, <3>2 DEF Holds, NoRecoveryClaim
    <3>3. ASSUME Idle(w) PROVE worker'[w] = NoRecoveryClaim
      BY <1>t, <3>3 DEF Idle
    <3> QED
      BY <1>8, <3>1, <3>2, <3>3
      DEF WorkerStep, WorkerCrash, RecoveryFails, ApplyRefundRecoveryResult,
          RecalculateRefundParent, RecordRefundRecoveryFailure
  <2>4. Decided(r)
    BY <2>1 DEF PersonsInv
  <2>5. \A x \in Workers : worker'[x].pc # "idle" => Decided(worker'[x].at)
    BY <2>2, <2>3, <2>4 DEF PersonsInv, NoRecoveryClaim
  <2>6. /\ Stored' = Stored
        /\ \A q \in Stored :
             /\ refund'[q].checker = refund[q].checker
             /\ refund'[q].maker = refund[q].maker
             /\ refund'[q].status = "REQUESTED" <=> refund[q].status = "REQUESTED"
    <3>1. CASE UNCHANGED refund
      BY <3>1 DEF Stored
    <3>2. CASE ApplyRefundRecoveryResult(w) /\ OwnsLease(w)
      <4>1. worker[w].answer # "REQUESTED"
        BY <1>t DEF Recovery, Outcome
      <4> QED
        BY <1>t, <2>4, <3>2, <4>1 DEF ApplyRefundRecoveryResult, Stored, RefundRow, Decided
    <3>3. CASE RecordRefundRecoveryFailure(w) /\ OwnsLease(w)
      BY <1>t, <2>4, <3>3 DEF RecordRefundRecoveryFailure, Stored, RefundRow, Decided
    <3> QED
      BY <1>8, <3>1, <3>2, <3>3
      DEF WorkerStep, WorkerCrash, QueryRefundStatus, RecoveryFails, ApplyRefundRecoveryResult,
          AggregateParent, RecalculateRefundParent, RecordRefundRecoveryFailure
  <2> QED
    BY <2>1, <2>5, <2>6, PersonsKept DEF PersonsInv, Sent
<1>9. ASSUME NEW r \in RefundIds, LeaseExpires(r) \/ RecoveryLeaseExpires(r) PROVE PersonsInv'
  <2>1. UNCHANGED <<handler, worker, refunded, outstanding>>
    BY <1>9 DEF LeaseExpires, RecoveryLeaseExpires, provider
  <2>2. /\ Stored' = Stored
        /\ \A q \in Stored :
             /\ refund'[q].checker = refund[q].checker
             /\ refund'[q].maker = refund[q].maker
             /\ refund'[q].status = "REQUESTED" <=> refund[q].status = "REQUESTED"
    BY <1>9, <1>t DEF LeaseExpires, RecoveryLeaseExpires, Stored, RefundRow
  <2> QED
    BY <2>1, <2>2, PersonsKept DEF PersonsInv, Sent
<1>10. ASSUME UNCHANGED <<refund, handler, worker>>, \A r \in RefundIds : Sent(r)' => Sent(r)
       PROVE  PersonsInv'
  BY <1>10, PersonsKept DEF PersonsInv, Stored
<1>11. ASSUME NEW t \in TxIds, NEW v \in LateVends,
              RecordAndApplyWebhook(t, v) \/ LateVendResult(t, v)
       PROVE  PersonsInv'
  BY <1>10, <1>11 DEF RecordAndApplyWebhook, LateVendResult, Sent, provider
<1>12. ASSUME NEW r \in RefundIds, ProviderReceives(r) \/ ProviderFinishes(r) PROVE PersonsInv'
  <2>1. \A q \in RefundIds : Sent(q)' => Sent(q)
    BY <1>12 DEF ProviderReceives, ProviderFinishes, Sent, TypeInv, ProviderFine
  <2> QED
    BY <1>10, <1>12, <2>1 DEF ProviderReceives, ProviderFinishes
<1>13. CASE UNCHANGED vars
  BY <1>10, <1>13 DEF vars, Sent
<1> QED
  BY <1>1, <1>2, <1>3, <1>6, <1>7, <1>8, <1>9, <1>11, <1>12, <1>13 DEF Next

\* No refund reaches a provider that one person requested and approved
\* (approveRefund's guards, and the claim that only approved refunds pass).
THEOREM TwoPersonsCorrect == Spec => []TwoPersons
<1>1. Init => TypeInv /\ PersonsInv
  BY TypeInit, PersonsInit
<1>2. TypeInv /\ PersonsInv /\ [Next]_vars => (TypeInv /\ PersonsInv)'
  BY TypeNext, PersonsNext
<1> QED
  BY <1>1, <1>2, PersonsSafe, PTL DEF Spec

-----------------------------------------------------------------------------
(* One dispatcher, and outcomes that stay. *)

Undecided == Dispatching \ {"complete"}

\* Unless its lease ran out, a refund that is being dispatched has a live lease and
\* is APPROVED until its result is recorded; and it is recovered only while its
\* outcome is open.
LeaseInv ==
  /\ SoleRefundDispatcher
  /\ \A h \in Handlers :
       handler[h].pc \in Dispatching /\ handler[h].at \notin lapsed
         => /\ refund[handler[h].at].dispatch = "DISPATCHING"
            /\ refund[handler[h].at].lease = "live"
  /\ \A h \in Handlers :
       handler[h].pc \in Undecided /\ handler[h].at \notin lapsed
         => refund[handler[h].at].status = "APPROVED"
  /\ \A r \in Stored \ lapsed :
       refund[r].recovery.token # 0 => refund[r].status \in {"PENDING", "UNKNOWN"}

LEMMA LeaseInit == Init => LeaseInv
BY DEF Init, LeaseInv, SoleRefundDispatcher, Stored, NoApproval, Dispatching, Undecided

\* Nobody begins to dispatch.
Following ==
  \A h \in Handlers :
    handler'[h].pc \in Dispatching
      => /\ handler[h].pc \in Dispatching
         /\ handler'[h].at = handler[h].at
         /\ handler'[h].pc \in Undecided => handler[h].pc \in Undecided

LEMMA LeaseKept ==
  ASSUME LeaseInv, Following, lapsed \subseteq lapsed',
         \A h \in Handlers :
           handler'[h].pc \in Dispatching /\ handler'[h].at \notin lapsed'
             => /\ refund'[handler'[h].at].dispatch = refund[handler'[h].at].dispatch
                /\ refund'[handler'[h].at].lease = refund[handler'[h].at].lease,
         \A h \in Handlers :
           handler'[h].pc \in Undecided /\ handler'[h].at \notin lapsed'
             => refund'[handler'[h].at].status = refund[handler'[h].at].status,
         \A r \in Stored' \ lapsed' :
           refund'[r].recovery.token # 0 => refund'[r].status \in {"PENDING", "UNKNOWN"}
  PROVE  LeaseInv'
<1>1. SoleRefundDispatcher'
  BY DEF LeaseInv, SoleRefundDispatcher, Following
<1>2. Undecided \subseteq Dispatching
  BY DEF Undecided
<1> QED
  BY <1>1, <1>2 DEF LeaseInv, Following

\* The refunds stay as they are.
LEMMA LeaseKeptByHandlers ==
  ASSUME LeaseInv, Following, UNCHANGED <<refund, lapsed>>
  PROVE  LeaseInv'
BY LeaseKept DEF LeaseInv, Stored

LEMMA LeaseNext == TypeInv /\ TypeInv' /\ LeaseInv /\ [Next]_vars => LeaseInv'
<1> SUFFICES ASSUME TypeInv, TypeInv', LeaseInv, [Next]_vars PROVE LeaseInv'
  OBVIOUS
<1>t. /\ \A r \in Stored : refund[r] \in RefundRow
      /\ handler \in [Handlers -> Approval]
      /\ worker \in [Workers -> Recovery]
      /\ refund \in [Stored -> RefundRow]
      /\ lapsed \subseteq Stored
  BY DEF TypeInv, RefundsFine, HandlersFine, WorkersFine, RestFine
<1>h. \A h \in Handlers : handler[h].pc \in Dispatching => handler[h].at \in Stored
  BY DEF TypeInv, HandlersFine, Dispatching
<1>s. UNCHANGED handler => Following
  BY DEF Following
<1>1. ASSUME NEW u \in Requesters, NEW t \in TxIds, NEW r \in RefundIds, NEW a \in Amounts,
             RequestRefund(u, t, r, a)
      PROVE  LeaseInv'
  <2>1. /\ Stored' = Stored \cup {r}
        /\ \A q \in Stored' : refund'[q] = IF q = r THEN RequestedRow(t, a, u) ELSE refund[q]
        /\ r \notin Stored
        /\ UNCHANGED <<handler, lapsed>>
    BY <1>1 DEF RequestRefund, WithRefund, Stored
  <2>2. \A h \in Handlers :
          handler'[h].pc \in Dispatching => refund'[handler'[h].at] = refund[handler'[h].at]
    BY <1>h, <2>1
  <2>3. \A q \in Stored' \ lapsed' :
          refund'[q].recovery.token # 0 => refund'[q].status \in {"PENDING", "UNKNOWN"}
    BY <2>1 DEF LeaseInv, RequestedRow
  <2>4. \A h \in Handlers : handler'[h].pc \in Undecided => handler'[h].pc \in Dispatching
    BY DEF Undecided
  <2> QED
    BY <1>s, <2>1, <2>2, <2>3, <2>4, LeaseKept
<1>2. ASSUME NEW h \in Handlers, NEW r \in RefundIds, ApproveRefund(h, r) PROVE LeaseInv'
  <2>1. Following
    BY <1>2, <1>t DEF ApproveRefund, Serve, NoApproval, Following, Dispatching
  <2>2. /\ r \in Stored /\ refund[r].status = "REQUESTED"
        /\ UNCHANGED lapsed
    BY <1>2 DEF ApproveRefund, MayApprove
  <2>3. /\ Stored' = Stored
        /\ \A q \in Stored : /\ refund'[q].dispatch = refund[q].dispatch
                             /\ refund'[q].lease = refund[q].lease
                             /\ refund'[q].recovery = refund[q].recovery
                             /\ q # r => refund'[q].status = refund[q].status
    BY <1>2, <1>t, <2>2 DEF ApproveRefund, Stored, RefundRow
  <2>4. \A g \in Handlers :
          handler'[g].pc \in Undecided /\ handler'[g].at \notin lapsed'
            => handler'[g].at # r /\ handler'[g].at \in Stored
    BY <1>h, <2>1, <2>2 DEF LeaseInv, Following, Undecided
  <2>5. \A q \in Stored' \ lapsed' :
          refund'[q].recovery.token # 0 => refund'[q].status \in {"PENDING", "UNKNOWN"}
    BY <2>2, <2>3 DEF LeaseInv
  <2>6. \A g \in Handlers : handler'[g].pc \in Dispatching => handler'[g].at \in Stored
    BY <1>h, <2>1 DEF Following
  <2> QED
    BY <2>1, <2>2, <2>3, <2>4, <2>5, <2>6, LeaseKept
<1>3. ASSUME NEW h \in Handlers, NEW r \in RefundIds, ResumeRefund(h, r) PROVE LeaseInv'
  <2>1. Following
    BY <1>3, <1>t DEF ResumeRefund, Serve, NoApproval, Following, Dispatching
  <2> QED
    BY <1>3, <2>1, LeaseKeptByHandlers DEF ResumeRefund
<1>4. ASSUME NEW h \in Handlers, ClaimRefundDispatch(h) PROVE LeaseInv'
  <2> DEFINE r == handler[h].at
  <2>1. /\ r \in Stored
        /\ refund[r].status = "APPROVED"
        /\ refund[r].dispatch # "DISPATCHING" \/ refund[r].lease # "live"
        /\ UNCHANGED lapsed
    BY <1>4 DEF ClaimRefundDispatch, TypeInv, HandlersFine, Claimable, LeaseIsFree
  <2>2. /\ Stored' = Stored
        /\ refund'[r].dispatch = "DISPATCHING" /\ refund'[r].lease = "live"
        /\ \A q \in Stored : /\ refund'[q].recovery = refund[q].recovery
                             /\ refund'[q].status = refund[q].status
                             /\ q # r => refund'[q] = refund[q]
    BY <1>4, <1>t, <2>1 DEF ClaimRefundDispatch, Stored, RefundRow
  <2>3. /\ handler'[h].at = r
        /\ \A g \in Handlers : g # h => handler'[g] = handler[g]
    BY <1>4, <1>t DEF ClaimRefundDispatch, Goto, Approval
  <2>4. r \in lapsed \/ \A g \in Handlers : handler[g].pc \in Dispatching => handler[g].at # r
    BY <2>1 DEF LeaseInv
  <2>5. SoleRefundDispatcher'
    BY <2>1, <2>3, <2>4 DEF LeaseInv, SoleRefundDispatcher
  <2>6. \A g \in Handlers :
          handler'[g].pc \in Dispatching /\ handler'[g].at \notin lapsed'
            => /\ refund'[handler'[g].at].dispatch = "DISPATCHING"
               /\ refund'[handler'[g].at].lease = "live"
    BY <1>h, <2>1, <2>2, <2>3 DEF LeaseInv
  <2>7. \A g \in Handlers :
          handler'[g].pc \in Undecided /\ handler'[g].at \notin lapsed'
            => refund'[handler'[g].at].status = "APPROVED"
    BY <1>h, <2>1, <2>2, <2>3 DEF LeaseInv, Undecided
  <2>8. \A q \in Stored' \ lapsed' :
          refund'[q].recovery.token # 0 => refund'[q].status \in {"PENDING", "UNKNOWN"}
    BY <2>1, <2>2 DEF LeaseInv
  <2> QED
    BY <2>5, <2>6, <2>7, <2>8 DEF LeaseInv
<1>5. ASSUME NEW h \in Handlers,
             Replay(h) \/ SendRefund(h) \/ AnswerRefund(h) \/ RejectRefund(h) \/ TimeoutRefund(h)
               \/ AggregateRefundResult(h) \/ HandlerCrash(h)
      PROVE  LeaseInv'
  <2>1. UNCHANGED <<refund, lapsed>>
    BY <1>5 DEF Replay, SendRefund, AnswerRefund, RejectRefund, TimeoutRefund,
                AggregateRefundResult, HandlerCrash
  <2>2. \A g \in Handlers : g # h => handler'[g] = handler[g]
    BY <1>5, <1>t DEF Replay, SendRefund, AnswerRefund, RejectRefund, TimeoutRefund,
                      AggregateRefundResult, HandlerCrash, Goto, Leave, GotResult
  <2>3. CASE Replay(h) \/ HandlerCrash(h)
    <3>1. handler'[h] = NoApproval
      BY <1>t, <2>3 DEF Replay, HandlerCrash, Leave
    <3> QED
      BY <2>1, <2>2, <3>1, LeaseKeptByHandlers DEF Following, NoApproval, Dispatching
  <2>4. CASE ~ Replay(h) /\ ~ HandlerCrash(h)
    <3>1. handler[h].pc \in Undecided /\ handler[h].pc \in Dispatching
      BY <1>5, <2>4 DEF SendRefund, AnswerRefund, RejectRefund, TimeoutRefund,
                        AggregateRefundResult, Undecided, Dispatching
    <3>2. handler'[h].at = handler[h].at
      BY <1>5, <1>t, <2>4 DEF SendRefund, AnswerRefund, RejectRefund, TimeoutRefund,
                        AggregateRefundResult, Goto, GotResult, Approval
    <3> QED
      BY <2>1, <2>2, <3>1, <3>2, LeaseKeptByHandlers DEF Following
  <2> QED
    BY <2>3, <2>4
<1>6. ASSUME NEW h \in Handlers, RecordRefundResult(h) PROVE LeaseInv'
  <2> DEFINE r == handler[h].at
  <2>1. /\ r \in Stored /\ UNCHANGED lapsed
        /\ handler[h].pc = "commit"
    BY <1>6 DEF RecordRefundResult, TypeInv, HandlersFine
  <2>2. /\ handler'[h].at = r /\ handler'[h].pc = "complete"
        /\ \A g \in Handlers : g # h => handler'[g] = handler[g]
    BY <1>6, <1>t DEF RecordRefundResult, Approval
  <2>3. Following
    BY <2>1, <2>2 DEF Following, Dispatching, Undecided
  <2>4. /\ Stored' = Stored
        /\ \A q \in Stored : /\ refund'[q].recovery = refund[q].recovery
                             /\ refund'[q].dispatch = refund[q].dispatch
                             /\ refund'[q].lease = refund[q].lease
                             /\ q # r => refund'[q] = refund[q]
    BY <1>6, <1>t, <2>1 DEF RecordRefundResult, Stored, RefundRow
  <2>5. \A g \in Handlers :
          handler'[g].pc \in Undecided /\ handler'[g].at \notin lapsed' => handler'[g].at # r
    BY <2>1, <2>2 DEF LeaseInv, SoleRefundDispatcher, Undecided, Dispatching
  <2>6. r \in lapsed \/ refund[r].status = "APPROVED"
    BY <2>1 DEF LeaseInv, Undecided, Dispatching
  <2>7. \A q \in Stored' \ lapsed' :
          refund'[q].recovery.token # 0 => refund'[q].status \in {"PENDING", "UNKNOWN"}
    BY <2>1, <2>4, <2>6 DEF LeaseInv
  <2>8. \A g \in Handlers : handler'[g].pc \in Dispatching => handler'[g].at \in Stored
    BY <1>h, <2>3 DEF Following
  <2>9. \A g \in Handlers : handler'[g].pc \in Undecided => handler'[g].pc \in Dispatching
    BY DEF Undecided
  <2> QED
    BY <2>1, <2>3, <2>4, <2>5, <2>7, <2>8, <2>9, LeaseKept
<1>7. ASSUME NEW h \in Handlers, CompleteRefundDispatch(h) PROVE LeaseInv'
  <2> DEFINE r == handler[h].at
  <2>1. /\ r \in Stored /\ UNCHANGED lapsed
        /\ handler[h].pc = "complete"
    BY <1>7 DEF CompleteRefundDispatch, TypeInv, HandlersFine
  <2>2. /\ handler'[h].pc = "idle"
        /\ \A g \in Handlers : g # h => handler'[g] = handler[g]
    BY <1>7, <1>t DEF CompleteRefundDispatch, Leave, NoApproval
  <2>3. Following
    BY <2>1, <2>2 DEF Following, Dispatching
  <2>4. /\ Stored' = Stored
        /\ \A q \in Stored : /\ refund'[q].recovery = refund[q].recovery
                             /\ refund'[q].status = refund[q].status
                             /\ q # r => refund'[q] = refund[q]
    BY <1>7, <1>t, <2>1 DEF CompleteRefundDispatch, Stored, RefundRow
  <2>5. \A g \in Handlers :
          handler'[g].pc \in Dispatching /\ handler'[g].at \notin lapsed' => handler'[g].at # r
    BY <2>1, <2>2 DEF LeaseInv, SoleRefundDispatcher, Dispatching
  <2>6. \A q \in Stored' \ lapsed' :
          refund'[q].recovery.token # 0 => refund'[q].status \in {"PENDING", "UNKNOWN"}
    BY <2>1, <2>4 DEF LeaseInv
  <2>7. \A g \in Handlers : handler'[g].pc \in Dispatching => handler'[g].at \in Stored
    BY <1>h, <2>3 DEF Following
  <2>8. \A g \in Handlers : handler'[g].pc \in Undecided => handler'[g].pc \in Dispatching
    BY DEF Undecided
  <2> QED
    BY <2>1, <2>3, <2>4, <2>5, <2>6, <2>7, <2>8, LeaseKept
<1>8. ASSUME UNCHANGED <<handler, lapsed>>, Stored' = Stored, NEW r \in Stored,
             \A q \in Stored : /\ refund'[q].dispatch = refund[q].dispatch
                               /\ refund'[q].lease = refund[q].lease
                               /\ q # r => refund'[q] = refund[q],
             \/ refund'[r].status = refund[r].status
             \/ refund[r].status # "APPROVED",
             refund'[r].recovery.token # 0 => refund'[r].status \in {"PENDING", "UNKNOWN"}
      PROVE  LeaseInv'
  <2>1. \A g \in Handlers :
          handler'[g].pc \in Undecided /\ handler'[g].at \notin lapsed'
            => refund'[handler'[g].at].status = refund[handler'[g].at].status
    BY <1>8, <1>h DEF LeaseInv, Undecided
  <2>2. \A q \in Stored' \ lapsed' :
          refund'[q].recovery.token # 0 => refund'[q].status \in {"PENDING", "UNKNOWN"}
    BY <1>8 DEF LeaseInv
  <2> QED
    BY <1>8, <1>h, <1>s, <2>1, <2>2, LeaseKept
<1>9. ASSUME NEW w \in Workers, NEW r \in RefundIds, ClaimNextRefund(w, r) PROVE LeaseInv'
  <2>1. r \in Stored /\ refund[r].status \in {"PENDING", "UNKNOWN"} /\ UNCHANGED <<handler, lapsed>>
    BY <1>9 DEF ClaimNextRefund, Recoverable
  <2>2. /\ Stored' = Stored
        /\ \A q \in Stored : /\ refund'[q].dispatch = refund[q].dispatch
                             /\ refund'[q].lease = refund[q].lease
                             /\ refund'[q].status = refund[q].status
                             /\ q # r => refund'[q] = refund[q]
    BY <1>9, <1>t, <2>1 DEF ClaimNextRefund, Stored, RefundRow
  <2> QED
    BY <1>8, <2>1, <2>2
<1>10. ASSUME NEW w \in Workers,
              ApplyRefundRecoveryResult(w) \/ RecordRefundRecoveryFailure(w), OwnsLease(w)
       PROVE  LeaseInv'
  <2> DEFINE r == worker[w].at
  <2>1. r \in Stored /\ refund[r].recovery.token # 0 /\ UNCHANGED <<handler, lapsed>>
    BY <1>10 DEF ApplyRefundRecoveryResult, RecordRefundRecoveryFailure, OwnsLease, TypeInv,
                 WorkersFine
  <2>2. /\ Stored' = Stored
        /\ refund'[r].recovery.token = 0
        /\ \A q \in Stored : /\ refund'[q].dispatch = refund[q].dispatch
                             /\ refund'[q].lease = refund[q].lease
                             /\ q # r => refund'[q] = refund[q]
    <3> DEFINE columns == Released(refund[r].recovery)
    <3>1. PICK s : refund' = [refund EXCEPT ![r].status = s, ![r].recovery = columns]
      BY <1>10 DEF ApplyRefundRecoveryResult, RecordRefundRecoveryFailure
    <3>2. columns.token = 0
      BY <1>t, <2>1, RecoveryColumnsSteps DEF RefundRow
    <3> HIDE DEF columns
    <3> QED
      BY <1>t, <2>1, <3>1, <3>2 DEF Stored, RefundRow
  <2>3. CASE r \in lapsed
    <3>1. \A g \in Handlers :
            handler'[g].pc \in Undecided /\ handler'[g].at \notin lapsed' => handler'[g].at # r
      BY <2>1, <2>3
    <3>2. \A q \in Stored' \ lapsed' :
            refund'[q].recovery.token # 0 => refund'[q].status \in {"PENDING", "UNKNOWN"}
      BY <2>1, <2>2, <2>3 DEF LeaseInv
    <3>3. \A g \in Handlers : handler'[g].pc \in Undecided => handler'[g].pc \in Dispatching
      BY DEF Undecided
    <3> QED
      BY <1>h, <1>s, <2>1, <2>2, <3>1, <3>2, <3>3, LeaseKept
  <2>4. CASE r \notin lapsed
    <3>1. refund[r].status # "APPROVED"
      BY <2>1, <2>4 DEF LeaseInv
    <3> QED
      BY <1>8, <2>1, <2>2, <3>1
  <2> QED
    BY <2>3, <2>4
<1>11. ASSUME UNCHANGED <<refund, handler, lapsed>> PROVE LeaseInv'
  BY <1>11, <1>s, LeaseKeptByHandlers
<1>12. ASSUME NEW w \in Workers, WorkerStep(w) \/ WorkerCrash(w) PROVE LeaseInv'
  BY <1>10, <1>11, <1>12
  DEF WorkerStep, WorkerCrash, QueryRefundStatus, RecoveryFails, ApplyRefundRecoveryResult,
      AggregateParent, RecalculateRefundParent, RecordRefundRecoveryFailure
<1>13. ASSUME NEW t \in TxIds, NEW v \in LateVends,
              RecordAndApplyWebhook(t, v) \/ LateVendResult(t, v)
       PROVE  LeaseInv'
  BY <1>11, <1>13 DEF RecordAndApplyWebhook, LateVendResult
<1>14. ASSUME NEW r \in RefundIds, LeaseExpires(r) PROVE LeaseInv'
  <2>1. r \in Stored /\ UNCHANGED handler /\ lapsed' = lapsed \cup {r}
    BY <1>14 DEF LeaseExpires
  <2>2. Stored' = Stored /\ \A q \in Stored : q # r => refund'[q] = refund[q]
    BY <1>14, <1>t, <2>1 DEF LeaseExpires, Stored
  <2>3. \A q \in Stored' \ lapsed' :
          refund'[q].recovery.token # 0 => refund'[q].status \in {"PENDING", "UNKNOWN"}
    BY <2>1, <2>2 DEF LeaseInv
  <2>4. \A g \in Handlers : handler'[g].pc \in Undecided => handler'[g].pc \in Dispatching
    BY DEF Undecided
  <2> QED
    BY <1>h, <1>s, <2>1, <2>2, <2>3, <2>4, LeaseKept
<1>15. ASSUME NEW r \in RefundIds, RecoveryLeaseExpires(r) PROVE LeaseInv'
  <2>1. r \in Stored /\ UNCHANGED <<handler, lapsed>>
    BY <1>15 DEF RecoveryLeaseExpires
  <2>2. /\ Stored' = Stored
        /\ \A q \in Stored : /\ refund'[q].dispatch = refund[q].dispatch
                             /\ refund'[q].lease = refund[q].lease
                             /\ refund'[q].status = refund[q].status
                             /\ refund'[q].recovery.token = refund[q].recovery.token
                             /\ q # r => refund'[q] = refund[q]
    BY <1>15, <1>t, <2>1 DEF RecoveryLeaseExpires, Stored, RefundRow, RefundRecovery
  <2>3. \A g \in Handlers : handler'[g].pc \in Undecided => handler'[g].pc \in Dispatching
    BY DEF Undecided
  <2>4. \A q \in Stored' \ lapsed' :
          refund'[q].recovery.token # 0 => refund'[q].status \in {"PENDING", "UNKNOWN"}
    BY <2>1, <2>2 DEF LeaseInv
  <2> QED
    BY <1>h, <1>s, <2>1, <2>2, <2>3, <2>4, LeaseKept
<1>16. ASSUME NEW r \in RefundIds, ProviderReceives(r) \/ ProviderFinishes(r) PROVE LeaseInv'
  BY <1>11, <1>16 DEF ProviderReceives, ProviderFinishes
<1>17. CASE UNCHANGED vars
  BY <1>11, <1>17 DEF vars
<1> QED
  BY <1>1, <1>2, <1>3, <1>4, <1>5, <1>6, <1>7, <1>9, <1>12, <1>13, <1>14, <1>15, <1>16, <1>17
  DEF Next, HandlerStep

\* An outcome that is final outlives the step, unless the lease ran out.
LEMMA FinalKept ==
  ASSUME TypeInv, LeaseInv, [Next]_vars, NEW r \in Stored \ lapsed,
         refund[r].status \in {"COMPLETED", "FAILED"}
  PROVE  refund'[r].status = refund[r].status
<1>t. /\ \A q \in Stored : refund[q] \in RefundRow
      /\ refund \in [Stored -> RefundRow]
      /\ handler \in [Handlers -> Approval]
  BY DEF TypeInv, RefundsFine, HandlersFine
<1>1. CASE UNCHANGED refund
  BY <1>1
<1>2. ASSUME NEW u \in Requesters, NEW t \in TxIds, NEW q \in RefundIds, NEW a \in Amounts,
             RequestRefund(u, t, q, a)
      PROVE  refund'[r] = refund[r]
  BY <1>2 DEF RequestRefund, WithRefund
<1>3. ASSUME NEW h \in Handlers, NEW q \in RefundIds, ApproveRefund(h, q)
      PROVE  refund'[r] = refund[r]
  BY <1>3, <1>t DEF ApproveRefund, MayApprove
<1>4. ASSUME NEW h \in Handlers, ClaimRefundDispatch(h) \/ CompleteRefundDispatch(h)
      PROVE  refund'[r].status = refund[r].status
  BY <1>4, <1>t DEF ClaimRefundDispatch, CompleteRefundDispatch, RefundRow
<1>5. ASSUME NEW h \in Handlers, RecordRefundResult(h) PROVE refund'[r] = refund[r]
  <2>1. handler[h].at # r
    BY <1>5 DEF RecordRefundResult, LeaseInv, Undecided, Dispatching
  <2> QED
    BY <1>5, <1>t, <2>1 DEF RecordRefundResult
<1>6. ASSUME NEW w \in Workers, NEW q \in RefundIds, ClaimNextRefund(w, q)
      PROVE  refund'[r].status = refund[r].status
  BY <1>6, <1>t DEF ClaimNextRefund, RefundRow
<1>7. ASSUME NEW w \in Workers,
             ApplyRefundRecoveryResult(w) \/ RecordRefundRecoveryFailure(w)
      PROVE  refund'[r] = refund[r]
  <2>1. CASE OwnsLease(w)
    <3>1. worker[w].at # r
      BY <1>7, <2>1 DEF ApplyRefundRecoveryResult, RecordRefundRecoveryFailure, OwnsLease,
                        TypeInv, WorkersFine, LeaseInv
    <3> QED
      BY <1>7, <1>t, <2>1, <3>1 DEF ApplyRefundRecoveryResult, RecordRefundRecoveryFailure
  <2>2. CASE ~ OwnsLease(w)
    BY <1>7, <2>2 DEF ApplyRefundRecoveryResult, RecordRefundRecoveryFailure
  <2> QED
    BY <2>1, <2>2
<1>8. ASSUME NEW q \in RefundIds, LeaseExpires(q) \/ RecoveryLeaseExpires(q)
      PROVE  refund'[r].status = refund[r].status
  BY <1>8, <1>t DEF LeaseExpires, RecoveryLeaseExpires, RefundRow
<1>9. ASSUME NEW h \in Handlers, HandlerStep(h) \/ HandlerCrash(h)
      PROVE  refund'[r].status = refund[r].status
  BY <1>1, <1>4, <1>5, <1>9
  DEF HandlerStep, HandlerCrash, Replay, SendRefund, AnswerRefund, RejectRefund, TimeoutRefund,
      AggregateRefundResult
<1>10. ASSUME NEW w \in Workers, WorkerStep(w) \/ WorkerCrash(w)
       PROVE  refund'[r].status = refund[r].status
  BY <1>1, <1>7, <1>10
  DEF WorkerStep, WorkerCrash, QueryRefundStatus, RecoveryFails, AggregateParent,
      RecalculateRefundParent
<1>11. ASSUME NEW h \in Handlers, NEW q \in RefundIds, ResumeRefund(h, q) PROVE UNCHANGED refund
  BY <1>11 DEF ResumeRefund
<1>12. ASSUME NEW t \in TxIds, NEW v \in LateVends,
              RecordAndApplyWebhook(t, v) \/ LateVendResult(t, v)
       PROVE  UNCHANGED refund
  BY <1>12 DEF RecordAndApplyWebhook, LateVendResult
<1>13. ASSUME NEW q \in RefundIds, ProviderReceives(q) \/ ProviderFinishes(q)
       PROVE  UNCHANGED refund
  BY <1>13 DEF ProviderReceives, ProviderFinishes
<1> QED
  BY <1>1, <1>2, <1>3, <1>6, <1>8, <1>9, <1>10, <1>11, <1>12, <1>13 DEF Next, vars

\* As long as its lease did not run out, a refund has at most one dispatcher
\* (claimRefundDispatch).
THEOREM SoleRefundDispatcherCorrect == Spec => []SoleRefundDispatcher
<1>1. Init => TypeInv /\ LeaseInv
  BY TypeInit, LeaseInit
<1>2. TypeInv /\ LeaseInv /\ [Next]_vars => (TypeInv /\ LeaseInv)'
  BY TypeNext, LeaseNext
<1>3. LeaseInv => SoleRefundDispatcher
  BY DEF LeaseInv
<1> QED
  BY <1>1, <1>2, <1>3, PTL DEF Spec

\* A refund leaves for its provider only while no outcome is recorded: a PENDING or
\* UNKNOWN refund is queried and never sent again, unless its lease ran out
\* (claimRefundDispatch and recordRefundResult).
THEOREM NoResubmissionCorrect == Spec => NoResubmission
<1>1. Init => TypeInv /\ LeaseInv
  BY TypeInit, LeaseInit
<1>2. TypeInv /\ LeaseInv /\ [Next]_vars => (TypeInv /\ LeaseInv)'
  BY TypeNext, LeaseNext
<1>3. LeaseInv /\ [Next]_vars
        => [\A h \in Handlers : SendRefund(h) /\ handler[h].at \notin lapsed
                                  => refund[handler[h].at].status = "APPROVED"]_vars
  BY DEF LeaseInv, SendRefund, Undecided, Dispatching
<1> QED
  BY <1>1, <1>2, <1>3, PTL DEF Spec, NoResubmission

\* A refund that is COMPLETED or FAILED stays so, whoever still answers, records or
\* recovers, unless its lease ran out (recordRefundResult, applyRefundRecoveryResult,
\* recordRefundRecoveryFailure).
THEOREM FinalOutcomeStaysCorrect == Spec => FinalOutcomeStays
<1>1. Init => TypeInv /\ LeaseInv
  BY TypeInit, LeaseInit
<1>2. TypeInv /\ LeaseInv /\ [Next]_vars => (TypeInv /\ LeaseInv)'
  BY TypeNext, LeaseNext
<1>3. TypeInv /\ LeaseInv /\ [Next]_vars
        => [\A r \in Stored \ lapsed : refund[r].status \in {"COMPLETED", "FAILED"}
                                         => refund'[r].status = refund[r].status]_vars
  BY FinalKept
<1> QED
  BY <1>1, <1>2, <1>3, PTL DEF Spec, FinalOutcomeStays

-----------------------------------------------------------------------------
(* The reservation. *)

\* The units behind Worth(S).
UnitsOf(S) == UNION {Units(r) : r \in S}

LEMMA UnitsFinite ==
  ASSUME TypeInv, NEW S \in SUBSET Stored
  PROVE  IsFiniteSet(UnitsOf(S))
<1> DEFINE T == {Units(r) : r \in S}
           f == [r \in S |-> Units(r)]
<1>1. IsFiniteSet(S)
  BY FS_Subset DEF TypeInv, RefundsFine
<1>2. IsFiniteSet(T)
  <2>1. f \in Surjection(S, T)
    BY Fun_IsSurj
  <2> QED
    BY <1>1, <2>1, FS_Surjection
<1>3. ASSUME NEW r \in S PROVE IsFiniteSet(Units(r))
  <2>1. refund[r].amount \in Amounts
    BY DEF TypeInv, RefundsFine, RefundRow
  <2>2. refund[r].amount \in Nat \ {0}
    BY <2>1, AmountsAssumption
  <2>3. IsFiniteSet({r})
    BY FS_Singleton
  <2>4. IsFiniteSet(1..refund[r].amount)
    BY <2>2, FS_Interval
  <2> QED
    BY <2>3, <2>4, FS_Product DEF Units
<1> QED
  BY <1>2, <1>3, FS_UNION DEF UnitsOf

\* What is reserved never grows but by a request, unless a lease ran out.
LEMMA ReservedShrinks ==
  ASSUME TypeInv, LeaseInv, [Next]_vars, RowsKept, Stored' = Stored, NEW t \in TxIds,
         RefundsOf(t) \cap lapsed = {}
  PROVE  Reserved(t)' \subseteq Reserved(t)
<1>1. \A r \in Stored : refund'[r].txn = refund[r].txn
  BY DEF RowsKept
<1>2. \A r \in RefundsOf(t) : refund[r].status = "FAILED" => refund'[r].status = "FAILED"
  BY FinalKept DEF RefundsOf
<1> QED
  BY <1>1, <1>2 DEF Reserved, RefundsOf

LEMMA ReservationNext ==
  TypeInv /\ TypeInv' /\ LeaseInv /\ ReservationHolds /\ [Next]_vars => ReservationHolds'
<1> SUFFICES ASSUME TypeInv, TypeInv', LeaseInv, ReservationHolds, [Next]_vars,
                    NEW t \in TxIds, (RefundsOf(t) \cap lapsed = {})'
             PROVE  Worth(Reserved(t))' <= Total[t]
  BY DEF ReservationHolds
<1>1. RowsKept
  BY TypeNext
<1>2. lapsed \subseteq lapsed'
  BY ZenonT(60) DEF Next, HandlerStep, WorkerStep, RequestRefund, ApproveRefund, ResumeRefund,
         ClaimRefundDispatch, Replay, SendRefund, AnswerRefund, RejectRefund, TimeoutRefund,
         AggregateRefundResult, RecordRefundResult, CompleteRefundDispatch, HandlerCrash,
         ClaimNextRefund, QueryRefundStatus, RecoveryFails, ApplyRefundRecoveryResult,
         AggregateParent, RecalculateRefundParent, RecordRefundRecoveryFailure, WorkerCrash,
         RecordAndApplyWebhook, LateVendResult, LeaseExpires, RecoveryLeaseExpires,
         ProviderReceives, ProviderFinishes, vars
<1>3. RefundsOf(t) \cap lapsed = {}
  BY <1>1, <1>2 DEF RefundsOf, RowsKept
<1>4. /\ Reserved(t) \subseteq Stored
      /\ IsFiniteSet(UnitsOf(Reserved(t)))
      /\ Worth(Reserved(t)) = Cardinality(UnitsOf(Reserved(t)))
      /\ Cardinality(UnitsOf(Reserved(t))) \in Nat
      /\ Total[t] \in Nat
  <2>1. Reserved(t) \subseteq Stored
    BY DEF Reserved, RefundsOf
  <2> QED
    BY <2>1, UnitsFinite, FS_CardinalityType, TotalAssumption DEF Worth, UnitsOf
<1>5. Worth(Reserved(t))' = Cardinality(UnitsOf(Reserved(t))')
  BY DEF Worth, UnitsOf
<1>6. Worth(Reserved(t)) <= Total[t]
  BY <1>3 DEF ReservationHolds
<1>7. ASSUME Reserved(t)' \subseteq Reserved(t) PROVE Worth(Reserved(t))' <= Total[t]
  <2>1. UnitsOf(Reserved(t))' \subseteq UnitsOf(Reserved(t))
    BY <1>1, <1>4, <1>7 DEF UnitsOf, Units, RowsKept
  <2>2. Cardinality(UnitsOf(Reserved(t))') <= Cardinality(UnitsOf(Reserved(t)))
    BY <1>4, <2>1, FS_Subset
  <2>3. Cardinality(UnitsOf(Reserved(t))') \in Nat
    BY <1>4, <2>1, FS_Subset, FS_CardinalityType
  <2> QED
    BY <1>4, <1>5, <1>6, <2>2, <2>3
<1>8. CASE Stored' = Stored
  BY <1>1, <1>3, <1>7, <1>8, ReservedShrinks
<1>9. ASSUME NEW u \in Requesters, NEW s \in TxIds, NEW r \in RefundIds, NEW a \in Amounts,
             RequestRefund(u, s, r, a)
      PROVE  Worth(Reserved(t))' <= Total[t]
  <2>1. /\ Stored' = Stored \cup {r}
        /\ \A q \in Stored' : refund'[q] = IF q = r THEN RequestedRow(s, a, u) ELSE refund[q]
        /\ r \notin Stored
        /\ WithinTotal(s, a)
    BY <1>9 DEF RequestRefund, WithRefund, Stored
  <2>2. CASE s # t
    BY <1>7, <2>1, <2>2 DEF Reserved, RefundsOf, RequestedRow
  <2>3. CASE s = t
    <3> DEFINE added == {r} \X (1..a)
    <3>1. Reserved(t)' = Reserved(t) \cup {r}
      BY <2>1, <2>3 DEF Reserved, RefundsOf, RequestedRow
    <3>2. UnitsOf(Reserved(t))' = UnitsOf(Reserved(t)) \cup added
      <4>1. \A q \in Reserved(t) : Units(q)' = Units(q)
        BY <1>4, <2>1 DEF Units
      <4>2. Units(r)' = added
        BY <2>1 DEF Units, RequestedRow
      <4>3. UnitsOf(Reserved(t))' = UNION {Units(q)' : q \in Reserved(t) \cup {r}}
        BY <3>1 DEF UnitsOf
      <4> QED
        BY <4>1, <4>2, <4>3 DEF UnitsOf
    <3>3. IsFiniteSet(added) /\ Cardinality(added) = a /\ a \in Nat
      <4>1. a \in Nat \ {0}
        BY AmountsAssumption
      <4>2. IsFiniteSet({r}) /\ Cardinality({r}) = 1
        BY FS_Singleton
      <4>3. IsFiniteSet(1..a) /\ Cardinality(1..a) = a
        BY <4>1, FS_Interval
      <4>4. IsFiniteSet(added) /\ Cardinality(added) = Cardinality({r}) * Cardinality(1..a)
        BY <4>2, <4>3, FS_Product
      <4> QED
        BY <4>1, <4>2, <4>3, <4>4
    <3>4. /\ IsFiniteSet(UnitsOf(Reserved(t)) \cap added)
          /\ Cardinality(UnitsOf(Reserved(t)) \cap added) \in Nat
      BY <3>3, FS_Subset, FS_CardinalityType
    <3>5. Cardinality(UnitsOf(Reserved(t)) \cup added)
            = Cardinality(UnitsOf(Reserved(t))) + a - Cardinality(UnitsOf(Reserved(t)) \cap added)
      BY <1>4, <3>3, FS_Union
    <3>6. Worth(Reserved(t)) + a <= Total[t]
      BY <2>1, <2>3 DEF WithinTotal
    <3> QED
      BY <1>4, <1>5, <3>2, <3>3, <3>4, <3>5, <3>6
  <2> QED
    BY <2>2, <2>3
<1>10. ASSUME ~ \E u \in Requesters, s \in TxIds, r \in RefundIds, a \in Amounts :
                RequestRefund(u, s, r, a)
       PROVE  Stored' = Stored
  BY <1>10, ZenonT(60)
  DEF Next, HandlerStep, WorkerStep, ApproveRefund, ResumeRefund,
      ClaimRefundDispatch, Replay, SendRefund, AnswerRefund, RejectRefund, TimeoutRefund,
      AggregateRefundResult, RecordRefundResult, CompleteRefundDispatch, HandlerCrash,
      ClaimNextRefund, QueryRefundStatus, RecoveryFails, ApplyRefundRecoveryResult,
      AggregateParent, RecalculateRefundParent, RecordRefundRecoveryFailure, WorkerCrash,
      RecordAndApplyWebhook, LateVendResult, LeaseExpires, RecoveryLeaseExpires,
      ProviderReceives, ProviderFinishes, vars, Stored
<1> QED
  BY <1>8, <1>9, <1>10

\* Whoever requests, approves, records or recovers refunds of one transaction at the
\* same time, what is not known to have failed never exceeds the transaction, unless
\* a dispatch lease ran out (requestRefund's guard, with recordRefundResult and the
\* recovery that never turn a failure back).
THEOREM ReservationCorrect == Spec => []ReservationHolds
<1>1. Init => TypeInv /\ LeaseInv /\ ReservationHolds
  <2>1. ASSUME Init, NEW t \in TxIds PROVE Worth(Reserved(t)) <= Total[t]
    <3>1. UNION {Units(r) : r \in Reserved(t)} = {}
      BY <2>1 DEF Init, Reserved, RefundsOf, Stored
    <3> QED
      BY <3>1, FS_EmptySet, TotalAssumption DEF Worth
  <2> QED
    BY <2>1, TypeInit, LeaseInit DEF ReservationHolds
<1>2. TypeInv /\ LeaseInv /\ ReservationHolds /\ [Next]_vars
        => (TypeInv /\ LeaseInv /\ ReservationHolds)'
  BY TypeNext, LeaseNext, ReservationNext
<1> QED
  BY <1>1, <1>2, PTL DEF Spec

=============================================================================
