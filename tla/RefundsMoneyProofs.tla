------------------------- MODULE RefundsMoneyProofs -------------------------
(***************************************************************************)
(* What Refunds promises about money: what the tables call failed is not   *)
(* paid, what they call paid is, and the money of a vend that did not      *)
(* happen stays held until then; for every number of transactions,         *)
(* refunds, users, handlers, workers, lapses and crashes.                  *)
(***************************************************************************)
EXTENDS RefundsOrderProofs

-----------------------------------------------------------------------------
(* What a step may do at the provider. *)

\* What is final there stays, and nothing is final at once.
ProviderMoves ==
  \A r \in RefundIds :
    /\ refunded[r] \in {"COMPLETED", "FAILED"} => refunded'[r] = refunded[r]
    /\ refunded'[r] = "COMPLETED" => refunded[r] # "NONE"

LEMMA ProviderStep ==
  ASSUME TypeInv, [Next]_vars
  PROVE  ProviderMoves
<1>1. CASE UNCHANGED refunded
  BY <1>1 DEF ProviderMoves
<1>2. ASSUME NEW r \in RefundIds, ProviderReceives(r) \/ ProviderFinishes(r)
      PROVE  ProviderMoves
  BY <1>2 DEF ProviderReceives, ProviderFinishes, ProviderMoves, TypeInv, ProviderFine
<1> QED
  BY <1>1, <1>2, ZenonT(60)
  DEF Next, HandlerStep, WorkerStep, RequestRefund, ApproveRefund, ResumeRefund,
      ClaimRefundDispatch, Replay, SendRefund, AnswerRefund, RejectRefund, TimeoutRefund,
      AggregateRefundResult, RecordRefundResult, CompleteRefundDispatch, HandlerCrash,
      ClaimNextRefund, QueryRefundStatus, RecoveryFails, ApplyRefundRecoveryResult,
      AggregateParent, RecalculateRefundParent, RecordRefundRecoveryFailure, WorkerCrash,
      RecordAndApplyWebhook, LateVendResult, LeaseExpires, RecoveryLeaseExpires,
      provider, vars

-----------------------------------------------------------------------------
(* What the tables call completed has been paid. *)

TruthInv ==
  /\ \A r \in Stored : refund[r].status = "COMPLETED" => refunded[r] = "COMPLETED"
  /\ \A h \in Handlers :
       handler[h].pc \in {"record", "commit"} /\ handler[h].result.status = "COMPLETED"
         => refunded[handler[h].at] = "COMPLETED"
  /\ \A w \in Workers :
       worker[w].pc = "apply" /\ worker[w].answer \in {"COMPLETED", "FAILED"}
         => refunded[worker[w].at] = worker[w].answer

LEMMA TruthInit == Init => TruthInv
BY DEF Init, TruthInv, Stored, NoApproval, NoRecoveryClaim

\* Whatever is new in a step was true before it.
LEMMA TruthKept ==
  ASSUME TypeInv, TypeInv', ProviderMoves,
         \A r \in Stored' : refund'[r].status = "COMPLETED" => refunded[r] = "COMPLETED",
         \A h \in Handlers :
           handler'[h].pc \in {"record", "commit"} /\ handler'[h].result.status = "COMPLETED"
             => refunded[handler'[h].at] = "COMPLETED",
         \A w \in Workers :
           worker'[w].pc = "apply" /\ worker'[w].answer \in {"COMPLETED", "FAILED"}
             => refunded[worker'[w].at] = worker'[w].answer
  PROVE  TruthInv'
<1>1. /\ \A h \in Handlers : handler'[h].pc \in {"record", "commit"} => handler'[h].at \in RefundIds
      /\ \A w \in Workers : worker'[w].pc = "apply" => worker'[w].at \in RefundIds
      /\ Stored' \subseteq RefundIds
  BY DEF TypeInv, HandlersFine, WorkersFine, RefundsFine
<1> QED
  BY <1>1 DEF TruthInv, ProviderMoves

LEMMA TruthNext == TypeInv /\ TypeInv' /\ TruthInv /\ [Next]_vars => TruthInv'
<1> SUFFICES ASSUME TypeInv, TypeInv', TruthInv, [Next]_vars PROVE TruthInv'
  OBVIOUS
<1>t. /\ \A r \in Stored : refund[r] \in RefundRow
      /\ handler \in [Handlers -> Approval]
      /\ worker \in [Workers -> Recovery]
      /\ refund \in [Stored -> RefundRow]
      /\ ProviderMoves
  BY ProviderStep DEF TypeInv, RefundsFine, HandlersFine, WorkersFine
<1> DEFINE RowsTrue == \A r \in Stored' :
                         refund'[r].status = "COMPLETED" => refunded[r] = "COMPLETED"
           CallsTrue == \A h \in Handlers :
                          /\ handler'[h].pc \in {"record", "commit"}
                          /\ handler'[h].result.status = "COMPLETED"
                          => refunded[handler'[h].at] = "COMPLETED"
           AnswersTrue == \A w \in Workers :
                            /\ worker'[w].pc = "apply"
                            /\ worker'[w].answer \in {"COMPLETED", "FAILED"}
                            => refunded[worker'[w].at] = worker'[w].answer
<1>r. UNCHANGED refund => RowsTrue
  BY DEF TruthInv, Stored
<1>h. UNCHANGED handler => CallsTrue
  BY DEF TruthInv
<1>w. UNCHANGED worker => AnswersTrue
  BY DEF TruthInv
<1>p. RowsTrue /\ CallsTrue /\ AnswersTrue => TruthInv'
  BY <1>t, TruthKept
<1> HIDE DEF RowsTrue, CallsTrue, AnswersTrue
<1>1. ASSUME NEW u \in Requesters, NEW t \in TxIds, NEW r \in RefundIds, NEW a \in Amounts,
             RequestRefund(u, t, r, a)
      PROVE  TruthInv'
  <2>1. RowsTrue
    BY <1>1 DEF RequestRefund, WithRefund, RequestedRow, Stored, TruthInv, RowsTrue
  <2> QED
    BY <1>1, <1>h, <1>w, <1>p, <2>1 DEF RequestRefund
<1>2. ASSUME NEW h \in Handlers, NEW r \in RefundIds, ApproveRefund(h, r) PROVE TruthInv'
  <2>1. RowsTrue
    BY <1>2, <1>t DEF ApproveRefund, Stored, TruthInv, RowsTrue, RefundRow
  <2>2. CallsTrue
    BY <1>2, <1>t DEF ApproveRefund, Serve, TruthInv, CallsTrue, NoApproval
  <2> QED
    BY <1>2, <1>w, <1>p, <2>1, <2>2 DEF ApproveRefund
<1>3. ASSUME NEW h \in Handlers, NEW r \in RefundIds, ResumeRefund(h, r) PROVE TruthInv'
  <2>1. CallsTrue
    BY <1>3, <1>t DEF ResumeRefund, Serve, TruthInv, CallsTrue, NoApproval
  <2> QED
    BY <1>3, <1>r, <1>w, <1>p, <2>1 DEF ResumeRefund
<1>4. ASSUME NEW h \in Handlers, \A g \in Handlers : g # h => handler'[g] = handler[g],
             \/ handler'[h].pc \notin {"record", "commit"}
             \/ handler'[h].result.status # "COMPLETED"
             \/ refunded[handler'[h].at] = "COMPLETED"
      PROVE  CallsTrue
  BY <1>4 DEF TruthInv, CallsTrue
<1>5. ASSUME NEW h \in Handlers, ClaimRefundDispatch(h) \/ CompleteRefundDispatch(h)
      PROVE  TruthInv'
  <2>1. RowsTrue
    BY <1>5, <1>t DEF ClaimRefundDispatch, CompleteRefundDispatch, Stored, TruthInv, RowsTrue,
                      RefundRow
  <2>2. CallsTrue
    BY <1>4, <1>5, <1>t DEF ClaimRefundDispatch, CompleteRefundDispatch, Goto, Leave, NoApproval,
                            Approval
  <2> QED
    BY <1>5, <1>w, <1>p, <2>1, <2>2 DEF ClaimRefundDispatch, CompleteRefundDispatch
<1>6. ASSUME NEW h \in Handlers, Replay(h) \/ SendRefund(h) \/ HandlerCrash(h) PROVE TruthInv'
  <2>1. CallsTrue
    BY <1>4, <1>6, <1>t DEF Replay, SendRefund, HandlerCrash, Goto, Leave, NoApproval, Approval
  <2> QED
    BY <1>6, <1>r, <1>w, <1>p, <2>1 DEF Replay, SendRefund, HandlerCrash
<1>7. ASSUME NEW h \in Handlers, AnswerRefund(h) PROVE TruthInv'
  <2>1. PICK s \in Reports(refunded[handler[h].at]) : GotResult(h, Confirmed(s))
    BY <1>7 DEF AnswerRefund
  <2>2. s = "COMPLETED" => refunded[handler[h].at] = "COMPLETED"
    BY <2>1 DEF Reports
  <2>3. /\ handler'[h].at = handler[h].at
        /\ handler'[h].result.status = s
        /\ \A g \in Handlers : g # h => handler'[g] = handler[g]
    BY <1>t, <2>1 DEF GotResult, Confirmed, Approval
  <2>4. CallsTrue
    BY <1>4, <2>2, <2>3
  <2> QED
    BY <1>7, <1>r, <1>w, <1>p, <2>4 DEF AnswerRefund
<1>8. ASSUME NEW h \in Handlers, RejectRefund(h) \/ TimeoutRefund(h) PROVE TruthInv'
  <2>1. PICK result \in {FailedResult, UnknownResult} : GotResult(h, result)
    BY <1>8 DEF RejectRefund, TimeoutRefund
  <2>2. /\ handler'[h].result.status # "COMPLETED"
        /\ \A g \in Handlers : g # h => handler'[g] = handler[g]
    BY <1>t, <2>1 DEF GotResult, FailedResult, UnknownResult, Approval
  <2>3. CallsTrue
    BY <1>4, <2>2
  <2> QED
    BY <1>8, <1>r, <1>w, <1>p, <2>3 DEF RejectRefund, TimeoutRefund
<1>9. ASSUME NEW h \in Handlers, AggregateRefundResult(h) PROVE TruthInv'
  <2>1. /\ handler[h].pc = "record"
        /\ handler'[h].at = handler[h].at
        /\ handler'[h].result = handler[h].result
        /\ \A g \in Handlers : g # h => handler'[g] = handler[g]
    BY <1>9, <1>t DEF AggregateRefundResult, Approval
  <2>2. CallsTrue
    BY <1>4, <2>1 DEF TruthInv
  <2> QED
    BY <1>9, <1>r, <1>w, <1>p, <2>2 DEF AggregateRefundResult
<1>10. ASSUME NEW h \in Handlers, RecordRefundResult(h) PROVE TruthInv'
  <2>1. handler[h].pc = "commit" /\ handler'[h].pc = "complete"
        /\ \A g \in Handlers : g # h => handler'[g] = handler[g]
    BY <1>10, <1>t DEF RecordRefundResult, Approval
  <2>2. /\ Stored' = Stored
        /\ \A q \in Stored : \/ refund'[q] = refund[q]
                             \/ /\ q = handler[h].at
                                /\ refund'[q].status = handler[h].result.status
    BY <1>10, <1>t DEF RecordRefundResult, Stored, RefundRow
  <2>3. RowsTrue
    BY <2>1, <2>2 DEF TruthInv, RowsTrue
  <2>4. CallsTrue
    BY <1>4, <2>1
  <2> QED
    BY <1>10, <1>w, <1>p, <2>3, <2>4 DEF RecordRefundResult
<1>11. ASSUME NEW w \in Workers, \A x \in Workers : x # w => worker'[x] = worker[x],
              \/ worker'[w].pc # "apply"
              \/ worker'[w].answer \notin {"COMPLETED", "FAILED"}
              \/ refunded[worker'[w].at] = worker'[w].answer
       PROVE  AnswersTrue
  BY <1>11 DEF TruthInv, AnswersTrue
<1>12. ASSUME NEW w \in Workers, NEW r \in RefundIds, ClaimNextRefund(w, r) PROVE TruthInv'
  <2>1. RowsTrue
    BY <1>12, <1>t DEF ClaimNextRefund, Stored, TruthInv, RowsTrue, RefundRow
  <2>2. AnswersTrue
    BY <1>11, <1>12, <1>t DEF ClaimNextRefund, Holds, NoRecoveryClaim
  <2> QED
    BY <1>12, <1>h, <1>p, <2>1, <2>2 DEF ClaimNextRefund
<1>13. ASSUME NEW w \in Workers, QueryRefundStatus(w) PROVE TruthInv'
  <2>1. PICK s \in Reports(refunded[worker[w].at]) :
          worker' = [worker EXCEPT ![w] = [worker[w] EXCEPT !.pc = "apply", !.answer = s]]
    BY <1>13 DEF QueryRefundStatus
  <2>2. s \in {"COMPLETED", "FAILED"} => refunded[worker[w].at] = s
    BY <2>1 DEF Reports
  <2>3. /\ worker'[w].at = worker[w].at /\ worker'[w].answer = s
        /\ \A x \in Workers : x # w => worker'[x] = worker[x]
    BY <1>t, <2>1 DEF Recovery
  <2>4. AnswersTrue
    BY <1>11, <2>2, <2>3
  <2> QED
    BY <1>13, <1>r, <1>h, <1>p, <2>4 DEF QueryRefundStatus
<1>14. ASSUME NEW w \in Workers, NEW where \in {"aggregate", "fail"}, NEW r, NEW token,
              Holds(w, where, r, token)
       PROVE  AnswersTrue
  BY <1>11, <1>14, <1>t DEF Holds, NoRecoveryClaim
<1>15. ASSUME NEW w \in Workers, Idle(w) PROVE AnswersTrue
  BY <1>11, <1>15, <1>t DEF Idle, NoRecoveryClaim
<1>16. ASSUME NEW w \in Workers, RecoveryFails(w) PROVE TruthInv'
  BY <1>14, <1>16, <1>r, <1>h, <1>p DEF RecoveryFails
<1>17. ASSUME NEW w \in Workers, ApplyRefundRecoveryResult(w) PROVE TruthInv'
  <2>1. AnswersTrue
    BY <1>14, <1>15, <1>17 DEF ApplyRefundRecoveryResult
  <2>2. /\ Stored' = Stored
        /\ \A q \in Stored : \/ refund'[q] = refund[q]
                             \/ /\ q = worker[w].at
                                /\ refund'[q].status = worker[w].answer
    BY <1>17, <1>t DEF ApplyRefundRecoveryResult, Stored, RefundRow
  <2>3. RowsTrue
    BY <1>17, <2>2 DEF TruthInv, RowsTrue, ApplyRefundRecoveryResult
  <2> QED
    BY <1>17, <1>h, <1>p, <2>1, <2>3 DEF ApplyRefundRecoveryResult
<1>18. ASSUME NEW w \in Workers, AggregateParent(w) PROVE TruthInv'
  <2>1. /\ worker'[w].pc # "apply"
        /\ \A x \in Workers : x # w => worker'[x] = worker[x]
    BY <1>18, <1>t DEF AggregateParent, Recovery
  <2>2. AnswersTrue
    BY <1>11, <2>1
  <2> QED
    BY <1>18, <1>r, <1>h, <1>p, <2>2 DEF AggregateParent
<1>19. ASSUME NEW w \in Workers, RecalculateRefundParent(w) \/ WorkerCrash(w) PROVE TruthInv'
  BY <1>15, <1>19, <1>r, <1>h, <1>p DEF RecalculateRefundParent, WorkerCrash
<1>20. ASSUME NEW w \in Workers, RecordRefundRecoveryFailure(w) PROVE TruthInv'
  <2>1. RowsTrue
    <3>1. /\ Stored' = Stored
          /\ \A q \in Stored : refund'[q] = refund[q] \/ refund'[q].status = "UNKNOWN"
      BY <1>20, <1>t DEF RecordRefundRecoveryFailure, Stored, RefundRow
    <3> QED
      BY <3>1 DEF TruthInv, RowsTrue
  <2> QED
    BY <1>15, <1>20, <1>h, <1>p, <2>1 DEF RecordRefundRecoveryFailure
<1>21. ASSUME NEW r \in RefundIds, LeaseExpires(r) \/ RecoveryLeaseExpires(r) PROVE TruthInv'
  <2>1. RowsTrue
    BY <1>21, <1>t DEF LeaseExpires, RecoveryLeaseExpires, Stored, TruthInv, RowsTrue, RefundRow
  <2> QED
    BY <1>21, <1>h, <1>w, <1>p, <2>1 DEF LeaseExpires, RecoveryLeaseExpires
<1>22. ASSUME UNCHANGED <<refund, handler, worker>> PROVE TruthInv'
  BY <1>22, <1>r, <1>h, <1>w, <1>p
<1>23. ASSUME NEW t \in TxIds, NEW v \in LateVends,
              RecordAndApplyWebhook(t, v) \/ LateVendResult(t, v)
       PROVE  TruthInv'
  BY <1>22, <1>23 DEF RecordAndApplyWebhook, LateVendResult
<1>24. ASSUME NEW r \in RefundIds, ProviderReceives(r) \/ ProviderFinishes(r) PROVE TruthInv'
  BY <1>22, <1>24 DEF ProviderReceives, ProviderFinishes
<1>25. CASE UNCHANGED vars
  BY <1>22, <1>25 DEF vars
<1> QED
  BY <1>1, <1>2, <1>3, <1>5, <1>6, <1>7, <1>8, <1>9, <1>10, <1>12, <1>13, <1>16, <1>17, <1>18,
     <1>19, <1>20, <1>21, <1>23, <1>24, <1>25
  DEF Next, HandlerStep, WorkerStep

-----------------------------------------------------------------------------
(* What the tables call failed has not been paid and never will be. *)

Unsent(r) == refunded[r] = "NONE" /\ \A h \in Handlers : <<r, h>> \notin outstanding

Dead(r) == refunded[r] = "FAILED" \/ Unsent(r)

\* Unless its lease ran out: what was never claimed has not left, and what is FAILED
\* is not paid; a claim is under way only under a live lease.
RowsFail ==
  \A r \in Stored \ lapsed :
    /\ refund[r].dispatch = "DISPATCHING" => refund[r].lease = "live"
    /\ refund[r].dispatch = "NOT_READY" => Unsent(r)
    /\ refund[r].status = "FAILED" => Dead(r)

\* The handler that is about to send is the first one, the request it waits for is
\* the only one, and a failure it got is one.
CallsFail ==
  \A h \in Handlers :
    handler[h].at \notin lapsed
      => /\ handler[h].pc = "send" => Unsent(handler[h].at)
         /\ handler[h].pc = "await" /\ <<handler[h].at, h>> \in outstanding
              => /\ refunded[handler[h].at] = "NONE"
                 /\ \A g \in Handlers : <<handler[h].at, g>> \in outstanding => g = h
         /\ handler[h].pc \in {"record", "commit"} /\ handler[h].result.status = "FAILED"
              => Dead(handler[h].at)

LEMMA FailInit == Init => RowsFail /\ CallsFail
BY DEF Init, RowsFail, CallsFail, Stored, NoApproval

\* The provider and its requests stay as they are.
LEMMA RowsFailKept ==
  ASSUME RowsFail, UNCHANGED provider, lapsed \subseteq lapsed', Stored' = Stored,
         \A r \in Stored \ lapsed' :
           /\ refund'[r].dispatch = "DISPATCHING"
                => \/ refund'[r].lease = "live"
                   \/ refund'[r].lease = refund[r].lease /\ refund[r].dispatch = "DISPATCHING"
           /\ refund'[r].dispatch = "NOT_READY" => refund[r].dispatch = "NOT_READY"
           /\ refund'[r].status = "FAILED" => refund[r].status = "FAILED" \/ Dead(r)
  PROVE  RowsFail'
<1>1. \A r : (Unsent(r)' <=> Unsent(r)) /\ (Dead(r)' <=> Dead(r))
  BY DEF Unsent, Dead, provider
<1> QED
  BY <1>1 DEF RowsFail

LEMMA CallsFailKept ==
  ASSUME CallsFail, UNCHANGED provider, lapsed \subseteq lapsed', NEW h \in Handlers,
         \A g \in Handlers : g # h => handler'[g] = handler[g],
         \/ handler'[h] = handler[h]
         \/ /\ handler'[h].pc \notin {"send", "await"}
            /\ \/ handler'[h].pc \notin {"record", "commit"}
               \/ handler'[h].at \in lapsed'
               \/ handler'[h].result.status # "FAILED"
               \/ Dead(handler'[h].at)
  PROVE  CallsFail'
<1>1. \A r : (Unsent(r)' <=> Unsent(r)) /\ (Dead(r)' <=> Dead(r))
  BY DEF Unsent, Dead, provider
<1>2. ASSUME NEW g \in Handlers, handler'[g].at \notin lapsed'
      PROVE  /\ handler'[g].pc = "send" => Unsent(handler'[g].at)
             /\ handler'[g].pc = "await" /\ <<handler'[g].at, g>> \in outstanding
                  => /\ refunded[handler'[g].at] = "NONE"
                     /\ \A k \in Handlers : <<handler'[g].at, k>> \in outstanding => k = g
             /\ handler'[g].pc \in {"record", "commit"} /\ handler'[g].result.status = "FAILED"
                  => Dead(handler'[g].at)
  <2>1. CASE handler'[g] = handler[g]
    BY <1>2, <2>1 DEF CallsFail
  <2>2. CASE handler'[g] # handler[g]
    BY <1>2, <2>2
  <2> QED
    BY <2>1, <2>2
<1>3. UNCHANGED <<refunded, outstanding>>
  BY DEF provider
<1> QED
  BY <1>1, <1>2, <1>3 DEF CallsFail, Unsent, Dead

LEMMA FailSame ==
  ASSUME RowsFail, CallsFail, UNCHANGED <<provider, refund, handler, lapsed>>
  PROVE  RowsFail' /\ CallsFail'
BY DEF RowsFail, CallsFail, Unsent, Dead, provider, Stored

LEMMA FailNext ==
  TypeInv /\ TypeInv' /\ LeaseInv /\ TruthInv /\ RowsFail /\ CallsFail /\ [Next]_vars
    => RowsFail' /\ CallsFail'
<1> SUFFICES ASSUME TypeInv, TypeInv', LeaseInv, TruthInv, RowsFail, CallsFail, [Next]_vars
             PROVE  RowsFail' /\ CallsFail'
  OBVIOUS
<1>t. /\ \A r \in Stored : refund[r] \in RefundRow
      /\ handler \in [Handlers -> Approval]
      /\ worker \in [Workers -> Recovery]
      /\ refund \in [Stored -> RefundRow]
  BY DEF TypeInv, RefundsFine, HandlersFine, WorkersFine
<1>h. \A h \in Handlers : handler[h].pc # "idle" => handler[h].at \in Stored
  BY DEF TypeInv, HandlersFine
<1>r. ASSUME UNCHANGED <<provider, refund, lapsed>> PROVE RowsFail'
  BY <1>r DEF RowsFail, Unsent, Dead, provider, Stored
<1>c. ASSUME UNCHANGED <<provider, handler>>, lapsed \subseteq lapsed' PROVE CallsFail'
  BY <1>c DEF CallsFail, Unsent, Dead, provider
<1>1. ASSUME NEW u \in Requesters, NEW t \in TxIds, NEW r \in RefundIds, NEW a \in Amounts,
             RequestRefund(u, t, r, a)
      PROVE  RowsFail' /\ CallsFail'
  <2>1. /\ Stored' = Stored \cup {r}
        /\ \A q \in Stored' : refund'[q] = IF q = r THEN RequestedRow(t, a, u) ELSE refund[q]
        /\ r \notin Stored
        /\ UNCHANGED <<refunded, outstanding, handler, lapsed, provider>>
    BY <1>1 DEF RequestRefund, WithRefund, Stored, provider
  <2>2. Unsent(r)
    BY <2>1 DEF TypeInv, ProviderFine, Unsent
  <2>3. \A q : (Unsent(q)' <=> Unsent(q)) /\ (Dead(q)' <=> Dead(q))
    BY <2>1 DEF Unsent, Dead
  <2>4. RowsFail'
    BY <2>1, <2>2, <2>3 DEF RowsFail, RequestedRow
  <2> QED
    BY <1>c, <2>1, <2>4
<1>2. ASSUME NEW h \in Handlers, NEW r \in RefundIds, ApproveRefund(h, r)
      PROVE  RowsFail' /\ CallsFail'
  <2>1. /\ Stored' = Stored
        /\ UNCHANGED <<provider, lapsed>>
        /\ \A q \in Stored : /\ refund'[q].dispatch = refund[q].dispatch
                             /\ refund'[q].lease = refund[q].lease
                             /\ refund'[q].status \in {refund[q].status, "APPROVED"}
    BY <1>2, <1>t DEF ApproveRefund, Stored, RefundRow
  <2>2. /\ \A g \in Handlers : g # h => handler'[g] = handler[g]
        /\ handler'[h] = handler[h] \/ handler'[h].pc = "claim"
    BY <1>2, <1>t DEF ApproveRefund, Serve, NoApproval
  <2> QED
    BY <2>1, <2>2, RowsFailKept, CallsFailKept
<1>3. ASSUME NEW h \in Handlers, NEW r \in RefundIds, ResumeRefund(h, r)
      PROVE  RowsFail' /\ CallsFail'
  <2>1. /\ UNCHANGED <<provider, refund, lapsed>>
        /\ \A g \in Handlers : g # h => handler'[g] = handler[g]
        /\ handler'[h].pc = "claim"
    BY <1>3, <1>t DEF ResumeRefund, Serve, NoApproval
  <2> QED
    BY <1>r, <2>1, CallsFailKept
<1>4. ASSUME NEW h \in Handlers, ClaimRefundDispatch(h) PROVE RowsFail' /\ CallsFail'
  <2> DEFINE r == handler[h].at
  <2>1. /\ r \in Stored
        /\ UNCHANGED <<provider, refunded, outstanding, lapsed>>
        /\ \/ refund[r].dispatch = "NOT_READY"
           \/ refund[r].dispatch = "DISPATCHING" /\ refund[r].lease # "live"
    BY <1>4, <1>h DEF ClaimRefundDispatch, provider, Claimable, LeaseIsFree
  <2>2. /\ Stored' = Stored
        /\ refund'[r].dispatch = "DISPATCHING" /\ refund'[r].lease = "live"
        /\ refund'[r].status = refund[r].status
        /\ \A q \in Stored : q # r => refund'[q] = refund[q]
    BY <1>4, <1>t, <2>1 DEF ClaimRefundDispatch, Stored, RefundRow
  <2>3. /\ handler'[h].at = r /\ handler'[h].pc = "send"
        /\ \A g \in Handlers : g # h => handler'[g] = handler[g]
    BY <1>4, <1>t DEF ClaimRefundDispatch, Goto, Approval
  <2>4. r \in lapsed \/ Unsent(r)
    BY <2>1 DEF RowsFail
  <2>5. RowsFail'
    BY <2>1, <2>2, RowsFailKept
  <2>6. \A q : (Unsent(q)' <=> Unsent(q)) /\ (Dead(q)' <=> Dead(q))
    BY <2>1 DEF Unsent, Dead
  <2>7. ASSUME NEW g \in Handlers, g # h, handler[g].at \notin lapsed
        PROVE  /\ handler[g].pc = "send" => Unsent(handler[g].at)
               /\ handler[g].pc = "await" /\ <<handler[g].at, g>> \in outstanding
                    => /\ refunded[handler[g].at] = "NONE"
                       /\ \A k \in Handlers : <<handler[g].at, k>> \in outstanding => k = g
               /\ handler[g].pc \in {"record", "commit"} /\ handler[g].result.status = "FAILED"
                    => Dead(handler[g].at)
    BY <2>7 DEF CallsFail
  <2>8. CallsFail'
    BY <2>1, <2>3, <2>4, <2>7 DEF CallsFail, Unsent, Dead
  <2> QED
    BY <2>5, <2>8
<1>5. ASSUME NEW h \in Handlers, Replay(h) \/ HandlerCrash(h) PROVE RowsFail' /\ CallsFail'
  <2>1. /\ UNCHANGED <<provider, refund, lapsed>>
        /\ \A g \in Handlers : g # h => handler'[g] = handler[g]
        /\ handler'[h].pc = "idle"
    BY <1>5, <1>t DEF Replay, HandlerCrash, Leave, NoApproval
  <2> QED
    BY <1>r, <2>1, CallsFailKept
<1>6. ASSUME NEW h \in Handlers, SendRefund(h) PROVE RowsFail' /\ CallsFail'
  <2> DEFINE r == handler[h].at
  <2>1. /\ r \in Stored /\ handler[h].pc = "send"
        /\ UNCHANGED <<refund, refunded, lapsed>>
        /\ outstanding' = outstanding \cup {<<r, h>>}
    BY <1>6, <1>h DEF SendRefund
  <2>2. /\ handler'[h].at = r /\ handler'[h].pc = "await"
        /\ \A g \in Handlers : g # h => handler'[g] = handler[g]
    BY <1>6, <1>t DEF SendRefund, Goto, Approval
  <2>3. \A q : q # r => (Unsent(q)' <=> Unsent(q)) /\ (Dead(q)' <=> Dead(q))
    BY <2>1 DEF Unsent, Dead
  <2>4. r \in lapsed \/ /\ Unsent(r)
                        /\ refund[r].dispatch = "DISPATCHING"
                        /\ refund[r].status = "APPROVED"
                        /\ \A g \in Handlers :
                             handler[g].pc \in Dispatching /\ handler[g].at = r => g = h
    BY <2>1 DEF CallsFail, LeaseInv, SoleRefundDispatcher, Dispatching, Undecided
  <2>5. RowsFail'
    BY <2>1, <2>3, <2>4 DEF RowsFail, Stored
  <2>6. ASSUME NEW g \in Handlers, g # h, handler[g].at \notin lapsed,
               handler[g].pc \in {"send", "await", "record", "commit"}
        PROVE  handler[g].at # r
    BY <2>4, <2>6 DEF Dispatching
  <2>7. ASSUME NEW g \in Handlers, g # h, handler[g].at \notin lapsed
        PROVE  /\ handler[g].pc = "send" => Unsent(handler[g].at)'
               /\ handler[g].pc = "await" /\ <<handler[g].at, g>> \in outstanding'
                    => /\ refunded[handler[g].at] = "NONE"
                       /\ \A k \in Handlers : <<handler[g].at, k>> \in outstanding' => k = g
               /\ handler[g].pc \in {"record", "commit"} /\ handler[g].result.status = "FAILED"
                    => Dead(handler[g].at)'
    BY <2>1, <2>2, <2>6, <2>7 DEF CallsFail, Unsent, Dead
  <2>8. r \notin lapsed => /\ refunded[r] = "NONE"
                           /\ \A k \in Handlers : <<r, k>> \in outstanding' => k = h
    BY <2>1, <2>4 DEF Unsent
  <2>9. CallsFail'
    BY <2>1, <2>2, <2>7, <2>8 DEF CallsFail, Unsent, Dead
  <2> QED
    BY <2>5, <2>9
<1>7. ASSUME NEW h \in Handlers, AnswerRefund(h) PROVE RowsFail' /\ CallsFail'
  <2>1. PICK s \in Reports(refunded[handler[h].at]) : GotResult(h, Confirmed(s))
    BY <1>7 DEF AnswerRefund
  <2>2. s = "FAILED" => refunded[handler[h].at] = "FAILED"
    BY <2>1 DEF Reports
  <2>3. /\ handler'[h].at = handler[h].at
        /\ handler'[h].pc = "record"
        /\ handler'[h].result.status = s
        /\ \A g \in Handlers : g # h => handler'[g] = handler[g]
    BY <1>t, <2>1 DEF GotResult, Confirmed, Approval
  <2>4. UNCHANGED <<provider, refund, lapsed>>
    BY <1>7 DEF AnswerRefund
  <2> QED
    BY <1>r, <2>2, <2>3, <2>4, CallsFailKept DEF Dead
<1>8. ASSUME NEW h \in Handlers, TimeoutRefund(h) PROVE RowsFail' /\ CallsFail'
  <2>1. /\ handler'[h].pc = "record"
        /\ handler'[h].result.status # "FAILED"
        /\ \A g \in Handlers : g # h => handler'[g] = handler[g]
        /\ UNCHANGED <<provider, refund, lapsed>>
    BY <1>8, <1>t DEF TimeoutRefund, GotResult, UnknownResult, Approval
  <2> QED
    BY <1>r, <2>1, CallsFailKept
<1>9. ASSUME NEW h \in Handlers, RejectRefund(h) PROVE RowsFail' /\ CallsFail'
  <2> DEFINE r == handler[h].at
  <2>1. /\ handler[h].pc = "await" /\ r \in Stored
        /\ <<r, h>> \in outstanding
        /\ outstanding' = outstanding \ {<<r, h>>}
        /\ UNCHANGED <<refund, refunded, lapsed>>
    BY <1>9, <1>h DEF RejectRefund
  <2>2. /\ handler'[h].at = r /\ handler'[h].pc = "record"
        /\ \A g \in Handlers : g # h => handler'[g] = handler[g]
    BY <1>9, <1>t DEF RejectRefund, GotResult, Approval
  <2>3. \A q : (Unsent(q) => Unsent(q)') /\ (Dead(q) => Dead(q)')
    BY <2>1 DEF Unsent, Dead
  <2>4. ASSUME r \notin lapsed PROVE Unsent(r)'
    <3>1. /\ refunded[r] = "NONE"
          /\ \A g \in Handlers : <<r, g>> \in outstanding => g = h
      BY <2>1, <2>4 DEF CallsFail
    <3> QED
      BY <2>1, <2>2, <3>1 DEF Unsent
  <2>5. RowsFail'
    BY <2>1, <2>3 DEF RowsFail, Stored
  <2>6. ASSUME NEW g \in Handlers, g # h, handler[g].at \notin lapsed
        PROVE  /\ handler[g].pc = "send" => Unsent(handler[g].at)'
               /\ handler[g].pc = "await" /\ <<handler[g].at, g>> \in outstanding'
                    => /\ refunded[handler[g].at] = "NONE"
                       /\ \A k \in Handlers : <<handler[g].at, k>> \in outstanding' => k = g
               /\ handler[g].pc \in {"record", "commit"} /\ handler[g].result.status = "FAILED"
                    => Dead(handler[g].at)'
    <3>1. /\ handler[g].pc = "send" => Unsent(handler[g].at)
          /\ handler[g].pc = "await" /\ <<handler[g].at, g>> \in outstanding
               => /\ refunded[handler[g].at] = "NONE"
                  /\ \A k \in Handlers : <<handler[g].at, k>> \in outstanding => k = g
          /\ handler[g].pc \in {"record", "commit"} /\ handler[g].result.status = "FAILED"
               => Dead(handler[g].at)
      BY <2>6 DEF CallsFail
    <3>2. handler'[g].at = handler[g].at
      BY <2>2, <2>6
    <3> QED
      BY <2>1, <2>3, <3>1, <3>2
  <2>7. CallsFail'
    BY <2>1, <2>2, <2>4, <2>6 DEF CallsFail, Unsent, Dead
  <2> QED
    BY <2>5, <2>7
<1>10. ASSUME NEW h \in Handlers, AggregateRefundResult(h) PROVE RowsFail' /\ CallsFail'
  <2>1. /\ handler[h].pc = "record" /\ handler'[h].pc = "commit"
        /\ handler'[h].at = handler[h].at
        /\ handler'[h].result = handler[h].result
        /\ \A g \in Handlers : g # h => handler'[g] = handler[g]
        /\ UNCHANGED <<provider, refund, lapsed>>
    BY <1>10, <1>t DEF AggregateRefundResult, Approval
  <2>2. \/ handler[h].at \in lapsed \/ handler[h].result.status # "FAILED"
        \/ Dead(handler[h].at)
    BY <2>1 DEF CallsFail
  <2> QED
    BY <1>r, <2>1, <2>2, CallsFailKept
<1>11. ASSUME NEW h \in Handlers, RecordRefundResult(h) PROVE RowsFail' /\ CallsFail'
  <2>1. /\ handler[h].pc = "commit" /\ handler'[h].pc = "complete"
        /\ \A g \in Handlers : g # h => handler'[g] = handler[g]
        /\ UNCHANGED <<provider, lapsed>>
    BY <1>11, <1>t DEF RecordRefundResult, Approval
  <2>2. /\ Stored' = Stored
        /\ \A q \in Stored : /\ refund'[q].dispatch = refund[q].dispatch
                             /\ refund'[q].lease = refund[q].lease
                             /\ \/ refund'[q].status = refund[q].status
                                \/ /\ q = handler[h].at
                                   /\ refund'[q].status = handler[h].result.status
    BY <1>11, <1>t DEF RecordRefundResult, Stored, RefundRow
  <2>3. RowsFail'
    BY <2>1, <2>2, RowsFailKept DEF CallsFail
  <2> QED
    BY <2>1, <2>3, CallsFailKept
<1>12. ASSUME NEW h \in Handlers, CompleteRefundDispatch(h) PROVE RowsFail' /\ CallsFail'
  <2>1. /\ handler'[h].pc = "idle"
        /\ \A g \in Handlers : g # h => handler'[g] = handler[g]
        /\ UNCHANGED <<provider, lapsed>>
    BY <1>12, <1>t DEF CompleteRefundDispatch, Leave, NoApproval
  <2>2. DispatchStateFor(handler[h].result.outcome) \in {"COMPLETED", "FAILED", "UNKNOWN"}
    BY <1>t DEF DispatchStateFor, Approval, Result
  <2>3. /\ Stored' = Stored
        /\ \A q \in Stored : \/ refund'[q] = refund[q]
                             \/ /\ refund'[q].dispatch \in {"COMPLETED", "FAILED", "UNKNOWN"}
                                /\ refund'[q].status = refund[q].status
    BY <1>12, <1>t, <2>2 DEF CompleteRefundDispatch, Stored, RefundRow
  <2> QED
    BY <2>1, <2>3, RowsFailKept, CallsFailKept
<1>13. ASSUME UNCHANGED <<provider, handler, lapsed>>, Stored' = Stored,
              \A q \in Stored : /\ refund'[q].dispatch = refund[q].dispatch
                                /\ refund'[q].lease = refund[q].lease
                                /\ refund'[q].status = "FAILED" => refund[q].status = "FAILED" \/ Dead(q)
       PROVE  RowsFail' /\ CallsFail'
  BY <1>13, <1>c, RowsFailKept
<1>14. ASSUME NEW w \in Workers, NEW r \in RefundIds, ClaimNextRefund(w, r)
       PROVE  RowsFail' /\ CallsFail'
  <2>1. /\ Stored' = Stored
        /\ \A q \in Stored : /\ refund'[q].dispatch = refund[q].dispatch
                             /\ refund'[q].lease = refund[q].lease
                             /\ refund'[q].status = refund[q].status
    BY <1>14, <1>t DEF ClaimNextRefund, Stored, RefundRow
  <2> QED
    BY <1>13, <1>14, <2>1 DEF ClaimNextRefund
<1>15. ASSUME NEW w \in Workers, ApplyRefundRecoveryResult(w) PROVE RowsFail' /\ CallsFail'
  <2>1. /\ Stored' = Stored
        /\ \A q \in Stored : /\ refund'[q].dispatch = refund[q].dispatch
                             /\ refund'[q].lease = refund[q].lease
                             /\ \/ refund'[q].status = refund[q].status
                                \/ /\ q = worker[w].at
                                   /\ refund'[q].status = worker[w].answer
    BY <1>15, <1>t DEF ApplyRefundRecoveryResult, Stored, RefundRow
  <2>2. worker[w].answer = "FAILED" => Dead(worker[w].at)
    BY <1>15 DEF ApplyRefundRecoveryResult, TruthInv, Dead
  <2>3. UNCHANGED <<provider, handler, lapsed>>
    BY <1>15 DEF ApplyRefundRecoveryResult
  <2> QED
    BY <1>13, <2>1, <2>2, <2>3
<1>16. ASSUME NEW w \in Workers, RecordRefundRecoveryFailure(w) PROVE RowsFail' /\ CallsFail'
  <2>1. /\ Stored' = Stored
        /\ \A q \in Stored : /\ refund'[q].dispatch = refund[q].dispatch
                             /\ refund'[q].lease = refund[q].lease
                             /\ refund'[q].status \in {refund[q].status, "UNKNOWN"}
    BY <1>16, <1>t DEF RecordRefundRecoveryFailure, Stored, RefundRow
  <2> QED
    BY <1>13, <1>16, <2>1 DEF RecordRefundRecoveryFailure
<1>17. ASSUME UNCHANGED <<provider, refund, handler, lapsed>> PROVE RowsFail' /\ CallsFail'
  BY <1>17, FailSame
<1>18. ASSUME NEW w \in Workers, WorkerStep(w) \/ WorkerCrash(w) PROVE RowsFail' /\ CallsFail'
  BY <1>15, <1>16, <1>17, <1>18
  DEF WorkerStep, WorkerCrash, QueryRefundStatus, RecoveryFails, AggregateParent,
      RecalculateRefundParent
<1>19. ASSUME NEW t \in TxIds, NEW v \in LateVends,
              RecordAndApplyWebhook(t, v) \/ LateVendResult(t, v)
       PROVE  RowsFail' /\ CallsFail'
  BY <1>17, <1>19 DEF RecordAndApplyWebhook, LateVendResult
<1>20. ASSUME NEW r \in RefundIds, LeaseExpires(r) PROVE RowsFail' /\ CallsFail'
  <2>1. /\ UNCHANGED <<provider, handler>>
        /\ lapsed' = lapsed \cup {r}
        /\ Stored' = Stored
        /\ \A q \in Stored : q # r => refund'[q] = refund[q]
    BY <1>20, <1>t DEF LeaseExpires, Stored
  <2>2. \A q \in Stored \ lapsed' : refund'[q] = refund[q]
    BY <2>1
  <2> QED
    BY <1>c, <2>1, <2>2, RowsFailKept
<1>21. ASSUME NEW r \in RefundIds, RecoveryLeaseExpires(r) PROVE RowsFail' /\ CallsFail'
  <2>1. /\ Stored' = Stored
        /\ \A q \in Stored : /\ refund'[q].dispatch = refund[q].dispatch
                             /\ refund'[q].lease = refund[q].lease
                             /\ refund'[q].status = refund[q].status
    BY <1>21, <1>t DEF RecoveryLeaseExpires, Stored, RefundRow
  <2> QED
    BY <1>13, <1>21, <2>1 DEF RecoveryLeaseExpires
<1>22. ASSUME NEW r \in RefundIds, ProviderReceives(r) PROVE RowsFail' /\ CallsFail'
  <2>1. PICK h \in Handlers : <<r, h>> \in outstanding /\ outstanding' = outstanding \ {<<r, h>>}
    BY <1>22 DEF ProviderReceives
  <2>2. /\ UNCHANGED <<refund, handler, lapsed>>
        /\ \A q \in RefundIds : q # r => refunded'[q] = refunded[q]
        /\ refunded[r] = "FAILED" => refunded'[r] = "FAILED"
    BY <1>22 DEF ProviderReceives, TypeInv, ProviderFine
  <2>3. ~ Unsent(r)
    BY <2>1 DEF Unsent
  <2>4. \A q \in RefundIds : /\ Unsent(q) => q # r /\ Unsent(q)'
                             /\ Dead(q) => Dead(q)'
    BY <2>1, <2>2, <2>3 DEF Unsent, Dead
  <2>5. RowsFail'
    BY <2>2, <2>4 DEF RowsFail, Stored, TypeInv, RefundsFine
  <2>6. ASSUME NEW g \in Handlers, handler[g].at \notin lapsed, handler[g].pc # "idle"
        PROVE  /\ handler[g].pc = "send" => Unsent(handler[g].at)'
               /\ handler[g].pc = "await" /\ <<handler[g].at, g>> \in outstanding'
                    => /\ refunded'[handler[g].at] = "NONE"
                       /\ \A k \in Handlers : <<handler[g].at, k>> \in outstanding' => k = g
               /\ handler[g].pc \in {"record", "commit"} /\ handler[g].result.status = "FAILED"
                    => Dead(handler[g].at)'
    <3>1. handler[g].at \in RefundIds
      BY <1>h, <2>6 DEF TypeInv, RefundsFine
    <3>2. ASSUME handler[g].pc = "await", <<handler[g].at, g>> \in outstanding'
          PROVE  /\ refunded'[handler[g].at] = "NONE"
                 /\ \A k \in Handlers : <<handler[g].at, k>> \in outstanding' => k = g
      <4>1. /\ refunded[handler[g].at] = "NONE"
            /\ \A k \in Handlers : <<handler[g].at, k>> \in outstanding => k = g
        BY <2>1, <2>6, <3>2 DEF CallsFail
      <4>2. handler[g].at # r
        BY <2>1, <3>2, <4>1
      <4> QED
        BY <2>1, <2>2, <3>1, <4>1, <4>2
    <3>3. /\ handler[g].pc = "send" => Unsent(handler[g].at)
          /\ handler[g].pc \in {"record", "commit"} /\ handler[g].result.status = "FAILED"
               => Dead(handler[g].at)
      BY <2>6 DEF CallsFail
    <3> QED
      BY <2>2, <2>4, <3>1, <3>2, <3>3
  <2>7. CallsFail'
    BY <2>2, <2>6 DEF CallsFail, Unsent, Dead
  <2> QED
    BY <2>5, <2>7
<1>23. ASSUME NEW r \in RefundIds, ProviderFinishes(r) PROVE RowsFail' /\ CallsFail'
  <2>1. /\ UNCHANGED <<refund, handler, lapsed, outstanding>>
        /\ \A q \in RefundIds : q # r => refunded'[q] = refunded[q]
        /\ refunded[r] = "PENDING"
    BY <1>23 DEF ProviderFinishes, TypeInv, ProviderFine
  <2>2. \A q \in RefundIds : /\ Unsent(q) => q # r /\ Unsent(q)'
                             /\ Dead(q) => Dead(q)'
    BY <2>1 DEF Unsent, Dead
  <2>3. RowsFail'
    BY <2>1, <2>2 DEF RowsFail, Stored, TypeInv, RefundsFine
  <2>4. ASSUME NEW g \in Handlers, handler[g].pc # "idle" PROVE handler[g].at \in RefundIds
    BY <1>h, <2>4 DEF TypeInv, RefundsFine
  <2>5. CallsFail'
    BY <2>1, <2>2, <2>4 DEF CallsFail
  <2> QED
    BY <2>3, <2>5
<1>24. CASE UNCHANGED vars
  BY <1>17, <1>24 DEF vars, provider
<1> QED
  BY <1>1, <1>2, <1>3, <1>4, <1>5, <1>6, <1>7, <1>8, <1>9, <1>10, <1>11, <1>12, <1>14, <1>18,
     <1>19, <1>20, <1>21, <1>22, <1>23, <1>24
  DEF Next, HandlerStep

-----------------------------------------------------------------------------
(* Sums. *)

\* More refunds are worth more.
LEMMA WorthMonotone ==
  ASSUME TypeInv, NEW T \in SUBSET Stored, NEW S \in SUBSET T
  PROVE  Worth(S) <= Worth(T) /\ Worth(S) \in Nat /\ Worth(T) \in Nat
<1>1. IsFiniteSet(UnitsOf(T)) /\ UnitsOf(S) \subseteq UnitsOf(T)
  BY UnitsFinite DEF UnitsOf
<1>2. IsFiniteSet(UnitsOf(S))
  BY <1>1, FS_Subset
<1> QED
  BY <1>1, <1>2, FS_Subset, FS_CardinalityType DEF Worth, UnitsOf

Covered(t) == Worth(Paid(t)) >= Total[t]

\* What is paid stays paid.
LEMMA CoveredStays ==
  ASSUME TypeInv, TypeInv', [Next]_vars, NEW t \in TxIds, Covered(t)
  PROVE  Covered(t)'
<1> DEFINE now == UnitsOf(Paid(t))
           next == UnitsOf(Paid(t))'
<1>1. RowsKept /\ ProviderMoves
  BY TypeNext, ProviderStep
<1>2. Paid(t) \subseteq Paid(t)' /\ Paid(t)' \subseteq Stored
  BY <1>1 DEF Paid, RefundsOf, RowsKept, ProviderMoves, TypeInv, RefundsFine, ProviderFine
<1>3. now \subseteq next /\ next \subseteq UnitsOf(Stored)
  BY <1>1, <1>2 DEF UnitsOf, Units, RowsKept
<1>4. IsFiniteSet(UnitsOf(Stored))
  BY UnitsFinite
<1>5. IsFiniteSet(next)
  BY <1>3, <1>4, FS_Subset
<1>6. Cardinality(now) <= Cardinality(next) /\ Cardinality(next) \in Nat
  BY <1>3, <1>5, FS_Subset, FS_CardinalityType
<1>7. Cardinality(now) \in Nat
  BY <1>3, <1>5, FS_Subset, FS_CardinalityType
<1>8. Worth(Paid(t)) = Cardinality(now) /\ Worth(Paid(t))' = Cardinality(next)
  BY DEF Worth, UnitsOf
<1>9. Total[t] \in Nat
  BY TotalAssumption
<1> QED
  BY <1>6, <1>7, <1>8, <1>9 DEF Covered

LEMMA OverpaidSafe ==
  ASSUME TypeInv, ReservationHolds, RowsFail
  PROVE  NotOverpaid
<1> SUFFICES ASSUME NEW t \in TxIds, RefundsOf(t) \cap lapsed = {}
             PROVE  Worth(Paid(t)) <= Total[t]
  BY DEF NotOverpaid
<1>1. Paid(t) \subseteq Reserved(t) /\ Reserved(t) \subseteq Stored
  BY DEF Paid, Reserved, RefundsOf, RowsFail, Dead, Unsent
<1>2. Worth(Paid(t)) <= Worth(Reserved(t)) /\ Worth(Paid(t)) \in Nat /\ Worth(Reserved(t)) \in Nat
  BY <1>1, WorthMonotone
<1>3. Worth(Reserved(t)) <= Total[t] /\ Total[t] \in Nat
  BY TotalAssumption DEF ReservationHolds
<1> QED
  BY <1>2, <1>3

\* Providers never pay back more than the transaction, unless a dispatch lease ran
\* out: what requestRefund no longer counts because it FAILED is not paid.
THEOREM NotOverpaidCorrect == Spec => []NotOverpaid
<1> DEFINE I == TypeInv /\ LeaseInv /\ TruthInv /\ RowsFail /\ CallsFail
<1>1. Init => I
  BY TypeInit, LeaseInit, TruthInit, FailInit
<1>2. I /\ [Next]_vars => I'
  BY TypeNext, LeaseNext, TruthNext, FailNext
<1>3. I /\ ReservationHolds => NotOverpaid
  BY OverpaidSafe
<1> HIDE DEF I
<1> QED
  BY <1>1, <1>2, <1>3, ReservationCorrect, PTL DEF Spec

-----------------------------------------------------------------------------
(* The parent. *)

\* The columns say that all is paid, or release the money, only when it is so.
ColumnsAreTrue(t, columns) ==
  /\ columns.status = "REFUNDED" => Covered(t)
  /\ t \notin disordered /\ NeedsFullRefund(vended[t]) /\ ~ columns.blocked => Covered(t)

ParentInv ==
  /\ \A t \in TxIds : ColumnsAreTrue(t, parent[t])
  /\ \A t \in TxIds \ disordered : parent[t].vend = vended[t]
  /\ \A h \in Handlers :
       handler[h].pc = "commit" => ColumnsAreTrue(refund[handler[h].at].txn, handler[h].columns)
  /\ \A w \in Workers :
       worker[w].pc = "commit" => ColumnsAreTrue(refund[worker[w].at].txn, worker[w].columns)

LEMMA ParentInit == Init => ParentInv
<1> SUFFICES ASSUME Init PROVE ParentInv
  OBVIOUS
<1>1. ASSUME NEW t \in TxIds PROVE parent[t].vend = vended[t] /\ ColumnsAreTrue(t, parent[t])
  <2>1. vended[t] \in {"FULFILLED", "FAILED", "CANCELLED"}
    BY VendsAssumption DEF Init
  <2>2. PICK known \in BOOLEAN : parent[t] = VendedRow(vended[t], known)
    BY DEF Init
  <2>3. parent[t].vend = vended[t] /\ parent[t].status = vended[t]
    BY <2>2 DEF VendedRow
  <2>4. ASSUME NeedsFullRefund(vended[t]) PROVE parent[t].blocked
    <3>1. vended[t] # "FULFILLED"
      BY <2>4 DEF NeedsFullRefund
    <3>2. VendedRow(vended[t], known).blocked = (vended[t] # "FULFILLED")
      BY Zenon DEF VendedRow
    <3> QED
      BY <2>2, <3>1, <3>2
  <2> QED
    BY <2>1, <2>3, <2>4 DEF ColumnsAreTrue
<1> QED
  BY <1>1 DEF Init, ParentInv, NoApproval, NoRecoveryClaim

LEMMA ParentSafe == ParentInv => RefundedIsPaid /\ UnpaidIsHeld
BY DEF ParentInv, ColumnsAreTrue, Covered, RefundedIsPaid, UnpaidIsHeld

\* An aggregate is never ahead of what is paid.
LEMMA AggregateIsTrue ==
  ASSUME TypeInv, NEW t \in TxIds, NEW statusOf,
         \A r \in Stored : statusOf[r] = "COMPLETED" => refunded[r] = "COMPLETED",
         t \notin disordered => parent[t].vend = vended[t]
  PROVE  ColumnsAreTrue(t, Recalculated(t, statusOf))
<1> DEFINE completed == {r \in RefundsOf(t) : statusOf[r] = "COMPLETED"}
           columns == Recalculated(t, statusOf)
           full == FullyRefunded(t, statusOf)
<1>1. full => Covered(t)
  <2>1. completed \subseteq Paid(t) /\ Paid(t) \subseteq Stored
    BY DEF Paid, RefundsOf
  <2>2. Worth(completed) <= Worth(Paid(t)) /\ Worth(completed) \in Nat /\ Worth(Paid(t)) \in Nat
    BY <2>1, WorthMonotone
  <2> QED
    BY <2>2, TotalAssumption DEF FullyRefunded, Covered
<1>2. columns.status = "REFUNDED" => full
  BY DEF Recalculated, FullyRefunded
<1>3. NeedsFullRefund(parent[t].vend) /\ ~ columns.blocked => full
  BY DEF Recalculated, Held
<1> QED
  BY <1>1, <1>2, <1>3 DEF ColumnsAreTrue

\* Columns that are true stay true, and make a parent true.
LEMMA ColumnsStayTrue ==
  ASSUME TypeInv, TypeInv', [Next]_vars, disordered \subseteq disordered', UNCHANGED vended,
         NEW t \in TxIds, NEW columns, ColumnsAreTrue(t, columns)
  PROVE  /\ columns.status = "REFUNDED" => Covered(t)'
         /\ t \notin disordered' /\ NeedsFullRefund(vended'[t]) /\ ~ columns.blocked => Covered(t)'
<1>1. Covered(t) => Covered(t)'
  BY CoveredStays
<1> QED
  BY <1>1 DEF ColumnsAreTrue

LEMMA ColumnsMakeTrue ==
  ASSUME NEW t \in TxIds, NEW row \in ParentRow, NEW columns \in ParentColumns,
         ColumnsAreTrue(t, row), ColumnsAreTrue(t, columns)
  PROVE  ColumnsAreTrue(t, WithColumns(row, columns)) /\ WithColumns(row, columns).vend = row.vend
BY DEF ColumnsAreTrue, WithColumns, ParentRow, ParentColumns

\* The same, with what the step makes of disordered.
TrueAfter(t, columns) ==
  /\ columns.status = "REFUNDED" => Covered(t)
  /\ t \notin disordered' /\ NeedsFullRefund(vended[t]) /\ ~ columns.blocked => Covered(t)

ParentsTrue ==
  \A t \in TxIds : /\ TrueAfter(t, parent'[t])
                   /\ t \notin disordered' => parent'[t].vend = vended[t]

HandlersTrue ==
  \A h \in Handlers :
    handler'[h].pc = "commit"
      => handler'[h].at \in Stored /\ TrueAfter(refund[handler'[h].at].txn, handler'[h].columns)

WorkersTrue ==
  \A w \in Workers :
    worker'[w].pc = "commit"
      => worker'[w].at \in Stored /\ TrueAfter(refund[worker'[w].at].txn, worker'[w].columns)

LEMMA ParentKept ==
  ASSUME TypeInv, TypeInv', [Next]_vars, UNCHANGED vended,
         ParentsTrue, HandlersTrue, WorkersTrue
  PROVE  ParentInv'
<1>1. \A r \in Stored : refund'[r].txn = refund[r].txn /\ refund[r].txn \in TxIds
  BY TypeNext DEF RowsKept, TypeInv, RefundsFine, RefundRow
<1>2. \A t \in TxIds : Covered(t) => Covered(t)'
  BY CoveredStays
<1>4. \A t \in TxIds : /\ parent'[t].status = "REFUNDED" => Covered(t)'
                       /\ t \notin disordered' /\ NeedsFullRefund(vended'[t])
                            /\ ~ parent'[t].blocked => Covered(t)'
  BY <1>2 DEF ParentsTrue, TrueAfter
<1>5. ASSUME NEW h \in Handlers, handler'[h].pc = "commit"
      PROVE  ColumnsAreTrue(refund[handler[h].at].txn, handler[h].columns)'
  BY <1>1, <1>2, <1>5 DEF HandlersTrue, TrueAfter, ColumnsAreTrue
<1>6. ASSUME NEW w \in Workers, worker'[w].pc = "commit"
      PROVE  ColumnsAreTrue(refund[worker[w].at].txn, worker[w].columns)'
  BY <1>1, <1>2, <1>6 DEF WorkersTrue, TrueAfter, ColumnsAreTrue
<1>7. \A t \in TxIds \ disordered' : parent'[t].vend = vended'[t]
  BY DEF ParentsTrue
<1>8. (\A t \in TxIds : ColumnsAreTrue(t, parent[t]))'
  BY <1>4 DEF ColumnsAreTrue
<1> QED
  BY <1>5, <1>6, <1>7, <1>8 DEF ParentInv

LEMMA HistoryGrows ==
  ASSUME [Next]_vars
  PROVE  UNCHANGED vended /\ disordered \subseteq disordered'
BY ZenonT(60) DEF Next, HandlerStep, WorkerStep, RequestRefund, ApproveRefund, ResumeRefund,
       ClaimRefundDispatch, Replay, SendRefund, AnswerRefund, RejectRefund, TimeoutRefund,
       AggregateRefundResult, RecordRefundResult, CompleteRefundDispatch, HandlerCrash,
       ClaimNextRefund, QueryRefundStatus, RecoveryFails, ApplyRefundRecoveryResult,
       AggregateParent, RecalculateRefundParent, RecordRefundRecoveryFailure, WorkerCrash,
       RecordAndApplyWebhook, LateVendResult, SetsBack, LeaseExpires, RecoveryLeaseExpires,
       ProviderReceives, ProviderFinishes, provider, environment, vars

LEMMA ParentNext ==
  TypeInv /\ TypeInv' /\ TruthInv /\ ParentInv /\ [Next]_vars => ParentInv'
<1> SUFFICES ASSUME TypeInv, TypeInv', TruthInv, ParentInv, [Next]_vars PROVE ParentInv'
  OBVIOUS
<1>t. /\ \A r \in Stored : r \in RefundIds /\ refund[r] \in RefundRow /\ refund[r].txn \in TxIds
      /\ handler \in [Handlers -> Approval]
      /\ worker \in [Workers -> Recovery]
      /\ parent \in [TxIds -> ParentRow]
      /\ \A h \in Handlers : handler[h].pc # "idle" => handler[h].at \in Stored
      /\ \A w \in Workers : worker[w].pc # "idle" => worker[w].at \in Stored
  BY DEF TypeInv, RefundsFine, HandlersFine, WorkersFine, RestFine, RefundRow
<1>d. UNCHANGED vended /\ disordered \subseteq disordered'
  BY HistoryGrows
<1>k. ParentsTrue /\ HandlersTrue /\ WorkersTrue => ParentInv'
  BY <1>d, ParentKept
<1>a. \A t : \A columns : ColumnsAreTrue(t, columns) => TrueAfter(t, columns)
  BY <1>d DEF ColumnsAreTrue, TrueAfter
<1>p. UNCHANGED parent => ParentsTrue
  BY <1>a, <1>d DEF ParentInv, ParentsTrue
<1>h. ASSUME NEW h \in Handlers, \A g \in Handlers : g # h => handler'[g] = handler[g],
             handler'[h].pc # "commit" \/ handler'[h] = handler[h]
      PROVE  HandlersTrue
  BY <1>h, <1>a, <1>t DEF ParentInv, HandlersTrue
<1>w. ASSUME NEW w \in Workers, \A x \in Workers : x # w => worker'[x] = worker[x],
             worker'[w].pc # "commit"
      PROVE  WorkersTrue
  BY <1>w, <1>a, <1>t DEF ParentInv, WorkersTrue
<1>u. UNCHANGED handler => HandlersTrue
  BY <1>a, <1>t DEF ParentInv, HandlersTrue
<1>v. UNCHANGED worker => WorkersTrue
  BY <1>a, <1>t DEF ParentInv, WorkersTrue
<1>c. ASSUME NEW t \in TxIds, NEW columns \in ParentColumns, ColumnsAreTrue(t, columns),
             parent' = [parent EXCEPT ![t] = WithColumns(parent[t], columns)]
      PROVE  ParentsTrue
  <2>1. /\ ColumnsAreTrue(t, WithColumns(parent[t], columns))
        /\ WithColumns(parent[t], columns).vend = parent[t].vend
    BY <1>c, <1>t, ColumnsMakeTrue DEF ParentInv
  <2>2. \A s \in TxIds : parent'[s] = IF s = t THEN WithColumns(parent[t], columns) ELSE parent[s]
    BY <1>c, <1>t
  <2> QED
    BY <1>a, <1>d, <2>1, <2>2 DEF ParentInv, ParentsTrue
<1>1. ASSUME NEW u \in Requesters, NEW t \in TxIds, NEW r \in RefundIds, NEW a \in Amounts,
             RequestRefund(u, t, r, a)
      PROVE  ParentInv'
  <2>1. /\ UNCHANGED <<handler, worker>>
        /\ parent'[t].status = "REFUND_PENDING"
        /\ parent'[t].blocked = TRUE
        /\ parent'[t].vend = parent[t].vend
        /\ \A s \in TxIds : s # t => parent'[s] = parent[s]
    BY <1>1, <1>t DEF RequestRefund, ParentRow
  <2>2. TrueAfter(t, parent'[t])
    BY <2>1 DEF TrueAfter
  <2>3. ParentsTrue
    BY <1>a, <1>d, <2>1, <2>2 DEF ParentInv, ParentsTrue
  <2> QED
    BY <1>k, <1>u, <1>v, <2>1, <2>3
<1>2. ASSUME NEW h \in Handlers, NEW r \in RefundIds, ApproveRefund(h, r) \/ ResumeRefund(h, r)
      PROVE  ParentInv'
  <2>1. /\ UNCHANGED <<parent, worker>>
        /\ \A g \in Handlers : g # h => handler'[g] = handler[g]
        /\ handler'[h].pc # "commit" \/ handler'[h] = handler[h]
    BY <1>2, <1>t DEF ApproveRefund, ResumeRefund, Serve, NoApproval
  <2> QED
    BY <1>h, <1>k, <1>p, <1>v, <2>1
<1>3. ASSUME NEW h \in Handlers,
             \/ ClaimRefundDispatch(h) \/ Replay(h) \/ SendRefund(h) \/ AnswerRefund(h)
             \/ RejectRefund(h) \/ TimeoutRefund(h) \/ CompleteRefundDispatch(h)
             \/ HandlerCrash(h)
      PROVE  ParentInv'
  <2>1. UNCHANGED <<parent, worker>>
    BY <1>3 DEF ClaimRefundDispatch, Replay, SendRefund, AnswerRefund, RejectRefund,
                TimeoutRefund, CompleteRefundDispatch, HandlerCrash
  <2>2. /\ \A g \in Handlers : g # h => handler'[g] = handler[g]
        /\ handler'[h].pc # "commit"
    BY <1>3, <1>t DEF ClaimRefundDispatch, Replay, SendRefund, AnswerRefund, RejectRefund,
                      TimeoutRefund, CompleteRefundDispatch, HandlerCrash, Goto, Leave,
                      GotResult, NoApproval, Approval
  <2> QED
    BY <1>h, <1>k, <1>p, <1>v, <2>1, <2>2
<1>4. ASSUME NEW h \in Handlers, AggregateRefundResult(h) PROVE ParentInv'
  <2> DEFINE r == handler[h].at
             t == refund[r].txn
             statusOf == [StatusOf EXCEPT ![r] = handler[h].result.status]
             columns == Recalculated(t, statusOf)
  <2>1. handler[h].pc = "record" /\ UNCHANGED <<parent, worker>>
    BY <1>4 DEF AggregateRefundResult
  <2>2. r \in Stored /\ t \in TxIds
    BY <1>t, <2>1
  <2>3. \A q \in Stored : statusOf[q] = "COMPLETED" => refunded[q] = "COMPLETED"
    BY <2>1, <2>2 DEF TruthInv, StatusOf
  <2>4. t \notin disordered => parent[t].vend = vended[t]
    BY <2>2 DEF ParentInv
  <2> HIDE DEF statusOf
  <2>5. ColumnsAreTrue(t, columns)
    BY <2>2, <2>3, <2>4, AggregateIsTrue
  <2>6. handler' = [handler EXCEPT ![h] = [handler[h] EXCEPT !.pc = "commit",
                                                             !.columns = columns]]
    BY <1>4 DEF AggregateRefundResult, statusOf
  <2> HIDE DEF columns
  <2>7. /\ handler'[h].at = r /\ handler'[h].columns = columns
        /\ \A g \in Handlers : g # h => handler'[g] = handler[g]
    BY <1>t, <2>6 DEF Approval
  <2>8. HandlersTrue
    BY <1>a, <1>t, <2>2, <2>5, <2>7 DEF ParentInv, HandlersTrue
  <2> QED
    BY <1>k, <1>p, <1>v, <2>1, <2>8
<1>5. ASSUME NEW h \in Handlers, RecordRefundResult(h) PROVE ParentInv'
  <2> DEFINE t == refund[handler[h].at].txn
  <2>1. handler[h].pc = "commit" /\ UNCHANGED worker
    BY <1>5 DEF RecordRefundResult
  <2>2. t \in TxIds /\ handler[h].columns \in ParentColumns
    BY <1>t, <2>1 DEF Approval
  <2>3. parent' = [parent EXCEPT ![t] = WithColumns(parent[t], handler[h].columns)]
    BY <1>5 DEF RecordRefundResult
  <2>4. ParentsTrue
    BY <1>c, <2>1, <2>2, <2>3 DEF ParentInv
  <2>5. /\ handler'[h].pc = "complete"
        /\ \A g \in Handlers : g # h => handler'[g] = handler[g]
    BY <1>5, <1>t DEF RecordRefundResult, Approval
  <2> QED
    BY <1>h, <1>k, <1>v, <2>1, <2>4, <2>5
<1>6. ASSUME NEW w \in Workers, NEW r \in RefundIds, ClaimNextRefund(w, r) PROVE ParentInv'
  <2>1. /\ UNCHANGED <<parent, handler>>
        /\ \A x \in Workers : x # w => worker'[x] = worker[x]
        /\ worker'[w].pc # "commit"
    BY <1>6, <1>t DEF ClaimNextRefund, Holds, NoRecoveryClaim
  <2> QED
    BY <1>k, <1>p, <1>u, <1>w, <2>1
<1>7. ASSUME NEW w \in Workers, Idle(w) PROVE WorkersTrue
  BY <1>7, <1>t, <1>w DEF Idle, NoRecoveryClaim
<1>8. ASSUME NEW w \in Workers, NEW where \in {"aggregate", "fail"}, NEW r, NEW token,
             Holds(w, where, r, token)
      PROVE  WorkersTrue
  BY <1>8, <1>t, <1>w DEF Holds, NoRecoveryClaim
<1>9. ASSUME NEW w \in Workers,
             \/ RecoveryFails(w) \/ ApplyRefundRecoveryResult(w)
             \/ RecordRefundRecoveryFailure(w) \/ WorkerCrash(w)
      PROVE  ParentInv'
  <2>1. UNCHANGED <<parent, handler>>
    BY <1>9 DEF RecoveryFails, ApplyRefundRecoveryResult, RecordRefundRecoveryFailure, WorkerCrash
  <2>2. WorkersTrue
    BY <1>7, <1>8, <1>9
    DEF RecoveryFails, ApplyRefundRecoveryResult, RecordRefundRecoveryFailure, WorkerCrash
  <2> QED
    BY <1>k, <1>p, <1>u, <2>1, <2>2
<1>10. ASSUME NEW w \in Workers, QueryRefundStatus(w) PROVE ParentInv'
  <2>1. /\ UNCHANGED <<parent, handler>>
        /\ \A x \in Workers : x # w => worker'[x] = worker[x]
        /\ worker'[w].pc # "commit"
    BY <1>10, <1>t DEF QueryRefundStatus, Recovery
  <2> QED
    BY <1>k, <1>p, <1>u, <1>w, <2>1
<1>11. ASSUME NEW w \in Workers, AggregateParent(w) PROVE ParentInv'
  <2> DEFINE r == worker[w].at
             t == refund[r].txn
             columns == Recalculated(t, StatusOf)
  <2>1. worker[w].pc = "aggregate" /\ UNCHANGED <<parent, handler>>
    BY <1>11 DEF AggregateParent
  <2>2. r \in Stored /\ t \in TxIds
    BY <1>t, <2>1
  <2>3. \A q \in Stored : StatusOf[q] = "COMPLETED" => refunded[q] = "COMPLETED"
    BY DEF TruthInv, StatusOf
  <2>4. t \notin disordered => parent[t].vend = vended[t]
    BY <2>2 DEF ParentInv
  <2>5. ColumnsAreTrue(t, columns)
    BY <2>2, <2>3, <2>4, AggregateIsTrue
  <2>6. worker' = [worker EXCEPT ![w] = [worker[w] EXCEPT !.pc = "commit", !.columns = columns]]
    BY <1>11 DEF AggregateParent
  <2> HIDE DEF columns
  <2>7. /\ worker'[w].at = r /\ worker'[w].columns = columns
        /\ \A x \in Workers : x # w => worker'[x] = worker[x]
    BY <1>t, <2>6 DEF Recovery
  <2>8. WorkersTrue
    BY <1>a, <1>t, <2>2, <2>5, <2>7 DEF ParentInv, WorkersTrue
  <2> QED
    BY <1>k, <1>p, <1>u, <2>1, <2>8
<1>12. ASSUME NEW w \in Workers, RecalculateRefundParent(w) PROVE ParentInv'
  <2> DEFINE t == refund[worker[w].at].txn
  <2>1. worker[w].pc = "commit" /\ UNCHANGED handler /\ Idle(w)
    BY <1>12 DEF RecalculateRefundParent
  <2>2. t \in TxIds /\ worker[w].columns \in ParentColumns
    BY <1>t, <2>1 DEF Recovery
  <2>3. parent' = [parent EXCEPT ![t] = WithColumns(parent[t], worker[w].columns)]
    BY <1>12 DEF RecalculateRefundParent
  <2>4. ParentsTrue
    BY <1>c, <2>1, <2>2, <2>3 DEF ParentInv
  <2> QED
    BY <1>7, <1>k, <1>u, <2>1, <2>4
<1>13. ASSUME NEW t \in TxIds, NEW v \in LateVends, NEW named \in BOOLEAN, SetsBack(t, v),
              NEW row \in {Notified(parent[t], v), WithOutcome(parent[t], v)},
              parent' = [parent EXCEPT ![t] = WithReference(row, named)]
       PROVE  ParentsTrue
  <2>1. v \in VendStatus /\ parent[t] \in ParentRow
    BY <1>t, VendsAssumption
  <2>2. ASSUME NEW x \in {WithOutcome(parent[t], v)}
        PROVE  x.vend = v /\ x.status # "REFUNDED" /\ (NeedsFullRefund(v) => x.blocked)
    BY <2>1 DEF WithOutcome, ParentRow, NormalizedFromVend, NeedsFullRefund, VendStatus
  <2>3. /\ row.vend = v
        /\ row.status = "REFUNDED" => parent[t].status = "REFUNDED"
        /\ NeedsFullRefund(v) => row.blocked \/ parent[t].status = "REFUNDED"
    <3>1. CASE row = WithOutcome(parent[t], v)
      BY <2>2, <3>1
    <3>2. CASE row = [parent[t] EXCEPT !.vend = v, !.blocked = parent[t].status # "REFUNDED"]
      BY <2>1, <3>2 DEF ParentRow
    <3> QED
      BY <1>13, <3>1, <3>2 DEF Notified
  <2>4. row \in ParentRow
    BY <2>1, ParentRows
  <2>5. /\ parent'[t].vend = row.vend
        /\ parent'[t].status = row.status
        /\ parent'[t].blocked = row.blocked
        /\ \A s \in TxIds : s # t => parent'[s] = parent[s]
    BY <1>13, <1>t, <2>4 DEF WithReference, ParentRow
  <2>6. t \notin disordered' => v = vended[t]
    BY <1>13 DEF SetsBack
  <2>7. parent[t].status = "REFUNDED" => Covered(t)
    BY DEF ParentInv, ColumnsAreTrue
  <2>8. TrueAfter(t, parent'[t])
    BY <2>3, <2>5, <2>6, <2>7 DEF TrueAfter
  <2> QED
    BY <1>a, <1>d, <2>3, <2>5, <2>6, <2>8 DEF ParentInv, ParentsTrue
<1>14. ASSUME NEW t \in TxIds, NEW v \in LateVends,
              RecordAndApplyWebhook(t, v) \/ LateVendResult(t, v)
       PROVE  ParentInv'
  <2>1. ParentsTrue
    BY <1>13, <1>14 DEF RecordAndApplyWebhook, LateVendResult
  <2> QED
    BY <1>14, <1>k, <1>u, <1>v, <2>1 DEF RecordAndApplyWebhook, LateVendResult
<1>15. ASSUME UNCHANGED <<parent, handler, worker>> PROVE ParentInv'
  BY <1>15, <1>k, <1>p, <1>u, <1>v
<1>16. ASSUME NEW r \in RefundIds,
              \/ LeaseExpires(r) \/ RecoveryLeaseExpires(r)
              \/ ProviderReceives(r) \/ ProviderFinishes(r)
       PROVE  ParentInv'
  BY <1>15, <1>16 DEF LeaseExpires, RecoveryLeaseExpires, ProviderReceives, ProviderFinishes
<1>17. CASE UNCHANGED vars
  BY <1>15, <1>17 DEF vars
<1> QED
  BY <1>1, <1>2, <1>3, <1>4, <1>5, <1>6, <1>9, <1>10, <1>11, <1>12, <1>14, <1>16, <1>17
  DEF Next, HandlerStep, WorkerStep

LEMMA ParentHolds == Spec => []ParentInv
<1> DEFINE I == TypeInv /\ TruthInv /\ ParentInv
<1>1. Init => I
  BY TypeInit, TruthInit, ParentInit
<1>2. I /\ [Next]_vars => I'
  BY TypeNext, TruthNext, ParentNext
<1>3. I => ParentInv
  OBVIOUS
<1> HIDE DEF I
<1> QED
  BY <1>1, <1>2, <1>3, PTL DEF Spec

\* A transaction is REFUNDED only when the providers have paid all of it back,
\* whatever aggregates are stale when recordRefundResult and
\* recalculateRefundParent write them.
THEOREM RefundedIsPaidCorrect == Spec => []RefundedIsPaid
BY ParentHolds, ParentSafe, PTL

\* The money of a vend that did not happen is held until it is paid back in full
\* (settlement_blocked), unless a late answer made the vend look unfinished.
THEOREM UnpaidIsHeldCorrect == Spec => []UnpaidIsHeld
BY ParentHolds, ParentSafe, PTL

-----------------------------------------------------------------------------
(* The tables keep the ledger of refunds. *)

\* A step that neither requests nor approves changes no checker, the status of at most
\* one refund, and never to REQUESTED.
OutcomeOf(r) ==
  /\ Stored' = Stored
  /\ \A q \in Stored : refund'[q].checker = refund[q].checker
  /\ \A q \in Stored \ {r} : refund'[q].status = refund[q].status
  /\ refund'[r].status \in Outcome

SameOutcomes ==
  /\ Stored' = Stored
  /\ \A q \in Stored : /\ refund'[q].checker = refund[q].checker
                       /\ refund'[q].status = refund[q].status

LEMMA OutcomeSteps ==
  ASSUME TypeInv, [Next]_vars
  PROVE  \/ \E u \in Requesters, t \in TxIds, r \in RefundIds, a \in Amounts :
              RequestRefund(u, t, r, a)
         \/ \E h \in Handlers, r \in RefundIds : ApproveRefund(h, r)
         \/ SameOutcomes
         \/ UNCHANGED <<refunded, lapsed>> /\ \E r \in Stored : OutcomeOf(r)
<1>t. /\ \A r \in Stored : refund[r] \in RefundRow
      /\ refund \in [Stored -> RefundRow]
      /\ handler \in [Handlers -> Approval]
      /\ worker \in [Workers -> Recovery]
      /\ \A h \in Handlers : handler[h].pc # "idle" => handler[h].at \in Stored
      /\ \A w \in Workers : worker[w].pc # "idle" => worker[w].at \in Stored
  BY DEF TypeInv, RefundsFine, HandlersFine, WorkersFine
<1>1. CASE UNCHANGED refund
  BY <1>1 DEF SameOutcomes, Stored
<1>2. ASSUME NEW h \in Handlers, ClaimRefundDispatch(h) \/ CompleteRefundDispatch(h)
      PROVE  SameOutcomes
  BY <1>2, <1>t DEF ClaimRefundDispatch, CompleteRefundDispatch, RefundRow, SameOutcomes, Stored
<1>3. ASSUME NEW w \in Workers, NEW r \in RefundIds, ClaimNextRefund(w, r)
      PROVE  SameOutcomes
  BY <1>3, <1>t DEF ClaimNextRefund, RefundRow, SameOutcomes, Stored
<1>4. ASSUME NEW r \in RefundIds, LeaseExpires(r) \/ RecoveryLeaseExpires(r)
      PROVE  SameOutcomes
  BY <1>4, <1>t DEF LeaseExpires, RecoveryLeaseExpires, RefundRow, SameOutcomes, Stored
<1>5. ASSUME NEW h \in Handlers, RecordRefundResult(h)
      PROVE  OutcomeOf(handler[h].at) /\ handler[h].at \in Stored
  <2> DEFINE r == handler[h].at
  <2>1. r \in Stored /\ handler[h].result.status \in Outcome
    BY <1>5, <1>t DEF RecordRefundResult, Approval, Result
  <2>2. /\ Stored' = Stored
        /\ \A q \in Stored \ {r} : refund'[q] = refund[q]
        /\ refund'[r].checker = refund[r].checker
        /\ refund'[r].status = handler[h].result.status
    BY <1>5, <1>t, <2>1 DEF RecordRefundResult, RefundRow, Stored
  <2> QED
    BY <2>1, <2>2 DEF OutcomeOf
<1>6. ASSUME NEW w \in Workers,
             ApplyRefundRecoveryResult(w) \/ RecordRefundRecoveryFailure(w), ~ UNCHANGED refund
      PROVE  OutcomeOf(worker[w].at) /\ worker[w].at \in Stored
  <2> DEFINE r == worker[w].at
  <2>1. r \in Stored /\ worker[w].answer \in Outcome
    BY <1>6, <1>t DEF ApplyRefundRecoveryResult, RecordRefundRecoveryFailure, Recovery
  <2>2. /\ Stored' = Stored
        /\ \A q \in Stored \ {r} : refund'[q] = refund[q]
        /\ refund'[r].checker = refund[r].checker
        /\ refund'[r].status \in {worker[w].answer, "UNKNOWN"}
    BY <1>6, <1>t, <2>1
    DEF ApplyRefundRecoveryResult, RecordRefundRecoveryFailure, RefundRow, Stored
  <2> QED
    BY <2>1, <2>2 DEF OutcomeOf, Outcome
<1>7. ASSUME NEW h \in Handlers, HandlerStep(h) \/ HandlerCrash(h)
      PROVE  \/ UNCHANGED refund
             \/ ClaimRefundDispatch(h) \/ CompleteRefundDispatch(h) \/ RecordRefundResult(h)
  BY <1>7 DEF HandlerStep, HandlerCrash, Replay, SendRefund, AnswerRefund, RejectRefund,
              TimeoutRefund, AggregateRefundResult
<1>8. ASSUME NEW w \in Workers, WorkerStep(w) \/ WorkerCrash(w)
      PROVE  \/ UNCHANGED refund
             \/ ApplyRefundRecoveryResult(w) \/ RecordRefundRecoveryFailure(w)
  BY <1>8 DEF WorkerStep, WorkerCrash, QueryRefundStatus, RecoveryFails, AggregateParent,
              RecalculateRefundParent
<1>9. ASSUME NEW h \in Handlers, NEW r \in RefundIds, ResumeRefund(h, r) PROVE UNCHANGED refund
  BY <1>9 DEF ResumeRefund
<1>10. ASSUME NEW t \in TxIds, NEW v \in LateVends,
              RecordAndApplyWebhook(t, v) \/ LateVendResult(t, v)
       PROVE  UNCHANGED refund
  BY <1>10 DEF RecordAndApplyWebhook, LateVendResult
<1>11. ASSUME NEW r \in RefundIds, ProviderReceives(r) \/ ProviderFinishes(r)
       PROVE  UNCHANGED refund
  BY <1>11 DEF ProviderReceives, ProviderFinishes
<1>12. /\ \A h \in Handlers : RecordRefundResult(h) => UNCHANGED <<refunded, lapsed>>
       /\ \A w \in Workers : ApplyRefundRecoveryResult(w) \/ RecordRefundRecoveryFailure(w)
                               => UNCHANGED <<refunded, lapsed>>
  BY DEF RecordRefundResult, ApplyRefundRecoveryResult, RecordRefundRecoveryFailure, provider
<1> QED
  BY <1>1, <1>2, <1>3, <1>4, <1>5, <1>6, <1>7, <1>8, <1>9, <1>10, <1>11, <1>12 DEF Next, vars

\* What nobody has approved has no checker.
Unapproved == \A r \in Stored : refund[r].status = "REQUESTED" => refund[r].checker = Nobody

LEMMA UnapprovedNext == TypeInv /\ Unapproved /\ [Next]_vars => Unapproved'
<1> SUFFICES ASSUME TypeInv, Unapproved, [Next]_vars PROVE Unapproved'
  OBVIOUS
<1>1. ASSUME NEW u \in Requesters, NEW t \in TxIds, NEW r \in RefundIds, NEW a \in Amounts,
             RequestRefund(u, t, r, a)
      PROVE  Unapproved'
  BY <1>1 DEF RequestRefund, WithRefund, RequestedRow, Unapproved, Stored
<1>2. ASSUME NEW h \in Handlers, NEW r \in RefundIds, ApproveRefund(h, r)
      PROVE  Unapproved'
  BY <1>2 DEF ApproveRefund, Unapproved, Stored, TypeInv, RefundsFine, RefundRow
<1>3. CASE SameOutcomes
  BY <1>3 DEF SameOutcomes, Unapproved
<1>4. ASSUME NEW r \in Stored, OutcomeOf(r) PROVE Unapproved'
  BY <1>4 DEF OutcomeOf, Outcome, Unapproved
<1> QED
  BY <1>1, <1>2, <1>3, <1>4, OutcomeSteps

LedgerInv ==
  /\ TypeInv
  /\ PersonsInv
  /\ LeaseInv
  /\ TruthInv
  /\ RowsFail
  /\ CallsFail
  /\ ParentInv
  /\ Unapproved

LEMMA LedgerInvHolds == Spec => []LedgerInv
<1>1. Init => LedgerInv
  <2>1. Init => Unapproved
    BY DEF Init, Unapproved, Stored
  <2> QED
    BY <2>1, TypeInit, PersonsInit, LeaseInit, TruthInit, FailInit, ParentInit DEF LedgerInv
<1>2. LedgerInv /\ [Next]_vars => LedgerInv'
  BY TypeNext, PersonsNext, LeaseNext, TruthNext, FailNext, ParentNext, UnapprovedNext
  DEF LedgerInv
<1> QED
  BY <1>1, <1>2, PTL DEF Spec

\* The ledger counts what the tables count.
LEMMA SameWorth ==
  TypeInv => /\ \A S \in SUBSET Stored : Ledger!Worth(S) = Worth(S)
             /\ DOMAIN Entered = Stored
             /\ \A t \in TxIds : Ledger!Promised(t) = Reserved(t) /\ Ledger!Paid(t) = Paid(t)
<1> SUFFICES ASSUME TypeInv
             PROVE  /\ \A S \in SUBSET Stored : Ledger!Worth(S) = Worth(S)
                    /\ DOMAIN Entered = Stored
                    /\ \A t \in TxIds : Ledger!Promised(t) = Reserved(t) /\ Ledger!Paid(t) = Paid(t)
  OBVIOUS
<1>1. DOMAIN Entered = Stored
  BY DEF Entered
<1>2. \A r \in Stored : Entered[r].amount = refund[r].amount /\ Entered[r].txn = refund[r].txn
  BY DEF Entered
<1>3. ASSUME NEW S \in SUBSET Stored PROVE Ledger!Worth(S) = Worth(S)
  <2>1. \A r \in S : {r} \X (1..Entered[r].amount) = Units(r)
    BY <1>2 DEF Units
  <2>2. {{r} \X (1..Entered[r].amount) : r \in S} = {Units(r) : r \in S}
    BY <2>1
  <2>3. \A T : Ledger!Cardinality(T) = Cardinality(T)
    BY DEF Cardinality, Ledger!Cardinality
  <2> QED
    BY <2>2, <2>3 DEF Worth, Ledger!Worth
<1>4. ASSUME NEW t \in TxIds PROVE Ledger!Of(t) = RefundsOf(t)
  BY <1>1, <1>2 DEF Ledger!Of, RefundsOf
<1>5. \A r \in Stored : Told[r] = "failed" <=> refund[r].status = "FAILED"
  BY DEF Told, Says, TypeInv, RefundsFine
<1>6. ASSUME NEW t \in TxIds PROVE Ledger!Promised(t) = Reserved(t) /\ Ledger!Paid(t) = Paid(t)
  <2>1. RefundsOf(t) \subseteq Stored
    BY DEF RefundsOf
  <2> QED
    BY <1>4, <1>5, <2>1 DEF Ledger!Promised, Ledger!Paid, Reserved, Paid
<1> QED
  BY <1>1, <1>3, <1>6

\* What the table shows as refunded is paid in full, in the ledger's own terms.
LEMMA ShownIsPaid ==
  TypeInv /\ ParentInv => \A t \in Closed : Ledger!Worth(Ledger!Paid(t)) >= Total[t]
<1> SUFFICES ASSUME TypeInv, ParentInv, NEW t \in Closed
             PROVE  Ledger!Worth(Ledger!Paid(t)) >= Total[t]
  OBVIOUS
<1>1. t \in TxIds /\ Worth(Paid(t)) >= Total[t]
  BY ParentSafe DEF Closed, RefundedIsPaid
<1>2. Paid(t) \subseteq Stored
  BY DEF Paid, RefundsOf
<1> QED
  BY <1>1, <1>2, SameWorth

\* What a step leaves of the books.
LEMMA SameBooks ==
  ASSUME RowsKept, Stored' = Stored, \A q \in Stored : refund'[q].checker = refund[q].checker
  PROVE  Entered' = Entered
BY DEF Entered, RowsKept

LEMMA SameSayings ==
  ASSUME Stored' = Stored, \A q \in Stored : refund'[q].status = refund[q].status
  PROVE  Told' = Told
<1>1. \A q \in RefundIds : Says(q)' = Says(q)
  BY DEF Says
<1> QED
  BY <1>1 DEF Told

\* Every step enters, approves, pays, concludes, tells, takes over, or is not seen.
LEMMA LedgerNext ==
  LedgerInv /\ LedgerInv' /\ [Next]_vars
    => Ledger!Step \/ UNCHANGED <<Entered, refunded, Told, lapsed>>
<1> SUFFICES ASSUME LedgerInv, LedgerInv', [Next]_vars
             PROVE  Ledger!Step \/ UNCHANGED <<Entered, refunded, Told, lapsed>>
  OBVIOUS
<1>t. TypeInv /\ TypeInv' /\ RowsKept
  BY TypeNext DEF LedgerInv
<1>s. /\ Stored \subseteq RefundIds
      /\ \A r \in Stored : refund[r] \in RefundRow
      /\ refund \in [Stored -> RefundRow]
      /\ DOMAIN Entered = Stored
  BY <1>t DEF TypeInv, RefundsFine, Entered
<1>1. ASSUME NEW u \in Requesters, NEW t \in TxIds, NEW r \in RefundIds, NEW a \in Amounts,
             RequestRefund(u, t, r, a)
      PROVE  Ledger!Enter(r, t, a, u)
  <2>1. /\ r \notin Stored /\ WithinTotal(t, a)
        /\ Stored' = Stored \cup {r}
        /\ refund' = [q \in Stored \cup {r} |-> IF q = r THEN RequestedRow(t, a, u) ELSE refund[q]]
        /\ UNCHANGED <<refunded, lapsed>>
    BY <1>1 DEF RequestRefund, WithRefund, Stored, provider
  <2>2. Ledger!Worth(Ledger!Promised(t)) + a <= Total[t]
    <3>1. Reserved(t) \subseteq Stored
      BY DEF Reserved, RefundsOf
    <3> QED
      BY <1>t, <2>1, <3>1, SameWorth DEF WithinTotal
  <2>3. Entered' = [q \in DOMAIN Entered \cup {r} |->
                      IF q = r THEN Ledger!Entry(t, a, u) ELSE Entered[q]]
    BY <1>s, <2>1 DEF Entered, Ledger!Entry, RequestedRow
  <2>4. Told' = Told
    <3>1. \A q \in RefundIds : Says(q)' = Says(q)
      BY <2>1 DEF Says, RequestedRow
    <3> QED
      BY <3>1 DEF Told
  <2> QED
    BY <1>s, <2>1, <2>2, <2>3, <2>4 DEF Ledger!Enter
<1>2. ASSUME NEW h \in Handlers, NEW r \in RefundIds, ApproveRefund(h, r)
      PROVE  Ledger!Approve(r, UserOf[h])
  <2>1. /\ r \in Stored /\ refund[r].status = "REQUESTED" /\ refund[r].maker # UserOf[h]
        /\ UNCHANGED <<refunded, lapsed>>
    BY <1>2 DEF ApproveRefund, MayApprove, provider
  <2>2. /\ Stored' = Stored
        /\ \A q \in Stored \ {r} : refund'[q] = refund[q]
        /\ refund'[r].checker = UserOf[h] /\ refund'[r].status = "APPROVED"
    BY <1>2, <1>s, <2>1 DEF ApproveRefund, RefundRow, Stored
  <2>3. Entered[r].checker = Nobody /\ Entered[r].maker # UserOf[h]
    BY <2>1 DEF Entered, LedgerInv, Unapproved
  <2>4. Entered' = [Entered EXCEPT ![r].checker = UserOf[h]]
    BY <1>t, <1>s, <2>1, <2>2 DEF Entered, RowsKept
  <2>5. Told' = Told
    <3>1. \A q \in RefundIds : Says(q)' = Says(q)
      BY <2>1, <2>2 DEF Says
    <3> QED
      BY <3>1 DEF Told
  <2> QED
    BY <1>s, <2>1, <2>3, <2>4, <2>5 DEF Ledger!Approve
<1>3. ASSUME NEW r \in RefundIds, ProviderReceives(r)
      PROVE  Ledger!Pay(r) \/ UNCHANGED <<Entered, refunded, Told, lapsed>>
  <2>1. UNCHANGED <<Entered, Told, lapsed>>
    BY <1>3 DEF ProviderReceives, Entered, Told, Says, Stored
  <2>2. CASE UNCHANGED refunded
    BY <2>1, <2>2
  <2>3. CASE ~ UNCHANGED refunded
    <3>1. /\ refunded[r] = "NONE" /\ refunded' = [refunded EXCEPT ![r] = "PENDING"]
          /\ \E h \in Handlers : <<r, h>> \in outstanding
      BY <1>3, <2>3 DEF ProviderReceives
    <3>2. Decided(r)
      BY <3>1 DEF LedgerInv, PersonsInv, Sent
    <3>3. r \in Stored /\ Entered[r].checker # Nobody
      BY <3>2 DEF LedgerInv, PersonsInv, Decided, Entered
    <3>4. Told[r] = "failed" => r \in lapsed
      <4>1. SUFFICES ASSUME Told[r] = "failed", r \notin lapsed PROVE FALSE
        OBVIOUS
      <4>2. refund[r].status = "FAILED"
        BY <4>1 DEF Told, Says
      <4>3. Dead(r)
        BY <3>3, <4>1, <4>2 DEF LedgerInv, RowsFail
      <4> QED
        BY <3>1, <4>3 DEF Dead, Unsent
    <3> QED
      BY <1>s, <2>1, <3>1, <3>3, <3>4 DEF Ledger!Pay
  <2> QED
    BY <2>2, <2>3
<1>4. ASSUME NEW r \in RefundIds, ProviderFinishes(r)
      PROVE  Ledger!Conclude(r)
  <2>1. UNCHANGED <<Entered, Told, lapsed>>
    BY <1>4 DEF ProviderFinishes, Entered, Told, Says, Stored
  <2> QED
    BY <1>4, <2>1 DEF ProviderFinishes, Ledger!Conclude
<1>5. ASSUME NEW r \in RefundIds, LeaseExpires(r)
      PROVE  Ledger!TakeOver(r)
  <2>1. /\ r \in Stored /\ lapsed' = lapsed \cup {r} /\ UNCHANGED refunded
        /\ Stored' = Stored
        /\ \A q \in Stored : /\ refund'[q].checker = refund[q].checker
                             /\ refund'[q].status = refund[q].status
    BY <1>5, <1>s DEF LeaseExpires, RefundRow, Stored, provider
  <2>2. Entered' = Entered /\ Told' = Told
    BY <1>t, <2>1, SameBooks, SameSayings
  <2> QED
    BY <1>s, <2>1, <2>2 DEF Ledger!TakeOver
<1>6. ASSUME SameOutcomes, UNCHANGED <<refunded, lapsed>>
      PROVE  UNCHANGED <<Entered, refunded, Told, lapsed>>
  BY <1>t, <1>6, SameBooks, SameSayings DEF SameOutcomes
<1>7. ASSUME NEW r \in Stored, OutcomeOf(r), UNCHANGED <<refunded, lapsed>>
      PROVE  \/ UNCHANGED <<Entered, refunded, Told, lapsed>>
             \/ \E o \in {"open", "paid", "failed"} : Ledger!Tell(r, o)
  <2> DEFINE o == Told'[r]
  <2>1. Entered' = Entered
    BY <1>t, <1>7, SameBooks DEF OutcomeOf
  <2>2. Stored' = Stored /\ r \in RefundIds /\ o = Says(r)' /\ Told[r] = Says(r)
    BY <1>7, <1>s DEF OutcomeOf, Told
  <2>3. Told' = [Told EXCEPT ![r] = o]
    <3>1. \A q \in RefundIds \ {r} : Says(q)' = Says(q)
      BY <1>7 DEF OutcomeOf, Says
    <3> QED
      BY <2>2, <3>1 DEF Told
  <2>4. CASE Told[r] # "open" /\ r \notin lapsed
    <3>1. refund[r].status \in {"COMPLETED", "FAILED"}
      BY <2>2, <2>4 DEF Says
    <3>2. refund'[r].status = refund[r].status
      BY <2>4, <3>1, FinalKept DEF LedgerInv
    <3>3. SameOutcomes
      BY <1>7, <3>2 DEF OutcomeOf, SameOutcomes
    <3> QED
      BY <1>6, <1>7, <3>3
  <2>5. CASE Told[r] = "open" \/ r \in lapsed
    <3>1. o = "paid" => refunded[r] = "COMPLETED"
      BY <1>7, <2>2 DEF Says, LedgerInv, TruthInv
    <3>2. o = "failed" => refunded[r] \in {"NONE", "FAILED"} \/ r \in lapsed
      <4>1. SUFFICES ASSUME o = "failed", r \notin lapsed PROVE refunded[r] \in {"NONE", "FAILED"}
        OBVIOUS
      <4>2. refund'[r].status = "FAILED"
        BY <2>2, <4>1 DEF Says
      <4>3. Dead(r)'
        BY <1>7, <2>2, <4>1, <4>2 DEF LedgerInv, RowsFail
      <4> QED
        BY <1>7, <4>3 DEF Dead, Unsent
    <3>3. o \in {"open", "paid", "failed"}
      BY <2>2 DEF Says
    <3>4. Ledger!Tell(r, o)
      BY <1>7, <1>s, <2>1, <2>3, <2>5, <3>1, <3>2 DEF Ledger!Tell
    <3> QED
      BY <3>3, <3>4
  <2> QED
    BY <2>4, <2>5
<1>8. \/ UNCHANGED <<refunded, lapsed>>
      \/ \E r \in RefundIds : ProviderReceives(r) \/ ProviderFinishes(r) \/ LeaseExpires(r)
  BY ZenonT(60)
  DEF Next, HandlerStep, WorkerStep, RequestRefund, ApproveRefund, ResumeRefund,
      ClaimRefundDispatch, Replay, SendRefund, AnswerRefund, RejectRefund, TimeoutRefund,
      AggregateRefundResult, RecordRefundResult, CompleteRefundDispatch, HandlerCrash,
      ClaimNextRefund, QueryRefundStatus, RecoveryFails, ApplyRefundRecoveryResult,
      AggregateParent, RecalculateRefundParent, RecordRefundRecoveryFailure, WorkerCrash,
      RecordAndApplyWebhook, LateVendResult, RecoveryLeaseExpires, provider, vars
<1>9. \A h \in Handlers : UserOf[h] \in Approvers
  BY UsersAssumption
<1>10. \/ \E u \in Requesters, t \in TxIds, r \in RefundIds, a \in Amounts :
            RequestRefund(u, t, r, a)
       \/ \E h \in Handlers, r \in RefundIds : ApproveRefund(h, r)
       \/ \E r \in RefundIds : ProviderReceives(r) \/ ProviderFinishes(r) \/ LeaseExpires(r)
       \/ UNCHANGED <<refunded, lapsed>> /\ SameOutcomes
       \/ \E r \in Stored : UNCHANGED <<refunded, lapsed>> /\ OutcomeOf(r)
  BY <1>t, <1>8, OutcomeSteps
<1> QED
  BY <1>s, <1>1, <1>2, <1>3, <1>4, <1>5, <1>6, <1>7, <1>9, <1>10 DEF Ledger!Step

\* Refunds keep the ledger.
THEOREM LedgerIsKeptCorrect == Spec => LedgerIsKept
<1>1. Init => Ledger!Init
  <2> SUFFICES ASSUME Init PROVE Ledger!Init
    OBVIOUS
  <2>1. Stored = {} /\ Entered = Ledger!NoEntries
    BY DEF Init, Stored, Entered, Ledger!NoEntries
  <2>2. Told = [r \in RefundIds |-> "open"]
    BY <2>1 DEF Told, Says
  <2>3. Closed = {}
    BY VendsAssumption DEF Init, Closed, VendedRow
  <2> QED
    BY <2>1, <2>2, <2>3 DEF Init, Ledger!Init
<1>2. LedgerInv' => Ledger!Shown
  <2>1. (TypeInv /\ ParentInv => \A t \in Closed : Ledger!Worth(Ledger!Paid(t)) >= Total[t])'
    BY ShownIsPaid, PTL
  <2> QED
    BY <2>1 DEF LedgerInv, Ledger!Shown
<1>3. LedgerInv /\ LedgerInv' /\ [Next]_vars
        => [Ledger!Next]_<<Ledger!ledger, Closed>>
  BY <1>2, LedgerNext DEF Ledger!Next, Ledger!ledger
<1> QED
  BY <1>1, <1>3, LedgerInvHolds, PTL DEF Spec, LedgerIsKept, Ledger!Spec

=============================================================================
