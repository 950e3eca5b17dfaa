--------------------------- MODULE RefundsProofs ---------------------------
(***************************************************************************)
(* What Refunds promises about who sends a refund, for every number of     *)
(* transactions, refunds, users, handlers, workers, lapses and crashes.    *)
(***************************************************************************)
EXTENDS Refunds, TLAPS, FiniteSetTheorems

-----------------------------------------------------------------------------
(* Types. *)

\* TypeOK in parts, and more: whoever is busy has a stored refund at hand, a worker
\* also a token; only stored refunds have gone to a provider; and there are finitely
\* many of them.
RefundsFine ==
  Stored \subseteq RefundIds /\ refund \in [Stored -> RefundRow] /\ IsFiniteSet(Stored)

HandlersFine ==
  /\ handler \in [Handlers -> Approval]
  /\ \A h \in Handlers : handler[h].pc # "idle" => handler[h].at \in Stored

WorkersFine ==
  /\ worker \in [Workers -> Recovery]
  /\ \A w \in Workers :
       worker[w].pc # "idle" => worker[w].at \in Stored /\ worker[w].token # 0

ProviderFine ==
  /\ vended \in [TxIds -> Final]
  /\ outstanding \subseteq Stored \X Handlers
  /\ refunded \in [RefundIds -> {"NONE", "PENDING", "COMPLETED", "FAILED"}]
  /\ \A r \in RefundIds : refunded[r] # "NONE" => r \in Stored

RestFine ==
  /\ parent \in [TxIds -> ParentRow]
  /\ issued \in Nat
  /\ lapses \in 0..MaxLapses
  /\ crashes \in 0..MaxCrashes
  /\ lapsed \subseteq Stored
  /\ disordered \subseteq TxIds

TypeInv == RefundsFine /\ HandlersFine /\ WorkersFine /\ ProviderFine /\ RestFine

LEMMA Typed == TypeInv => TypeOK
BY DEF TypeInv, RefundsFine, HandlersFine, WorkersFine, ProviderFine, RestFine, TypeOK

\* A step never takes a refund away, and leaves what was requested as it was.
RowsKept ==
  /\ Stored \subseteq Stored'
  /\ \A r \in Stored :
       /\ refund'[r].txn = refund[r].txn
       /\ refund'[r].amount = refund[r].amount
       /\ refund'[r].maker = refund[r].maker

\* A refund with another row in its place.
LEMMA RowReplaced ==
  ASSUME TypeOK, NEW r \in Stored, NEW row \in RefundRow,
         row.txn = refund[r].txn, row.amount = refund[r].amount, row.maker = refund[r].maker,
         refund' = [refund EXCEPT ![r] = row]
  PROVE  /\ Stored' = Stored
         /\ refund' \in [Stored' -> RefundRow]
         /\ refund'[r] = row
         /\ \A q \in Stored : q # r => refund'[q] = refund[q]
         /\ RowsKept
<1>1. /\ Stored' = Stored
      /\ refund' \in [Stored' -> RefundRow]
      /\ refund'[r] = row
      /\ \A q \in Stored : q # r => refund'[q] = refund[q]
  BY DEF TypeOK, Stored
<1> QED
  BY <1>1 DEF RowsKept

LEMMA RowsUnchanged ==
  ASSUME TypeOK, UNCHANGED refund
  PROVE  Stored' = Stored /\ RowsKept
BY DEF Stored, RowsKept

\* What a step leaves alone stays fine.
LEMMA PartsKept ==
  ASSUME TypeInv, RowsKept
  PROVE  /\ UNCHANGED refund => RefundsFine'
         /\ UNCHANGED handler => HandlersFine'
         /\ UNCHANGED worker => WorkersFine'
         /\ UNCHANGED provider => ProviderFine'
         /\ UNCHANGED <<environment, parent, issued, lapsed>> => RestFine'
<1>1. UNCHANGED refund => RefundsFine'
  BY DEF TypeInv, RefundsFine, Stored
<1>2. UNCHANGED handler => HandlersFine'
  BY DEF TypeInv, RowsKept, HandlersFine
<1>3. UNCHANGED worker => WorkersFine'
  BY DEF TypeInv, RowsKept, WorkersFine
<1>4. UNCHANGED provider => ProviderFine'
  BY DEF TypeInv, RowsKept, ProviderFine, provider
<1>5. UNCHANGED <<environment, parent, issued, lapsed>> => RestFine'
  BY DEF TypeInv, RowsKept, RestFine, environment
<1> QED
  BY <1>1, <1>2, <1>3, <1>4, <1>5

\* What the steps of a refund's life make of its row.
LEMMA RefundRows ==
  ASSUME NEW row \in RefundRow
  PROVE  /\ \A u \in Approvers :
              [row EXCEPT !.status = "APPROVED", !.checker = u] \in RefundRow
         /\ [row EXCEPT !.dispatch = "DISPATCHING", !.lease = "live"] \in RefundRow
         /\ \A s \in Outcome, b \in BOOLEAN : [row EXCEPT !.status = s, !.ref = b] \in RefundRow
         /\ \A s \in {"COMPLETED", "FAILED", "UNKNOWN"} :
              [row EXCEPT !.dispatch = s, !.lease = "none"] \in RefundRow
         /\ [row EXCEPT !.lease = "expired"] \in RefundRow
         /\ \A columns \in RefundRecovery :
              /\ [row EXCEPT !.recovery = columns] \in RefundRow
              /\ \A s \in Outcome :
                   [row EXCEPT !.status = s, !.recovery = columns] \in RefundRow
BY DEF RefundRow, RefundStatus, Outcome, Lease

LEMMA RecoveryColumnsSteps ==
  ASSUME NEW columns \in RefundRecovery
  PROVE  /\ \A token \in Nat : /\ ClaimColumns(columns, token) \in RefundRecovery
                                 /\ ClaimColumns(columns, token).token = token
         /\ Released(columns) \in RefundRecovery
         /\ Released(columns).token = 0
         /\ [columns EXCEPT !.lease = "expired"] \in RefundRecovery
BY DEF RefundRecovery, ClaimColumns, Released, Lease

\* The columns an aggregate decides, and what they make of a parent.
LEMMA AggregatedColumns ==
  ASSUME NEW t \in TxIds, NEW statusOf
  PROVE  Recalculated(t, statusOf) \in ParentColumns
<1> DEFINE some(s) == \E r \in RefundsOf(t) : statusOf[r] = s
           full == FullyRefunded(t, statusOf)
           open == some("REQUESTED") \/ some("APPROVED") \/ some("PENDING") \/ some("UNKNOWN")
           owed == NeedsFullRefund(parent[t].vend)
           required == ~ full /\ (owed \/ open \/ some("FAILED"))
<1>1. /\ full \in BOOLEAN
      /\ required \in BOOLEAN
      /\ Held(full, owed, open) \in BOOLEAN
  BY DEF FullyRefunded, Held
<1> QED
  BY <1>1 DEF Recalculated, ParentColumns, ParentRefundStatus

LEMMA ParentRows ==
  ASSUME NEW row \in ParentRow
  PROVE  /\ [row EXCEPT !.refundStatus = "REQUESTED", !.refundRequired = TRUE,
                         !.status = "REFUND_PENDING", !.blocked = TRUE] \in ParentRow
         /\ \A columns \in ParentColumns : WithColumns(row, columns) \in ParentRow
         /\ \A v \in VendStatus :
              /\ Notified(row, v) \in ParentRow
              /\ WithOutcome(row, v) \in ParentRow
              /\ \A named \in BOOLEAN :
                   /\ WithReference(Notified(row, v), named) \in ParentRow
                   /\ WithReference(WithOutcome(row, v), named) \in ParentRow
<1>1. ASSUME NEW columns \in ParentColumns PROVE WithColumns(row, columns) \in ParentRow
  BY DEF WithColumns, ParentColumns, ParentRow, TransactionStatus
<1>2. ASSUME NEW v \in VendStatus
      PROVE  Notified(row, v) \in ParentRow /\ WithOutcome(row, v) \in ParentRow
  <2>1. WithOutcome(row, v) \in ParentRow
    <3>1. /\ NormalizedFromVend(v) \in TransactionStatus
          /\ NeedsFullRefund(v) \in BOOLEAN
          /\ (NormalizedFromVend(v) # "FULFILLED") \in BOOLEAN
      BY DEF NormalizedFromVend, NeedsFullRefund, VendStatus, TransactionStatus
    <3> QED
      BY <3>1 DEF WithOutcome, ParentRow
  <2> QED
    BY <2>1 DEF Notified, ParentRow
<1>3. ASSUME NEW q \in ParentRow, NEW named \in BOOLEAN PROVE WithReference(q, named) \in ParentRow
  BY DEF WithReference, ParentRow
<1>4. [row EXCEPT !.refundStatus = "REQUESTED", !.refundRequired = TRUE,
                  !.status = "REFUND_PENDING", !.blocked = TRUE] \in ParentRow
  BY DEF ParentRow, ParentRefundStatus, TransactionStatus
<1> QED
  BY <1>1, <1>2, <1>3, <1>4

\* What the steps of an approval and of a recovery make of their records.
LEMMA Approvals ==
  ASSUME NEW a \in Approval
  PROVE  /\ \A where \in {"claim", "send", "await", "record", "commit", "complete"} :
              /\ [a EXCEPT !.pc = where] \in Approval
              /\ [a EXCEPT !.pc = where].at = a.at
         /\ \A result \in Result :
              /\ [a EXCEPT !.pc = "record", !.result = result] \in Approval
              /\ [a EXCEPT !.pc = "record", !.result = result].at = a.at
         /\ \A where \in {"commit", "complete"}, columns \in ParentColumns :
              /\ [a EXCEPT !.pc = where, !.columns = columns] \in Approval
              /\ [a EXCEPT !.pc = where, !.columns = columns].at = a.at
BY DEF Approval

LEMMA Results ==
  /\ \A s \in Outcome : Confirmed(s) \in Result
  /\ FailedResult \in Result
  /\ UnknownResult \in Result
  /\ NoColumns \in ParentColumns
  /\ NoApproval \in Approval
  /\ \A r \in RefundIds : [NoApproval EXCEPT !.pc = "claim", !.at = r] \in Approval
<1>1. /\ \A s \in Outcome : Confirmed(s) \in Result
      /\ FailedResult \in Result
      /\ UnknownResult \in Result
      /\ NoColumns \in ParentColumns
  BY DEF Confirmed, FailedResult, UnknownResult, Result, Outcome, NoColumns, ParentColumns,
         ParentRefundStatus
<1>2. NoApproval \in Approval
  BY <1>1 DEF NoApproval, Approval
<1> QED
  BY <1>1, <1>2 DEF Approval

LEMMA Recoveries ==
  /\ NoRecoveryClaim \in Recovery
  /\ \A r \in RefundIds, token \in Nat, where \in {"query", "aggregate", "fail"} :
       [NoRecoveryClaim EXCEPT !.pc = where, !.at = r, !.token = token] \in Recovery
  /\ \A a \in Recovery :
       /\ \A s \in Outcome : [a EXCEPT !.pc = "apply", !.answer = s] \in Recovery
       /\ \A columns \in ParentColumns :
            [a EXCEPT !.pc = "commit", !.columns = columns] \in Recovery
<1>1. NoRecoveryClaim \in Recovery
  BY Results DEF NoRecoveryClaim, Recovery, Outcome
<1> QED
  BY <1>1 DEF Recovery

LEMMA ReportsType == \A s : Reports(s) \subseteq {"PENDING", "COMPLETED", "FAILED"}
BY DEF Reports

LEMMA TypeInit == Init => TypeInv
<1> SUFFICES ASSUME Init PROVE TypeInv
  OBVIOUS
<1>1. Stored = {} /\ refund \in [Stored -> RefundRow]
  BY DEF Init, Stored
<1>2. parent \in [TxIds -> ParentRow]
  <2>1. \A v \in Final, known \in BOOLEAN : VendedRow(v, known) \in ParentRow
    BY VendsAssumption
    DEF VendedRow, ParentRow, VendStatus, TransactionStatus, ParentRefundStatus, NeedsFullRefund
  <2> QED
    BY <2>1 DEF Init
<1>3. /\ handler \in [Handlers -> Approval]
      /\ worker \in [Workers -> Recovery]
  BY Results, Recoveries DEF Init
<1>4. lapses \in 0..MaxLapses /\ crashes \in 0..MaxCrashes
  BY RefundBoundsAssumption DEF Init
<1>5. HandlersFine /\ WorkersFine
  BY <1>3 DEF Init, HandlersFine, WorkersFine, NoApproval, NoRecoveryClaim
<1>6. RefundsFine
  BY <1>1, FS_EmptySet DEF RefundsFine
<1>7. ProviderFine /\ RestFine
  BY <1>1, <1>2, <1>4 DEF Init, ProviderFine, RestFine
<1> QED
  BY <1>5, <1>6, <1>7 DEF TypeInv

\* One handler, one worker or one refund moves.
LEMMA HandlerMoves ==
  ASSUME TypeInv, RowsKept, NEW h \in Handlers, NEW a \in Approval,
         a.pc # "idle" => a.at \in Stored,
         handler' = [handler EXCEPT ![h] = a]
  PROVE  HandlersFine'
<1>1. handler' \in [Handlers -> Approval]
  BY DEF TypeInv, HandlersFine
<1>2. ASSUME NEW g \in Handlers, handler'[g].pc # "idle" PROVE handler'[g].at \in Stored'
  <2>1. CASE g = h
    BY <1>2, <2>1 DEF TypeInv, HandlersFine, RowsKept
  <2>2. CASE g # h
    BY <1>2, <2>2 DEF TypeInv, HandlersFine, RowsKept
  <2> QED
    BY <2>1, <2>2
<1> QED
  BY <1>1, <1>2 DEF HandlersFine

LEMMA WorkerMoves ==
  ASSUME TypeInv, RowsKept, NEW w \in Workers, NEW a \in Recovery,
         a.pc # "idle" => a.at \in Stored /\ a.token # 0,
         worker' = [worker EXCEPT ![w] = a]
  PROVE  WorkersFine'
<1>1. worker' \in [Workers -> Recovery]
  BY DEF TypeInv, WorkersFine
<1>2. ASSUME NEW g \in Workers, worker'[g].pc # "idle"
      PROVE  worker'[g].at \in Stored' /\ worker'[g].token # 0
  <2>1. CASE g = w
    BY <1>2, <2>1 DEF TypeInv, WorkersFine, RowsKept
  <2>2. CASE g # w
    BY <1>2, <2>2 DEF TypeInv, WorkersFine, RowsKept
  <2> QED
    BY <2>1, <2>2
<1> QED
  BY <1>1, <1>2 DEF WorkersFine

LEMMA RefundMoves ==
  ASSUME TypeInv, NEW r \in Stored, NEW row \in RefundRow,
         row.txn = refund[r].txn, row.amount = refund[r].amount, row.maker = refund[r].maker,
         refund' = [refund EXCEPT ![r] = row]
  PROVE  RefundsFine' /\ RowsKept
BY Typed, RowReplaced DEF TypeInv, RefundsFine

\* An aggregate is written into one parent.
LEMMA ParentMoves ==
  ASSUME TypeInv, RowsKept, NEW t \in TxIds, NEW row \in ParentRow,
         parent' = [parent EXCEPT ![t] = row],
         UNCHANGED <<environment, issued, lapsed>>
  PROVE  RestFine'
BY DEF TypeInv, RestFine, RowsKept, environment

\* A late answer is written into one parent.
LEMMA VendMoves ==
  ASSUME TypeInv, RowsKept, NEW t \in TxIds, NEW row \in ParentRow,
         NEW v \in VendStatus, SetsBack(t, v),
         parent' = [parent EXCEPT ![t] = row],
         UNCHANGED <<lapses, crashes, issued, lapsed>>
  PROVE  RestFine'
BY DEF TypeInv, RestFine, RowsKept, SetsBack

\* One step preserves the types and keeps what was requested.
LEMMA TypeNext == TypeInv /\ [Next]_vars => TypeInv' /\ RowsKept
<1> SUFFICES ASSUME TypeInv, [Next]_vars PROVE TypeInv' /\ RowsKept
  OBVIOUS
<1>t. TypeOK
  BY Typed
<1>h. ASSUME NEW h \in Handlers
      PROVE  /\ handler[h] \in Approval
             /\ handler[h].pc # "idle"
                  => /\ handler[h].at \in Stored
                     /\ refund[handler[h].at] \in RefundRow
                     /\ refund[handler[h].at].txn \in TxIds
                     /\ parent[refund[handler[h].at].txn] \in ParentRow
  BY <1>t DEF TypeInv, HandlersFine, TypeOK, RefundRow
<1>w. ASSUME NEW w \in Workers
      PROVE  /\ worker[w] \in Recovery
             /\ worker[w].pc # "idle"
                  => /\ worker[w].at \in Stored
                     /\ worker[w].token \in Nat \ {0}
                     /\ refund[worker[w].at] \in RefundRow
                     /\ refund[worker[w].at].recovery \in RefundRecovery
                     /\ refund[worker[w].at].txn \in TxIds
                     /\ parent[refund[worker[w].at].txn] \in ParentRow
  <2>1. worker[w] \in Recovery /\ worker[w].token \in Nat
    BY DEF TypeInv, WorkersFine, Recovery
  <2>2. ASSUME worker[w].pc # "idle"
        PROVE  worker[w].at \in Stored /\ worker[w].token # 0
    BY <2>2 DEF TypeInv, WorkersFine
  <2>3. ASSUME worker[w].at \in Stored
        PROVE  /\ refund[worker[w].at] \in RefundRow
               /\ refund[worker[w].at].recovery \in RefundRecovery
               /\ refund[worker[w].at].txn \in TxIds
               /\ parent[refund[worker[w].at].txn] \in ParentRow
    BY <1>t, <2>3 DEF TypeOK, RefundRow
  <2> QED
    BY <2>1, <2>2, <2>3
<1>1. ASSUME NEW u \in Requesters, NEW t \in TxIds, NEW r \in RefundIds, NEW a \in Amounts,
             RequestRefund(u, t, r, a)
      PROVE  TypeInv' /\ RowsKept
  <2>1. RequestedRow(t, a, u) \in RefundRow
    BY DEF RequestedRow, RefundRow, RefundStatus, RefundRecovery, Lease
  <2>2. /\ Stored' = Stored \cup {r}
        /\ \A q \in Stored' : refund'[q] = IF q = r THEN RequestedRow(t, a, u) ELSE refund[q]
        /\ refund' \in [Stored' -> RefundRow]
    BY <1>1, <1>t, <2>1 DEF RequestRefund, WithRefund, Stored, TypeOK
  <2>3. RowsKept
    BY <1>1, <2>2 DEF RowsKept, RequestRefund
  <2>4. RefundsFine'
    BY <2>2, FS_AddElement DEF TypeInv, RefundsFine
  <2>5. RestFine'
    <3> DEFINE row == [parent[t] EXCEPT !.refundStatus = "REQUESTED",
                                        !.refundRequired = TRUE,
                                        !.status = "REFUND_PENDING", !.blocked = TRUE]
    <3>1. row \in ParentRow
      <4>1. parent[t] \in ParentRow
        BY <1>t DEF TypeOK
      <4> QED
        BY <4>1, ParentRows
    <3>2. parent' = [parent EXCEPT ![t] = row]
      BY <1>1 DEF RequestRefund
    <3> QED
      BY <1>1, <2>3, <3>1, <3>2, ParentMoves DEF RequestRefund
  <2> QED
    BY <1>1, <2>3, <2>4, <2>5, PartsKept DEF RequestRefund, TypeInv
<1>2. ASSUME NEW h \in Handlers, NEW r \in RefundIds, ApproveRefund(h, r)
      PROVE  TypeInv' /\ RowsKept
  <2> DEFINE row == [refund[r] EXCEPT !.status = "APPROVED", !.checker = UserOf[h]]
  <2>1. r \in Stored /\ refund[r] \in RefundRow /\ row \in RefundRow
    BY <1>2, <1>t, UsersAssumption, RefundRows DEF ApproveRefund, TypeOK
  <2>2. refund' = [refund EXCEPT ![r] = row]
    BY <1>2 DEF ApproveRefund
  <2>3. RefundsFine' /\ RowsKept
    BY <2>1, <2>2, RefundMoves DEF RefundRow
  <2>4. HandlersFine'
    <3>1. CASE Serve(h, r)
      BY <2>1, <2>3, <3>1, HandlerMoves, Results DEF Serve, NoApproval
    <3>2. CASE UNCHANGED handler
      BY <2>3, <3>2, PartsKept
    <3> QED
      BY <1>2, <3>1, <3>2 DEF ApproveRefund
  <2> QED
    BY <1>2, <2>3, <2>4, PartsKept DEF ApproveRefund, TypeInv
<1>3. ASSUME NEW h \in Handlers, NEW r \in RefundIds, ResumeRefund(h, r)
      PROVE  TypeInv' /\ RowsKept
  <2>1. RowsKept
    BY <1>3, <1>t, RowsUnchanged DEF ResumeRefund
  <2>2. HandlersFine'
    BY <1>3, <2>1, HandlerMoves, Results DEF ResumeRefund, Serve, NoApproval
  <2> QED
    BY <1>3, <2>1, <2>2, PartsKept DEF ResumeRefund, TypeInv
<1>4. ASSUME NEW h \in Handlers, ClaimRefundDispatch(h) PROVE TypeInv' /\ RowsKept
  <2> DEFINE r == handler[h].at
             row == [refund[r] EXCEPT !.dispatch = "DISPATCHING", !.lease = "live"]
  <2>1. r \in Stored /\ refund[r] \in RefundRow /\ row \in RefundRow
    BY <1>4, <1>h, RefundRows DEF ClaimRefundDispatch
  <2>2. refund' = [refund EXCEPT ![r] = row]
    BY <1>4 DEF ClaimRefundDispatch
  <2>3. RefundsFine' /\ RowsKept
    BY <2>1, <2>2, RefundMoves DEF RefundRow
  <2>4. HandlersFine'
    <3>1. [handler[h] EXCEPT !.pc = "send"] \in Approval
      BY <1>h, Approvals
    <3>2. handler' = [handler EXCEPT ![h] = [handler[h] EXCEPT !.pc = "send"]]
      BY <1>4 DEF ClaimRefundDispatch, Goto
    <3>3. [handler[h] EXCEPT !.pc = "send"].at = handler[h].at
      BY <1>h DEF Approval
    <3> QED
      BY <2>1, <2>3, <3>1, <3>2, <3>3, HandlerMoves
  <2> QED
    BY <1>4, <2>3, <2>4, PartsKept DEF ClaimRefundDispatch, TypeInv
<1>5. ASSUME NEW h \in Handlers, Replay(h) PROVE TypeInv' /\ RowsKept
  <2>1. RowsKept
    BY <1>5, <1>t, RowsUnchanged DEF Replay
  <2>2. HandlersFine'
    BY <1>5, <2>1, HandlerMoves, Results DEF Replay, Leave, NoApproval
  <2> QED
    BY <1>5, <2>1, <2>2, PartsKept DEF Replay, TypeInv
<1>6. ASSUME NEW h \in Handlers, SendRefund(h) PROVE TypeInv' /\ RowsKept
  <2>1. RowsKept
    BY <1>6, <1>t, RowsUnchanged DEF SendRefund
  <2>2. HandlersFine'
    <3>1. [handler[h] EXCEPT !.pc = "await"] \in Approval
      BY <1>h, Approvals
    <3>2. handler' = [handler EXCEPT ![h] = [handler[h] EXCEPT !.pc = "await"]]
      BY <1>6 DEF SendRefund, Goto
    <3>3. [handler[h] EXCEPT !.pc = "await"].at \in Stored
      BY <1>6, <1>h DEF Approval, SendRefund
    <3> QED
      BY <2>1, <3>1, <3>2, <3>3, HandlerMoves
  <2>3. ProviderFine'
    BY <1>6, <1>h, <1>t, RowsUnchanged DEF SendRefund, TypeInv, ProviderFine
  <2> QED
    BY <1>6, <2>1, <2>2, <2>3, PartsKept DEF SendRefund, TypeInv
<1>7. ASSUME NEW h \in Handlers, NEW result \in Result, GotResult(h, result),
             UNCHANGED <<refund, vended, refunded, environment, parent, worker, issued, lapsed>>,
             outstanding' \subseteq outstanding, handler[h].pc # "idle"
      PROVE  TypeInv' /\ RowsKept
  <2>1. RowsKept
    BY <1>7, <1>t, RowsUnchanged
  <2> DEFINE a == [handler[h] EXCEPT !.pc = "record", !.result = result]
  <2>2. a \in Approval /\ a.at \in Stored
    BY <1>7, <1>h, Approvals
  <2>3. handler' = [handler EXCEPT ![h] = a]
    BY <1>7 DEF GotResult
  <2>4. HandlersFine'
    BY <2>1, <2>2, <2>3, HandlerMoves
  <2>5. ProviderFine'
    BY <1>7, <1>t, RowsUnchanged DEF TypeInv, ProviderFine
  <2> QED
    BY <1>7, <2>1, <2>4, <2>5, PartsKept DEF TypeInv
<1>8. ASSUME NEW h \in Handlers, AnswerRefund(h) \/ RejectRefund(h) \/ TimeoutRefund(h)
      PROVE  TypeInv' /\ RowsKept
  <2>1. PICK result \in Result : GotResult(h, result)
    BY <1>8, Results, ReportsType DEF AnswerRefund, RejectRefund, TimeoutRefund, Outcome
  <2>2. /\ UNCHANGED <<refund, vended, refunded, environment, parent, worker, issued, lapsed>>
        /\ outstanding' \subseteq outstanding
        /\ handler[h].pc # "idle"
    BY <1>8 DEF AnswerRefund, RejectRefund, TimeoutRefund, provider
  <2> QED
    BY <1>7, <2>1, <2>2
<1>9. ASSUME NEW h \in Handlers, AggregateRefundResult(h) PROVE TypeInv' /\ RowsKept
  <2>1. RowsKept
    BY <1>9, <1>t, RowsUnchanged DEF AggregateRefundResult
  <2>2. PICK columns \in ParentColumns :
          handler' = [handler EXCEPT ![h] = [handler[h] EXCEPT !.pc = "commit",
                                                               !.columns = columns]]
    BY <1>9, <1>h, AggregatedColumns DEF AggregateRefundResult
  <2> DEFINE a == [handler[h] EXCEPT !.pc = "commit", !.columns = columns]
  <2>3. a \in Approval /\ a.at \in Stored
    <3>1. handler[h].pc # "idle"
      BY <1>9 DEF AggregateRefundResult
    <3> QED
      BY <3>1, <1>h, Approvals
  <2>4. HandlersFine'
    BY <2>1, <2>2, <2>3, HandlerMoves
  <2> QED
    BY <1>9, <2>1, <2>4, PartsKept DEF AggregateRefundResult, TypeInv
<1>10. ASSUME NEW h \in Handlers, RecordRefundResult(h) PROVE TypeInv' /\ RowsKept
  <2> DEFINE r == handler[h].at
             known == refund[r].ref \/ handler[h].result.outcome = "CONFIRMED"
             row == [refund[r] EXCEPT !.status = handler[h].result.status, !.ref = known]
             a == [handler[h] EXCEPT !.pc = "complete", !.columns = NoColumns]
  <2>1. /\ r \in Stored /\ refund[r] \in RefundRow
        /\ handler[h].result.status \in Outcome
        /\ handler[h].columns \in ParentColumns
    BY <1>10, <1>h DEF RecordRefundResult, Approval, Result
  <2>2. row \in RefundRow
    BY <2>1, RefundRows
  <2>3. refund' = [refund EXCEPT ![r] = row]
    BY <1>10 DEF RecordRefundResult
  <2>4. RefundsFine' /\ RowsKept
    BY <2>1, <2>2, <2>3, RefundMoves DEF RefundRow
  <2>5. a \in Approval /\ a.at = r
    BY <1>h, Approvals, Results
  <2>6. handler' = [handler EXCEPT ![h] = a]
    BY <1>10 DEF RecordRefundResult
  <2>7. HandlersFine'
    BY <2>1, <2>4, <2>5, <2>6, HandlerMoves
  <2>8. RestFine'
    <3>1. /\ refund[r].txn \in TxIds
          /\ WithColumns(parent[refund[r].txn], handler[h].columns) \in ParentRow
      BY <1>10, <1>h, <2>1, ParentRows DEF RecordRefundResult
    <3>2. parent' = [parent EXCEPT ![refund[r].txn] =
                       WithColumns(parent[refund[r].txn], handler[h].columns)]
      BY <1>10 DEF RecordRefundResult
    <3> QED
      BY <1>10, <2>4, <3>1, <3>2, ParentMoves DEF RecordRefundResult
  <2> QED
    BY <1>10, <2>4, <2>7, <2>8, PartsKept DEF RecordRefundResult, TypeInv
<1>11. ASSUME NEW h \in Handlers, CompleteRefundDispatch(h) PROVE TypeInv' /\ RowsKept
  <2> DEFINE r == handler[h].at
             state == DispatchStateFor(handler[h].result.outcome)
             row == [refund[r] EXCEPT !.dispatch = state, !.lease = "none"]
  <2>1. r \in Stored /\ refund[r] \in RefundRow
    BY <1>11, <1>h DEF CompleteRefundDispatch
  <2>2. state \in {"COMPLETED", "FAILED", "UNKNOWN"}
    BY <1>11, <1>h DEF DispatchStateFor, Approval, Result
  <2>3. row \in RefundRow
    BY <2>1, <2>2, RefundRows
  <2>4. refund' = [refund EXCEPT ![r] = row]
    BY <1>11 DEF CompleteRefundDispatch
  <2>5. RefundsFine' /\ RowsKept
    BY <2>1, <2>3, <2>4, RefundMoves DEF RefundRow
  <2>6. HandlersFine'
    BY <1>11, <2>5, HandlerMoves, Results DEF CompleteRefundDispatch, Leave, NoApproval
  <2> QED
    BY <1>11, <2>5, <2>6, PartsKept DEF CompleteRefundDispatch, TypeInv
<1>12. ASSUME NEW h \in Handlers, HandlerCrash(h) PROVE TypeInv' /\ RowsKept
  <2>1. RowsKept
    BY <1>12, <1>t, RowsUnchanged DEF HandlerCrash
  <2>2. HandlersFine'
    BY <1>12, <2>1, HandlerMoves, Results DEF HandlerCrash, NoApproval
  <2>3. RestFine'
    BY <1>12, <2>1, RefundBoundsAssumption DEF HandlerCrash, TypeInv, RestFine, RowsKept
  <2> QED
    BY <1>12, <2>1, <2>2, <2>3, PartsKept DEF HandlerCrash, TypeInv
<1>13. ASSUME NEW w \in Workers, NEW r \in RefundIds, ClaimNextRefund(w, r)
       PROVE  TypeInv' /\ RowsKept
  <2> DEFINE columns == ClaimColumns(refund[r].recovery, issued + 1)
             row == [refund[r] EXCEPT !.recovery = columns]
             a == [NoRecoveryClaim EXCEPT !.pc = "query", !.at = r, !.token = issued + 1]
  <2>1. r \in Stored /\ issued + 1 \in Nat \ {0}
    BY <1>13 DEF ClaimNextRefund, TypeInv, RestFine
  <2>2. refund[r] \in RefundRow /\ refund[r].recovery \in RefundRecovery
    BY <1>t, <2>1 DEF TypeOK, RefundRow
  <2>3. row \in RefundRow
    BY <2>1, <2>2, RecoveryColumnsSteps, RefundRows
  <2>4. refund' = [refund EXCEPT ![r] = row]
    BY <1>13 DEF ClaimNextRefund
  <2>5. RefundsFine' /\ RowsKept
    BY <2>1, <2>2, <2>3, <2>4, RefundMoves DEF RefundRow
  <2>6. WorkersFine'
    <3>1. a \in Recovery
      BY <2>1, Recoveries
    <3>2. a.at = r /\ a.token = issued + 1
      BY DEF NoRecoveryClaim
    <3>3. worker' = [worker EXCEPT ![w] = a]
      BY <1>13 DEF ClaimNextRefund, Holds
    <3> QED
      BY <2>1, <2>5, <3>1, <3>2, <3>3, WorkerMoves
  <2>7. RestFine'
    BY <1>13, <2>1, <2>5 DEF ClaimNextRefund, TypeInv, RestFine, RowsKept, environment
  <2> QED
    BY <1>13, <2>5, <2>6, <2>7, PartsKept DEF ClaimNextRefund, TypeInv
<1>14. ASSUME NEW w \in Workers, QueryRefundStatus(w) PROVE TypeInv' /\ RowsKept
  <2>1. RowsKept
    BY <1>14, <1>t, RowsUnchanged DEF QueryRefundStatus
  <2>2. PICK s \in Outcome :
          worker' = [worker EXCEPT ![w] = [worker[w] EXCEPT !.pc = "apply", !.answer = s]]
    BY <1>14, ReportsType DEF QueryRefundStatus, Outcome
  <2> DEFINE a == [worker[w] EXCEPT !.pc = "apply", !.answer = s]
  <2>3. worker[w].pc # "idle"
    BY <1>14 DEF QueryRefundStatus
  <2>4. a \in Recovery
    BY <1>w, Recoveries
  <2>5. a.at = worker[w].at /\ a.token = worker[w].token
    BY <1>w DEF Recovery
  <2>6. WorkersFine'
    BY <1>w, <2>1, <2>2, <2>3, <2>4, <2>5, WorkerMoves
  <2> QED
    BY <1>14, <2>1, <2>6, PartsKept DEF QueryRefundStatus, TypeInv
<1>15. ASSUME NEW w \in Workers, NEW where \in {"aggregate", "fail"}, worker[w].pc # "idle",
              Holds(w, where, worker[w].at, worker[w].token), RowsKept
       PROVE  WorkersFine'
  <2> DEFINE a == [NoRecoveryClaim EXCEPT !.pc = where, !.at = worker[w].at,
                                          !.token = worker[w].token]
  <2>1. a \in Recovery
    BY <1>15, <1>w, Recoveries DEF TypeInv, RefundsFine
  <2>2. a.at = worker[w].at /\ a.token = worker[w].token
    BY DEF NoRecoveryClaim
  <2>3. worker' = [worker EXCEPT ![w] = a]
    BY <1>15 DEF Holds
  <2> QED
    BY <1>15, <1>w, <2>1, <2>2, <2>3, WorkerMoves
<1>16. ASSUME NEW w \in Workers, Idle(w), RowsKept PROVE WorkersFine'
  BY <1>16, WorkerMoves, Recoveries DEF Idle, NoRecoveryClaim
<1>17. ASSUME NEW w \in Workers, RecoveryFails(w) PROVE TypeInv' /\ RowsKept
  <2>1. RowsKept
    BY <1>17, <1>t, RowsUnchanged DEF RecoveryFails
  <2>2. WorkersFine'
    BY <1>15, <1>17, <2>1 DEF RecoveryFails
  <2> QED
    BY <1>17, <2>1, <2>2, PartsKept DEF RecoveryFails, TypeInv
<1>18. ASSUME NEW w \in Workers, worker[w].pc # "idle", NEW s \in Outcome,
              refund' = [refund EXCEPT
                ![worker[w].at].status = s,
                ![worker[w].at].recovery = Released(refund[worker[w].at].recovery)]
       PROVE  RefundsFine' /\ RowsKept
  <2> DEFINE r == worker[w].at
             columns == Released(refund[r].recovery)
             row == [refund[r] EXCEPT !.status = s, !.recovery = columns]
  <2>1. r \in Stored /\ refund[r] \in RefundRow /\ refund[r].recovery \in RefundRecovery
    BY <1>18, <1>w
  <2>2. row \in RefundRow
    BY <2>1, RecoveryColumnsSteps, RefundRows
  <2>3. refund' = [refund EXCEPT ![r] = row]
    BY <1>18
  <2> QED
    BY <2>1, <2>2, <2>3, RefundMoves DEF RefundRow
<1>19. ASSUME NEW w \in Workers, ApplyRefundRecoveryResult(w) PROVE TypeInv' /\ RowsKept
  <2>1. worker[w].pc # "idle"
    BY <1>19 DEF ApplyRefundRecoveryResult
  <2>2. worker[w].answer \in Outcome
    BY <1>w DEF Recovery
  <2>3. CASE OwnsLease(w)
    <3>1. RefundsFine' /\ RowsKept
      BY <1>18, <1>19, <2>1, <2>2, <2>3 DEF ApplyRefundRecoveryResult
    <3>2. WorkersFine'
      BY <1>15, <1>19, <2>1, <2>3, <3>1 DEF ApplyRefundRecoveryResult
    <3> QED
      BY <1>19, <3>1, <3>2, PartsKept DEF ApplyRefundRecoveryResult, TypeInv
  <2>4. CASE ~ OwnsLease(w)
    <3>1. RowsKept
      BY <1>19, <1>t, <2>4, RowsUnchanged DEF ApplyRefundRecoveryResult
    <3>2. WorkersFine'
      BY <1>16, <1>19, <2>4, <3>1 DEF ApplyRefundRecoveryResult
    <3> QED
      BY <1>19, <2>4, <3>1, <3>2, PartsKept DEF ApplyRefundRecoveryResult, TypeInv
  <2> QED
    BY <2>3, <2>4
<1>20. ASSUME NEW w \in Workers, AggregateParent(w) PROVE TypeInv' /\ RowsKept
  <2>1. RowsKept
    BY <1>20, <1>t, RowsUnchanged DEF AggregateParent
  <2>2. worker[w].pc # "idle"
    BY <1>20 DEF AggregateParent
  <2>3. PICK columns \in ParentColumns :
          worker' = [worker EXCEPT ![w] = [worker[w] EXCEPT !.pc = "commit",
                                                            !.columns = columns]]
    BY <1>20, <1>w, <2>2, AggregatedColumns DEF AggregateParent
  <2> DEFINE a == [worker[w] EXCEPT !.pc = "commit", !.columns = columns]
  <2>4. a \in Recovery
    BY <1>w, Recoveries
  <2>5. a.at = worker[w].at /\ a.token = worker[w].token
    BY <1>w DEF Recovery
  <2>6. WorkersFine'
    BY <1>w, <2>1, <2>2, <2>3, <2>4, <2>5, WorkerMoves
  <2> QED
    BY <1>20, <2>1, <2>6, PartsKept DEF AggregateParent, TypeInv
<1>21. ASSUME NEW w \in Workers, RecalculateRefundParent(w) PROVE TypeInv' /\ RowsKept
  <2> DEFINE t == refund[worker[w].at].txn
             row == WithColumns(parent[t], worker[w].columns)
  <2>1. RowsKept
    BY <1>21, <1>t, RowsUnchanged DEF RecalculateRefundParent
  <2>2. WorkersFine'
    BY <1>16, <1>21, <2>1 DEF RecalculateRefundParent
  <2>3. t \in TxIds /\ row \in ParentRow
    <3>1. worker[w].pc # "idle"
      BY <1>21 DEF RecalculateRefundParent
    <3>2. worker[w].columns \in ParentColumns
      BY <1>w DEF Recovery
    <3> QED
      BY <3>1, <3>2, <1>w, ParentRows
  <2>4. parent' = [parent EXCEPT ![t] = row]
    BY <1>21 DEF RecalculateRefundParent
  <2>5. RestFine'
    BY <1>21, <2>1, <2>3, <2>4, ParentMoves DEF RecalculateRefundParent
  <2> QED
    BY <1>21, <2>1, <2>2, <2>5, PartsKept DEF RecalculateRefundParent, TypeInv
<1>22. ASSUME NEW w \in Workers, RecordRefundRecoveryFailure(w) PROVE TypeInv' /\ RowsKept
  <2>1. worker[w].pc # "idle" /\ "UNKNOWN" \in Outcome
    BY <1>22 DEF RecordRefundRecoveryFailure, Outcome
  <2>2. RowsKept /\ RefundsFine'
    <3>1. CASE OwnsLease(w)
      BY <1>18, <1>22, <2>1, <3>1 DEF RecordRefundRecoveryFailure
    <3>2. CASE ~ OwnsLease(w)
      BY <1>22, <1>t, <3>2, RowsUnchanged, PartsKept DEF RecordRefundRecoveryFailure
    <3> QED
      BY <3>1, <3>2
  <2>3. WorkersFine'
    BY <1>16, <1>22, <2>2 DEF RecordRefundRecoveryFailure
  <2> QED
    BY <1>22, <2>2, <2>3, PartsKept DEF RecordRefundRecoveryFailure, TypeInv
<1>23. ASSUME NEW w \in Workers, WorkerCrash(w) PROVE TypeInv' /\ RowsKept
  <2>1. RowsKept
    BY <1>23, <1>t, RowsUnchanged DEF WorkerCrash
  <2>2. WorkersFine'
    BY <1>16, <1>23, <2>1 DEF WorkerCrash
  <2>3. RestFine'
    BY <1>23, <2>1, RefundBoundsAssumption DEF WorkerCrash, TypeInv, RestFine, RowsKept
  <2> QED
    BY <1>23, <2>1, <2>2, <2>3, PartsKept DEF WorkerCrash, TypeInv
<1>24. ASSUME NEW t \in TxIds, NEW v \in LateVends,
              RecordAndApplyWebhook(t, v) \/ LateVendResult(t, v)
       PROVE  TypeInv' /\ RowsKept
  <2>1. v \in VendStatus /\ parent[t] \in ParentRow
    BY <1>t, VendsAssumption DEF TypeOK
  <2>2. RowsKept
    BY <1>24, <1>t, RowsUnchanged DEF RecordAndApplyWebhook, LateVendResult
  <2>3. PICK row \in ParentRow : parent' = [parent EXCEPT ![t] = row]
    BY <1>24, <2>1, ParentRows DEF RecordAndApplyWebhook, LateVendResult
  <2>4. RestFine'
    BY <1>24, <2>1, <2>2, <2>3, VendMoves DEF RecordAndApplyWebhook, LateVendResult
  <2> QED
    BY <1>24, <2>2, <2>4, PartsKept DEF RecordAndApplyWebhook, LateVendResult, TypeInv
<1>25. ASSUME NEW r \in RefundIds, LeaseExpires(r) PROVE TypeInv' /\ RowsKept
  <2> DEFINE row == [refund[r] EXCEPT !.lease = "expired"]
  <2>1. r \in Stored /\ refund[r] \in RefundRow /\ row \in RefundRow
    BY <1>25, <1>t, RefundRows DEF LeaseExpires, TypeOK
  <2>2. refund' = [refund EXCEPT ![r] = row]
    BY <1>25 DEF LeaseExpires
  <2>3. RefundsFine' /\ RowsKept
    BY <2>1, <2>2, RefundMoves DEF RefundRow
  <2>4. RestFine'
    BY <1>25, <2>1, <2>3, RefundBoundsAssumption DEF LeaseExpires, TypeInv, RestFine, RowsKept
  <2> QED
    BY <1>25, <2>3, <2>4, PartsKept DEF LeaseExpires, TypeInv
<1>26. ASSUME NEW r \in RefundIds, RecoveryLeaseExpires(r) PROVE TypeInv' /\ RowsKept
  <2> DEFINE columns == [refund[r].recovery EXCEPT !.lease = "expired"]
             row == [refund[r] EXCEPT !.recovery = columns]
  <2>1. r \in Stored /\ refund[r] \in RefundRow /\ refund[r].recovery \in RefundRecovery
    BY <1>26, <1>t DEF RecoveryLeaseExpires, TypeOK, RefundRow
  <2>2. row \in RefundRow
    BY <2>1, RecoveryColumnsSteps, RefundRows
  <2>3. refund' = [refund EXCEPT ![r] = row]
    BY <1>26, <2>1 DEF RecoveryLeaseExpires, RefundRow, RefundRecovery
  <2>4. RefundsFine' /\ RowsKept
    BY <2>1, <2>2, <2>3, RefundMoves DEF RefundRow
  <2> QED
    BY <1>26, <2>4, PartsKept DEF RecoveryLeaseExpires, TypeInv
<1>27. ASSUME NEW r \in RefundIds, ProviderReceives(r) \/ ProviderFinishes(r)
       PROVE  TypeInv' /\ RowsKept
  <2>1. Stored' = Stored /\ RowsKept
    BY <1>27, <1>t, RowsUnchanged DEF ProviderReceives, ProviderFinishes
  <2>2. ProviderFine'
    BY <1>27, <2>1 DEF ProviderReceives, ProviderFinishes, TypeInv, ProviderFine
  <2> QED
    BY <1>27, <2>1, <2>2, PartsKept DEF ProviderReceives, ProviderFinishes, TypeInv
<1>28. CASE UNCHANGED vars
  BY <1>28, <1>t, RowsUnchanged, PartsKept DEF vars, TypeInv, provider, environment
<1> QED
  BY <1>1, <1>2, <1>3, <1>4, <1>5, <1>6, <1>8, <1>9, <1>10, <1>11, <1>12, <1>13, <1>14, <1>17,
     <1>19, <1>20, <1>21, <1>22, <1>23, <1>24, <1>25, <1>26, <1>27, <1>28
  DEF Next, HandlerStep, WorkerStep

\* The columns of transactions and refunds, the approvals and the recoveries have
\* their types, and only stored refunds are ever marked lapsed: Refunds!TypeOK, for
\* requestRefund, approveRefund, recordRefundResult and the recovery worker.
THEOREM TypeCorrect == Spec => []TypeOK
BY TypeInit, TypeNext, Typed, PTL DEF Spec

=============================================================================
