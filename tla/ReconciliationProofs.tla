------------------------ MODULE ReconciliationProofs ------------------------
(***************************************************************************)
(* The theorems about Settlement and Reconciliation, for any transactions, *)
(* references, reports, synchronisations and calls.                        *)
(*                                                                         *)
(* The invariant has one part per promise.  Free relates the columns of a  *)
(* transaction; HoldInv says that what a synchronisation is about to       *)
(* settle is not held, unless it was caught; ReportInv carries the reason  *)
(* for a settlement from the provider's answer to the table; FoundInv says *)
(* that what a call has found still holds; MissInv says where it went.     *)
(***************************************************************************)
EXTENDS Reconciliation, TLAPS

-----------------------------------------------------------------------------
(* Types. *)

\* What the fields of a synchronisation say about each other.
SyncGood(q) ==
  /\ q.pc = "idle" => q = NewSync
  /\ q.pc # "idle" => q.report \in Reports
  /\ q.lines \subseteq DOMAIN q.report
  /\ q.line # Nothing => q.line \in DOMAIN q.report
  /\ q.todo # {} => q.line # Nothing
  /\ q.pc \in {"link", "settle"} => q.chosen # Nothing /\ q.line # Nothing
  /\ q.pc \notin {"link", "settle"} => q.chosen = Nothing

SyncInv == \A h \in Syncs : SyncGood(sync[h])

\* What the fields of a call say about each other.
CallGood(q) ==
  /\ q.pc = "idle" => q = NewCall
  /\ q.pc # "insert" => q.selected = {}

CallInv == \A c \in Calls : CallGood(call[c])

TypeInv == TypeOK /\ SyncInv /\ CallInv

\* The columns of one transaction.
Free(row) ==
  /\ row.status \in {"FULFILLED", "SETTLED"} =>
       row.vend = "FULFILLED" /\ row.blocked = FALSE /\ row.refundRequired = FALSE
  /\ row.status = "SETTLED" => row.settled = TRUE

FreeInv == \A t \in Transactions : Free(transaction[t])

\* What a report is.
LEMMA ReportLine ==
  ASSUME NEW report \in Reports, NEW s \in DOMAIN report
  PROVE  /\ s \in Settlements
         /\ report[s] \in Line
  <1>1. PICK S \in SUBSET Settlements : report \in [S -> Line]
    BY SettlementAssumption
  <1> QED
    BY <1>1

\* The empty report lists nothing.
LEMMA EmptyReport == ASSUME NEW s PROVE s \notin DOMAIN <<>>
  OBVIOUS

\* A new row, whatever the day it was written.
LEMMA TouchedRow ==
  ASSUME NEW row \in Transaction, NEW day \in Nat
  PROVE  LET new == [row EXCEPT !.touched = day]
         IN  /\ new \in Transaction
             /\ new.status = row.status
             /\ new.vend = row.vend
             /\ new.blocked = row.blocked
             /\ new.refundRequired = row.refundRequired
             /\ new.settled = row.settled
  BY DEF Transaction

\* The row that an event about the vend leaves.
LEMMA ReportedRow ==
  ASSUME NEW row \in Transaction, NEW v \in {"FULFILLED", "FAILED"}
  PROVE  /\ WithOutcome(row, v) \in Transaction
         /\ Free(WithOutcome(row, v))
         /\ WithOutcome(row, v).settled = row.settled
  <1> DEFINE new == WithOutcome(row, v)
  <1>1. /\ NormalizedFromVend(v) = v
        /\ v \in TransactionStatus
        /\ v \in VendStatus
        /\ NeedsFullRefund(v) = (v = "FAILED")
    BY DEF NormalizedFromVend, NeedsFullRefund, TransactionStatus, VendStatus
  <1>2. new = [row EXCEPT !.status = v, !.vend = v, !.refundRequired = (v = "FAILED"),
                          !.blocked = (v # "FULFILLED")]
    BY <1>1 DEF WithOutcome
  <1>3. new \in Transaction /\ new.settled = row.settled
    BY <1>1, <1>2, Zenon DEF Transaction
  <1>4. CASE v = "FULFILLED"
    <2>1. /\ new.status = "FULFILLED" /\ new.vend = "FULFILLED"
          /\ new.blocked = FALSE /\ new.refundRequired = FALSE
      BY <1>2, <1>4 DEF Transaction
    <2> QED
      BY <1>3, <2>1 DEF Free
  <1>5. CASE v = "FAILED"
    <2>1. new.status = "FAILED"
      BY <1>2, <1>5 DEF Transaction
    <2> QED
      BY <1>3, <2>1 DEF Free
  <1> QED
    BY <1>4, <1>5

LEMMA ProtectedRow ==
  ASSUME NEW row \in Transaction, NEW v \in {"FULFILLED", "FAILED"},
         row.status \in {"REFUND_PENDING", "REFUNDED"}
  PROVE  LET new == [row EXCEPT !.vend = v, !.blocked = row.status = "REFUND_PENDING"]
         IN  /\ new \in Transaction
             /\ Free(new)
             /\ new.settled = row.settled
  BY DEF Transaction, Free, VendStatus

\* The row that the request of a refund leaves.
LEMMA RequestedRow ==
  ASSUME NEW row \in Transaction
  PROVE  LET new == [row EXCEPT !.refundStatus = "REQUESTED", !.refundRequired = TRUE,
                                !.status = "REFUND_PENDING", !.blocked = TRUE]
         IN  /\ new \in Transaction
             /\ Free(new)
             /\ new.settled = row.settled
  BY DEF Transaction, Free, TransactionStatus

\* The row that the recalculation leaves.
LEMMA RecalculatedRow ==
  ASSUME NEW row \in Transaction, Free(row),
         NEW outcome \in {"pending", "unknown", "failed", "part", "whole"}
  PROVE  /\ Recalculated(row, outcome) \in Transaction
         /\ Free(Recalculated(row, outcome))
         /\ Recalculated(row, outcome).settled = row.settled
  <1> DEFINE owed == NeedsFullRefund(row.vend)
             undecided == outcome \in {"pending", "unknown"}
             required == outcome # "whole" /\ (owed \/ undecided \/ outcome = "failed")
             blocked == outcome # "whole" /\ (owed \/ undecided)
             status == IF outcome = "whole" THEN "REFUNDED"
                       ELSE IF required THEN "REFUND_PENDING"
                       ELSE IF row.vend = "FULFILLED" THEN "FULFILLED" ELSE row.status
             refundStatus == CASE outcome = "pending" -> "PENDING"
                               [] outcome = "unknown" -> "UNKNOWN"
                               [] outcome = "failed" -> "FAILED"
                               [] outcome = "part" -> "PARTIAL"
                               [] outcome = "whole" -> "COMPLETED"
             new == [row EXCEPT !.refundStatus = refundStatus, !.status = status,
                                !.refundRequired = required, !.blocked = blocked]
  <1>1. Recalculated(row, outcome) = new
    BY DEF Recalculated
  <1>2. /\ row.status \in TransactionStatus
        /\ row.status \in {"FULFILLED", "SETTLED"} => row.vend = "FULFILLED"
    BY DEF Transaction, Free
  <1>3. owed = (row.vend \in {"FAILED", "CANCELLED"})
    BY DEF NeedsFullRefund
  <1> HIDE DEF owed
  <1>4. status \in TransactionStatus
    BY <1>2 DEF TransactionStatus
  <1>5. status \in {"FULFILLED", "SETTLED"} =>
          status = "FULFILLED" /\ row.vend = "FULFILLED" /\ ~ required
    BY <1>2
  <1>6. ~ required => ~ blocked
    OBVIOUS
  <1>7. refundStatus \in {"NULL", "REQUESTED", "PENDING", "UNKNOWN", "FAILED", "PARTIAL", "COMPLETED"}
    OBVIOUS
  <1>8. required \in BOOLEAN /\ blocked \in BOOLEAN
    BY <1>3
  <1> HIDE DEF refundStatus, status, required, blocked
  <1>9. /\ new \in Transaction
        /\ new.status = status /\ new.vend = row.vend /\ new.settled = row.settled
    BY <1>4, <1>7, <1>8 DEF Transaction
  <1>10. new.refundRequired = required /\ new.blocked = blocked
    BY DEF Transaction
  <1> HIDE DEF new
  <1>11. Free(new)
    BY <1>5, <1>6, <1>8, <1>9, <1>10 DEF Free
  <1> QED
    BY <1>1, <1>9, <1>11

\* The row of a settled transaction.
LEMMA SettledRowIs ==
  ASSUME NEW row \in Transaction, Free(row), now \in Nat
  PROVE  /\ SettledRow(row) \in Transaction
         /\ Free(SettledRow(row))
         /\ SettledRow(row).blocked = row.blocked
         /\ SettledRow(row).settled = TRUE
  BY DEF SettledRow, Transaction, Free, TransactionStatus

\* Whoever else writes a transaction writes one row, leaves settlement_status alone and
\* keeps the columns free of contradictions.
Written1(t, row) ==
  /\ Touch(t, row)
  /\ row \in Transaction
  /\ Free(row)
  /\ row.settled = transaction[t].settled
  /\ refund' \in [Transactions -> Refund]
  /\ UNCHANGED <<now, settlement, links, sync, mixed>>

LEMMA OthersWriteOneRow ==
  ASSUME TypeInv, FreeInv, OthersStep
  PROVE  \E t \in Transactions, row \in Transaction : Written1(t, row)
  <1> USE DEF TypeInv, TypeOK, SettlementTypeOK
  <1>1. PICK t \in Transactions :
          \/ \E v \in {"FULFILLED", "FAILED"} : ReportVend(t, v)
          \/ RequestRefund(t)
          \/ \E outcome \in Outcomes : RecordRefundResult(t, outcome)
    BY DEF OthersStep
  <1>2. transaction[t] \in Transaction /\ Free(transaction[t])
    BY DEF FreeInv
  <1>3. ASSUME NEW v \in {"FULFILLED", "FAILED"}, ReportVend(t, v)
        PROVE  \E row \in Transaction : Written1(t, row)
    <2>1. CASE transaction[t].status \in {"REFUND_PENDING", "REFUNDED"}
      <3> DEFINE row == [transaction[t] EXCEPT
                           !.vend = v, !.blocked = transaction[t].status = "REFUND_PENDING"]
      <3>1. row \in Transaction /\ Free(row) /\ row.settled = transaction[t].settled
        BY <1>2, <2>1, ProtectedRow
      <3>2. Touch(t, row) /\ UNCHANGED <<now, refund, settlement, links, sync, mixed>>
        BY <1>3, <2>1 DEF ReportVend
      <3> QED
        BY <3>1, <3>2 DEF Written1
    <2>2. CASE transaction[t].status \notin {"REFUND_PENDING", "REFUNDED"}
      <3> DEFINE row == WithOutcome(transaction[t], v)
      <3>1. row \in Transaction /\ Free(row) /\ row.settled = transaction[t].settled
        BY <1>2, ReportedRow
      <3>2. Touch(t, row) /\ UNCHANGED <<now, refund, settlement, links, sync, mixed>>
        BY <1>3, <2>2 DEF ReportVend
      <3> QED
        BY <3>1, <3>2 DEF Written1
    <2> QED
      BY <2>1, <2>2
  <1>4. ASSUME RequestRefund(t) PROVE \E row \in Transaction : Written1(t, row)
    <2> DEFINE row == [transaction[t] EXCEPT !.refundStatus = "REQUESTED", !.refundRequired = TRUE,
                                             !.status = "REFUND_PENDING", !.blocked = TRUE]
    <2>1. row \in Transaction /\ Free(row) /\ row.settled = transaction[t].settled
      BY <1>2, RequestedRow
    <2>2. Touch(t, row) /\ UNCHANGED <<now, settlement, links, sync, mixed>>
      BY <1>4 DEF RequestRefund
    <2>3. refund' \in [Transactions -> Refund]
      BY <1>4 DEF RequestRefund, Refund
    <2> QED
      BY <2>1, <2>2, <2>3 DEF Written1
  <1>5. ASSUME NEW outcome \in Outcomes, RecordRefundResult(t, outcome)
        PROVE  \E row \in Transaction : Written1(t, row)
    <2> DEFINE row == Recalculated(transaction[t], outcome)
    <2>1. outcome \in {"pending", "unknown", "failed", "part", "whole"}
      BY SettlementAssumption
    <2>2. row \in Transaction /\ Free(row) /\ row.settled = transaction[t].settled
      BY <1>2, <2>1, RecalculatedRow
    <2>3. Touch(t, row) /\ UNCHANGED <<now, settlement, links, sync, mixed>>
      BY <1>5 DEF RecordRefundResult
    <2>4. refund' \in [Transactions -> Refund]
      BY <1>5, <2>1 DEF RecordRefundResult, Refund
    <2> QED
      BY <2>2, <2>3, <2>4 DEF Written1
  <1> QED
    BY <1>1, <1>3, <1>4, <1>5

-----------------------------------------------------------------------------
(* What the steps of a synchronisation make of its record. *)

Becomes(h, q) == q \in Sync /\ SyncGood(q) /\ sync' = [sync EXCEPT ![h] = q]

\* What nobody else touches.
Keeps(h, q) ==
  /\ q.report = sync[h].report
  /\ q.linked = sync[h].linked

LEMMA NewSyncIs ==
  ASSUME NEW pc, pc \in {"upsert", "over"}, NEW report \in Reports
  PROVE  LET q == [NewSync EXCEPT !.pc = pc, !.report = report]
         IN  /\ q \in Sync /\ SyncGood(q)
             /\ q.pc = pc /\ q.report = report
             /\ q.lines = {} /\ q.line = Nothing /\ q.todo = {} /\ q.chosen = Nothing
             /\ q.complete = FALSE /\ q.linked = {} /\ q.settling = {}
  BY DEF NewSync, Sync, SyncGood

LEMMA FetchIs ==
  ASSUME TypeInv, NEW h \in Syncs, NEW report \in Reports, FetchProviderSettlements(h, report)
  PROVE  /\ sync[h] = NewSync
         /\ \E q \in Sync :
              /\ Becomes(h, q)
              /\ q.pc = "upsert" /\ q.report = report
              /\ q.lines = {} /\ q.line = Nothing /\ q.todo = {} /\ q.chosen = Nothing
              /\ q.settling = {}
  <1> DEFINE q == [NewSync EXCEPT !.pc = "upsert", !.report = report]
  <1>1. sync[h] = NewSync
    BY DEF FetchProviderSettlements, TypeInv, SyncInv, SyncGood
  <1>2. /\ q \in Sync /\ SyncGood(q)
        /\ q.pc = "upsert" /\ q.report = report
        /\ q.lines = {} /\ q.line = Nothing /\ q.todo = {} /\ q.chosen = Nothing
        /\ q.settling = {}
    BY NewSyncIs
  <1>3. sync' = [sync EXCEPT ![h] = q]
    BY DEF FetchProviderSettlements
  <1> HIDE DEF q
  <1> QED
    BY <1>1, <1>2, <1>3 DEF Becomes

LEMMA EndIs ==
  ASSUME TypeInv, NEW h \in Syncs, CommitMatches(h) \/ AbandonSync(h)
  PROVE  \E q \in Sync :
           /\ Becomes(h, q)
           /\ q.pc = "over" /\ q.report = sync[h].report
           /\ q.lines = {} /\ q.line = Nothing /\ q.todo = {} /\ q.chosen = Nothing
           /\ q.settling = {}
  <1> DEFINE q == [NewSync EXCEPT !.pc = "over", !.report = sync[h].report]
  <1>1. sync[h].report \in Reports
    BY DEF CommitMatches, AbandonSync, TypeInv, SyncInv, SyncGood
  <1>2. /\ q \in Sync /\ SyncGood(q)
        /\ q.pc = "over" /\ q.report = sync[h].report
        /\ q.lines = {} /\ q.line = Nothing /\ q.todo = {} /\ q.chosen = Nothing
        /\ q.settling = {}
    BY <1>1, NewSyncIs
  <1>3. sync' = [sync EXCEPT ![h] = q]
    BY DEF CommitMatches, AbandonSync
  <1> HIDE DEF q
  <1> QED
    BY <1>2, <1>3 DEF Becomes

LEMMA UpsertIs ==
  ASSUME TypeInv, NEW h \in Syncs, UpsertSettlements(h)
  PROVE  \E q \in Sync :
           /\ Becomes(h, q) /\ Keeps(h, q)
           /\ q.pc = "match"
           /\ q.line = sync[h].line /\ q.complete = sync[h].complete /\ q.todo = sync[h].todo
           /\ q.chosen = Nothing /\ q.settling = sync[h].settling
  <1> DEFINE lines == {s \in DOMAIN sync[h].report : sync[h].report[s].references # {}}
             q == [sync[h] EXCEPT !.pc = "match", !.lines = lines]
  <1>1. sync[h] \in Sync /\ SyncGood(sync[h]) /\ sync[h].report \in Reports
    BY DEF UpsertSettlements, TypeInv, TypeOK, SettlementTypeOK, SyncInv, SyncGood
  <1>2. lines \subseteq DOMAIN sync[h].report /\ lines \subseteq Settlements
    BY <1>1, ReportLine
  <1>3. sync[h].chosen = Nothing
    BY <1>1 DEF UpsertSettlements, SyncGood
  <1>4. sync' = [sync EXCEPT ![h] = q]
    BY DEF UpsertSettlements
  <1> HIDE DEF lines
  <1>5. /\ q \in Sync /\ Keeps(h, q)
        /\ q.pc = "match" /\ q.lines = lines
        /\ q.line = sync[h].line /\ q.complete = sync[h].complete /\ q.todo = sync[h].todo
        /\ q.chosen = sync[h].chosen /\ q.settling = sync[h].settling
    BY <1>1, <1>2 DEF Sync, Keeps
  <1> HIDE DEF q
  <1>6. SyncGood(q)
    BY <1>1, <1>2, <1>3, <1>5 DEF SyncGood, Keeps
  <1> QED
    BY <1>3, <1>4, <1>5, <1>6 DEF Becomes

LEMMA ReadIs ==
  ASSUME TypeInv, NEW h \in Syncs, NEW s \in Settlements, ReadSettlement(h, s)
  PROVE  /\ s \in sync[h].lines /\ s \in DOMAIN sync[h].report
         /\ \E q \in Sync :
              /\ Becomes(h, q) /\ Keeps(h, q)
              /\ q.pc = "match" /\ q.lines \subseteq sync[h].lines
              /\ q.line = s /\ q.complete = Complete(s)
              /\ q.todo = sync[h].report[s].references
              /\ q.chosen = Nothing /\ q.settling = sync[h].settling
  <1> DEFINE q == [sync[h] EXCEPT !.lines = sync[h].lines \ {s}, !.line = s,
                                  !.complete = Complete(s),
                                  !.todo = sync[h].report[s].references]
  <1>1. sync[h] \in Sync /\ SyncGood(sync[h]) /\ sync[h].report \in Reports
    BY DEF ReadSettlement, TypeInv, TypeOK, SettlementTypeOK, SyncInv, SyncGood
  <1>2. s \in sync[h].lines /\ s \in DOMAIN sync[h].report
    BY <1>1 DEF ReadSettlement, SyncGood
  <1>3. sync[h].report[s].references \subseteq References
    BY <1>1, <1>2, ReportLine DEF Line
  <1>4. sync[h].chosen = Nothing /\ sync[h].pc = "match" /\ Complete(s) \in BOOLEAN
    BY <1>1 DEF ReadSettlement, SyncGood, Complete
  <1>5. sync' = [sync EXCEPT ![h] = q]
    BY DEF ReadSettlement
  <1>6. q \in Sync
    BY <1>1, <1>3, <1>4, Zenon DEF Sync
  <1>7. /\ Keeps(h, q)
        /\ q.pc = "match" /\ q.lines = sync[h].lines \ {s}
        /\ q.line = s /\ q.complete = Complete(s)
        /\ q.todo = sync[h].report[s].references
        /\ q.chosen = Nothing /\ q.settling = sync[h].settling
    BY <1>1, <1>4 DEF Sync, Keeps
  <1> HIDE DEF q
  <1>8. SyncGood(q)
    BY <1>1, <1>2, <1>4, <1>7, SettlementAssumption DEF SyncGood, Keeps
  <1> QED
    BY <1>2, <1>5, <1>6, <1>7, <1>8 DEF Becomes

LEMMA MatchIs ==
  ASSUME TypeInv, NEW h \in Syncs, NEW reference \in References, MatchReference(h, reference)
  PROVE  /\ reference \in sync[h].todo
         /\ \E q \in Sync :
              /\ Becomes(h, q) /\ Keeps(h, q)
              /\ q.pc \in {"match", "link"} /\ q.lines = sync[h].lines
              /\ q.line = sync[h].line /\ q.complete = sync[h].complete
              /\ q.todo \subseteq sync[h].todo
              /\ q.settling = sync[h].settling
              /\ q.chosen # Nothing => ReferenceOf[q.chosen] = reference /\ Eligible(q.chosen)
  <1>1. sync[h] \in Sync /\ SyncGood(sync[h]) /\ sync[h].report \in Reports
    BY DEF MatchReference, TypeInv, TypeOK, SettlementTypeOK, SyncInv, SyncGood
  <1>2. reference \in sync[h].todo /\ sync[h].pc = "match" /\ sync[h].chosen = Nothing
    BY <1>1 DEF MatchReference, SyncGood
  <1>3. CASE sync' = [sync EXCEPT ![h].todo = @ \ {reference}]
    <2> DEFINE q == [sync[h] EXCEPT !.todo = sync[h].todo \ {reference}]
    <2>1. sync' = [sync EXCEPT ![h] = q]
      BY <1>3
    <2>2. /\ q \in Sync /\ Keeps(h, q)
          /\ q.pc = sync[h].pc /\ q.lines = sync[h].lines
          /\ q.line = sync[h].line /\ q.complete = sync[h].complete
          /\ q.todo = sync[h].todo \ {reference}
          /\ q.chosen = sync[h].chosen /\ q.settling = sync[h].settling
      BY <1>1 DEF Sync, Keeps
    <2> HIDE DEF q
    <2>3. SyncGood(q)
      BY <1>1, <1>2, <2>2 DEF SyncGood, Keeps
    <2> QED
      BY <1>2, <2>1, <2>2, <2>3 DEF Becomes
  <1>4. ASSUME NEW t \in Transactions, ReferenceOf[t] = reference, Eligible(t),
               sync' = [sync EXCEPT ![h].todo = @ \ {reference}, ![h].chosen = t,
                                    ![h].pc = "link"]
        PROVE  \E q \in Sync :
                 /\ Becomes(h, q) /\ Keeps(h, q)
                 /\ q.pc \in {"match", "link"} /\ q.lines = sync[h].lines
                 /\ q.line = sync[h].line /\ q.complete = sync[h].complete
                 /\ q.todo \subseteq sync[h].todo
                 /\ q.settling = sync[h].settling
                 /\ q.chosen # Nothing => ReferenceOf[q.chosen] = reference /\ Eligible(q.chosen)
    <2> DEFINE q == [sync[h] EXCEPT !.todo = sync[h].todo \ {reference}, !.chosen = t,
                                    !.pc = "link"]
    <2>1. sync' = [sync EXCEPT ![h] = q]
      BY <1>4
    <2>2. /\ q \in Sync /\ Keeps(h, q)
          /\ q.pc = "link" /\ q.lines = sync[h].lines
          /\ q.line = sync[h].line /\ q.complete = sync[h].complete
          /\ q.todo = sync[h].todo \ {reference}
          /\ q.chosen = t /\ q.settling = sync[h].settling
      BY <1>1 DEF Sync, Keeps
    <2> HIDE DEF q
    <2>3. t # Nothing
      BY SettlementAssumption
    <2>4. SyncGood(q)
      BY <1>1, <1>2, <2>2, <2>3 DEF SyncGood, Keeps
    <2> QED
      BY <1>4, <2>1, <2>2, <2>4 DEF Becomes
  <1> DEFINE matches == {t \in Transactions : ReferenceOf[t] = reference /\ Eligible(t)}
  <1>5. \/ sync' = [sync EXCEPT ![h].todo = @ \ {reference}]
        \/ \E t \in Transactions :
             /\ matches = {t}
             /\ sync' = [sync EXCEPT ![h].todo = @ \ {reference}, ![h].chosen = t,
                                     ![h].pc = "link"]
    BY DEF MatchReference
  <1>6. ASSUME NEW t \in Transactions, matches = {t}
        PROVE  ReferenceOf[t] = reference /\ Eligible(t)
    BY <1>6
  <1> HIDE DEF matches
  <1> QED
    BY <1>2, <1>3, <1>4, <1>5, <1>6

LEMMA LinkIs ==
  ASSUME TypeInv, NEW h \in Syncs, LinkTransaction(h)
  PROVE  /\ sync[h].chosen \in Transactions
         /\ sync[h].line \in Settlements
         /\ \E q \in Sync :
              /\ Becomes(h, q) /\ q.report = sync[h].report
              /\ sync[h].linked \subseteq q.linked
              /\ q.lines = sync[h].lines /\ q.line = sync[h].line
              /\ q.complete = sync[h].complete /\ q.todo = sync[h].todo
              /\ q.settling = sync[h].settling
              /\ q.pc = "settle" => q.complete
              /\ q.chosen \in {sync[h].chosen, Nothing}
              /\ <<sync[h].line, sync[h].chosen>> \in links \cup q.linked
  <1> DEFINE link == <<sync[h].line, sync[h].chosen>>
             linked == IF link \in links THEN sync[h].linked ELSE sync[h].linked \cup {link}
             pc == IF sync[h].complete THEN "settle" ELSE "match"
             chosen == IF sync[h].complete THEN sync[h].chosen ELSE Nothing
             q == [sync[h] EXCEPT !.linked = linked, !.pc = pc, !.chosen = chosen]
  <1>1. sync[h] \in Sync /\ SyncGood(sync[h]) /\ sync[h].report \in Reports
    BY DEF LinkTransaction, TypeInv, TypeOK, SettlementTypeOK, SyncInv, SyncGood
  <1>2. /\ sync[h].pc = "link"
        /\ sync[h].chosen # Nothing /\ sync[h].line # Nothing
        /\ sync[h].chosen \in Transactions /\ sync[h].line \in Settlements
    BY <1>1 DEF LinkTransaction, SyncGood, Sync
  <1>3. sync' = [sync EXCEPT ![h] = q]
    BY DEF LinkTransaction
  <1>4. /\ linked \subseteq Settlements \X Transactions
        /\ sync[h].linked \subseteq linked
        /\ link \in links \cup linked
    BY <1>1, <1>2 DEF Sync
  <1>5. pc \in {"settle", "match"} /\ chosen \in {sync[h].chosen, Nothing}
    OBVIOUS
  <1>6. (pc = "settle") = sync[h].complete /\ (pc = "settle" => chosen = sync[h].chosen)
         /\ (pc # "settle" => chosen = Nothing)
    BY <1>1 DEF Sync
  <1> HIDE DEF linked, pc, chosen
  <1>7. /\ q \in Sync /\ q.report = sync[h].report
        /\ q.linked = linked /\ q.pc = pc /\ q.chosen = chosen
        /\ q.lines = sync[h].lines /\ q.line = sync[h].line
        /\ q.complete = sync[h].complete /\ q.todo = sync[h].todo
        /\ q.settling = sync[h].settling
    BY <1>1, <1>2, <1>4, <1>5 DEF Sync
  <1> HIDE DEF q
  <1>8. SyncGood(q)
    BY <1>1, <1>2, <1>5, <1>6, <1>7 DEF SyncGood
  <1> QED
    BY <1>2, <1>3, <1>4, <1>5, <1>6, <1>7, <1>8 DEF Becomes

LEMMA SettleIs ==
  ASSUME TypeInv, NEW h \in Syncs, SettleTransaction(h)
  PROVE  /\ sync[h].chosen \in Transactions
         /\ sync[h].line \in Settlements
         /\ \E q \in Sync :
              /\ Becomes(h, q) /\ Keeps(h, q)
              /\ q.pc = "match" /\ q.lines = sync[h].lines /\ q.line = sync[h].line
              /\ q.complete = sync[h].complete /\ q.todo = sync[h].todo
              /\ q.chosen = Nothing
              /\ q.settling = sync[h].settling \cup {sync[h].chosen}
  <1> DEFINE q == [sync[h] EXCEPT !.settling = sync[h].settling \cup {sync[h].chosen},
                                  !.chosen = Nothing, !.pc = "match"]
  <1>1. sync[h] \in Sync /\ SyncGood(sync[h]) /\ sync[h].report \in Reports
    BY DEF SettleTransaction, TypeInv, TypeOK, SettlementTypeOK, SyncInv, SyncGood
  <1>2. /\ sync[h].pc = "settle"
        /\ sync[h].chosen # Nothing /\ sync[h].line # Nothing
        /\ sync[h].chosen \in Transactions /\ sync[h].line \in Settlements
    BY <1>1 DEF SettleTransaction, SyncGood, Sync
  <1>3. sync' = [sync EXCEPT ![h] = q]
    BY DEF SettleTransaction
  <1>4. /\ q \in Sync /\ Keeps(h, q)
        /\ q.pc = "match" /\ q.lines = sync[h].lines /\ q.line = sync[h].line
        /\ q.complete = sync[h].complete /\ q.todo = sync[h].todo
        /\ q.chosen = Nothing
        /\ q.settling = sync[h].settling \cup {sync[h].chosen}
    BY <1>1, <1>2 DEF Sync, Keeps
  <1> HIDE DEF q
  <1>5. SyncGood(q)
    BY <1>1, <1>2, <1>4 DEF SyncGood, Keeps
  <1> QED
    BY <1>2, <1>3, <1>4, <1>5 DEF Becomes

\* Any step of a synchronisation.
LEMMA SyncStepIs ==
  ASSUME TypeInv, NEW h \in Syncs,
         SyncStep(h) \/ \E report \in Reports : FetchProviderSettlements(h, report)
  PROVE  \E q \in Sync : Becomes(h, q) /\ (q.report = sync[h].report \/ sync[h] = NewSync)
  <1>1. CASE \E report \in Reports : FetchProviderSettlements(h, report)
    BY <1>1, FetchIs
  <1>2. CASE UpsertSettlements(h)
    BY <1>2, UpsertIs DEF Keeps
  <1>3. CASE \E s \in Settlements : ReadSettlement(h, s)
    BY <1>3, ReadIs DEF Keeps
  <1>4. CASE \E reference \in References : MatchReference(h, reference)
    BY <1>4, MatchIs DEF Keeps
  <1>5. CASE LinkTransaction(h)
    BY <1>5, LinkIs
  <1>6. CASE SettleTransaction(h)
    BY <1>6, SettleIs DEF Keeps
  <1>7. CASE CommitMatches(h) \/ AbandonSync(h)
    BY <1>7, EndIs
  <1> QED
    BY <1>1, <1>2, <1>3, <1>4, <1>5, <1>6, <1>7 DEF SyncStep

-----------------------------------------------------------------------------
(* What the steps of a call make of its record. *)

CallBecomes(c, q) == q \in Call /\ CallGood(q) /\ call' = [call EXCEPT ![c] = q]

LEMMA NewCallIs ==
  /\ NewCall \in Call
  /\ NewCall.found = {} /\ NewCall.selected = {} /\ NewCall.inserted = {} /\ NewCall.grace = 0
  /\ NewCall.pc = "idle"
  <1>1. [owner |-> TRUE, isPlatformAdmin |-> FALSE] \in Principal
    BY DEF Principal
  <1> QED
    BY <1>1 DEF NewCall, Call

LEMMA StartIs ==
  ASSUME TypeInv, NEW c \in Calls, NEW principal \in Principals, NEW grace \in Graces,
         StartReconciliation(c, principal, grace)
  PROVE  /\ call[c] = NewCall
         /\ \E q \in Call :
              /\ CallBecomes(c, q)
              /\ q.pc = "select" /\ q.found = {} /\ q.selected = {} /\ q.inserted = {}
  <1> DEFINE q == [NewCall EXCEPT !.pc = "select", !.principal = principal, !.grace = grace]
  <1>1. call[c] = NewCall
    BY DEF StartReconciliation, TypeInv, CallInv, CallGood
  <1>2. call' = [call EXCEPT ![c] = q]
    BY DEF StartReconciliation
  <1>3. principal \in Principal
    BY ReconciliationAssumption
  <1>4. /\ q \in Call
        /\ q.pc = "select" /\ q.found = {} /\ q.selected = {} /\ q.inserted = {}
    BY <1>3, NewCallIs DEF Call
  <1> HIDE DEF q
  <1> QED
    BY <1>1, <1>2, <1>4 DEF CallBecomes, CallGood

LEMMA TypesAre == \A i \in 1..3 : Types[i] \in Type
  BY DEF Type

LEMMA SelectIs ==
  ASSUME TypeInv, NEW c \in Calls, SelectExposed(c)
  PROVE  \E type \in Type, q \in Call :
           /\ CallBecomes(c, q)
           /\ q.pc = "insert" /\ q.grace = call[c].grace /\ q.inserted = call[c].inserted
           /\ q.found = call[c].found \cup q.selected
           /\ \A e \in q.selected :
                e \in Exception /\ e[2] = type /\ Exposed(transaction[e[1]], type, q.grace)
  <1> DEFINE type == Types[call[c].at]
             exposed == {t \in Transactions : Sees(c) /\ Exposed(transaction[t], type, call[c].grace)}
             selected == exposed \X {type}
             q == [call[c] EXCEPT !.pc = "insert", !.selected = selected,
                                  !.found = call[c].found \cup selected]
  <1>1. call[c] \in Call
    BY DEF TypeInv, TypeOK
  <1>2. type \in Type
    BY <1>1, TypesAre DEF Call
  <1>3. call' = [call EXCEPT ![c] = q]
    BY DEF SelectExposed
  <1> HIDE DEF type
  <1>4. \A e \in selected :
          e \in Exception /\ e[2] = type /\ Exposed(transaction[e[1]], type, call[c].grace)
    BY <1>2 DEF Exception
  <1> HIDE DEF selected
  <1>5. /\ q \in Call
        /\ q.pc = "insert" /\ q.grace = call[c].grace /\ q.inserted = call[c].inserted
        /\ q.found = call[c].found \cup selected /\ q.selected = selected
    BY <1>1, <1>4 DEF Call
  <1> HIDE DEF q
  <1>6. CallBecomes(c, q)
    BY <1>3, <1>5 DEF CallBecomes, CallGood
  <1> QED
    BY <1>2, <1>4, <1>5, <1>6

LEMMA InsertIs ==
  ASSUME TypeInv, NEW c \in Calls, InsertExceptions(c)
  PROVE  /\ call[c].pc = "insert"
         /\ \E q \in Call :
              /\ CallBecomes(c, q)
              /\ q.pc \in {"select", "commit"} /\ q.grace = call[c].grace
              /\ q.found = call[c].found /\ q.selected = {}
              /\ call[c].inserted \subseteq q.inserted
              /\ call[c].selected \subseteq open \cup q.inserted
  <1> DEFINE inserted == call[c].inserted \cup (call[c].selected \ (open \cup Others(c)))
             pc == IF call[c].at = 3 THEN "commit" ELSE "select"
             at == IF call[c].at = 3 THEN 1 ELSE call[c].at + 1
             q == [call[c] EXCEPT !.inserted = inserted, !.selected = {}, !.pc = pc, !.at = at]
  <1>1. call[c] \in Call /\ call[c].pc = "insert"
    BY DEF TypeInv, TypeOK, InsertExceptions
  <1>2. call' = [call EXCEPT ![c] = q]
    BY DEF InsertExceptions
  <1>3. /\ call[c].selected \subseteq open \cup inserted
        /\ call[c].inserted \subseteq inserted
    BY DEF InsertExceptions, MayInsert
  <1>4. inserted \in SUBSET Exception /\ pc \in {"select", "commit"} /\ at \in 1..3
    BY <1>1 DEF Call
  <1> HIDE DEF inserted, pc, at
  <1>5. /\ q \in Call
        /\ q.pc = pc /\ q.grace = call[c].grace
        /\ q.found = call[c].found /\ q.selected = {} /\ q.inserted = inserted
    BY <1>1, <1>4 DEF Call
  <1> HIDE DEF q
  <1>6. CallBecomes(c, q)
    BY <1>2, <1>4, <1>5 DEF CallBecomes, CallGood
  <1> QED
    BY <1>1, <1>3, <1>4, <1>5, <1>6

LEMMA CommitCallIs ==
  ASSUME TypeInv, NEW c \in Calls, CommitReconciliation(c)
  PROVE  /\ call[c].selected = {}
         /\ \E q \in Call :
              /\ CallBecomes(c, q)
              /\ q.pc = "resolve" /\ q.grace = call[c].grace
              /\ q.found = call[c].found /\ q.selected = {} /\ q.inserted = {}
  <1> DEFINE q == [call[c] EXCEPT !.pc = "resolve", !.inserted = {}]
  <1>1. call[c] \in Call /\ call[c].selected = {}
    BY DEF TypeInv, TypeOK, CommitReconciliation, CallInv, CallGood
  <1>2. call' = [call EXCEPT ![c] = q]
    BY DEF CommitReconciliation
  <1>3. /\ q \in Call
        /\ q.pc = "resolve" /\ q.grace = call[c].grace
        /\ q.found = call[c].found /\ q.selected = {} /\ q.inserted = {}
    BY <1>1 DEF Call
  <1> HIDE DEF q
  <1> QED
    BY <1>1, <1>2, <1>3 DEF CallBecomes, CallGood

LEMMA EndCallIs ==
  ASSUME TypeInv, NEW c \in Calls, ResolveCleared(c) \/ AbandonCall(c)
  PROVE  \E q \in Call :
           /\ CallBecomes(c, q)
           /\ q.pc = "over" /\ q.grace = call[c].grace
           /\ q.found = call[c].found /\ q.selected = {} /\ q.inserted = {}
  <1> DEFINE q == Ended(c)
  <1>1. call[c] \in Call
    BY DEF TypeInv, TypeOK
  <1>2. call' = [call EXCEPT ![c] = q]
    BY DEF ResolveCleared, AbandonCall
  <1>3. /\ q \in Call
        /\ q.pc = "over" /\ q.grace = call[c].grace
        /\ q.found = call[c].found /\ q.selected = {} /\ q.inserted = {}
    BY <1>1, NewCallIs DEF Ended, Call
  <1> HIDE DEF q
  <1> QED
    BY <1>2, <1>3 DEF CallBecomes, CallGood

\* Any step of a call.
LEMMA CallStepIs ==
  ASSUME TypeInv, NEW c \in Calls, CallStep(c)
  PROVE  /\ \E q \in Call : CallBecomes(c, q)
         /\ open' \subseteq Exception
         /\ UNCHANGED settlementVars
  <1> USE DEF TypeInv, TypeOK
  <1>1. CASE \E principal \in Principals, grace \in Graces : StartReconciliation(c, principal, grace)
    <2>1. \E q \in Call : CallBecomes(c, q)
      BY <1>1, StartIs
    <2>2. UNCHANGED <<settlementVars, open>>
      BY <1>1 DEF StartReconciliation
    <2> QED
      BY <2>1, <2>2
  <1>2. CASE SelectExposed(c)
    BY <1>2, SelectIs DEF SelectExposed
  <1>3. CASE InsertExceptions(c)
    BY <1>3, InsertIs DEF InsertExceptions
  <1>4. CASE CommitReconciliation(c)
    <2>1. call[c].inserted \subseteq Exception
      BY DEF Call
    <2> QED
      BY <1>4, <2>1, CommitCallIs DEF CommitReconciliation
  <1>5. CASE ResolveCleared(c) \/ AbandonCall(c)
    <2>1. open' \subseteq Exception /\ UNCHANGED settlementVars
      BY <1>5 DEF ResolveCleared, AbandonCall
    <2> QED
      BY <1>5, <2>1, EndCallIs
  <1> QED
    BY <1>1, <1>2, <1>3, <1>4, <1>5 DEF CallStep

-----------------------------------------------------------------------------
(* Types, and the columns of a transaction. *)

BaseInv == TypeInv /\ FreeInv

\* What the others do.
LEMMA OthersBase ==
  ASSUME BaseInv, OthersStep
  PROVE  SettlementTypeOK' /\ SyncInv' /\ FreeInv'
  <1>1. PICK t \in Transactions, row \in Transaction : Written1(t, row)
    BY OthersWriteOneRow DEF BaseInv
  <1> DEFINE new == [row EXCEPT !.touched = now]
  <1>2. transaction \in [Transactions -> Transaction] /\ caught \subseteq Transactions /\ now \in Nat
    BY SettlementAssumption DEF BaseInv, TypeInv, TypeOK, SettlementTypeOK
  <1>3. transaction' = [transaction EXCEPT ![t] = new] /\ caught' \subseteq Transactions
    BY <1>1, <1>2 DEF Written1, Touch
  <1>4. new \in Transaction /\ Free(new)
    BY <1>1, <1>2, TouchedRow DEF Written1, Free
  <1> HIDE DEF new
  <1>5. transaction' \in [Transactions -> Transaction]
    BY <1>2, <1>3, <1>4
  <1>6. FreeInv'
    BY <1>2, <1>3, <1>4 DEF FreeInv, BaseInv
  <1>7. /\ UNCHANGED <<now, settlement, links, sync, mixed>>
        /\ refund' \in [Transactions -> Refund]
    BY <1>1 DEF Written1
  <1>8. SettlementTypeOK'
    BY <1>3, <1>5, <1>7 DEF BaseInv, TypeInv, TypeOK, SettlementTypeOK
  <1>9. SyncInv'
    BY <1>7 DEF BaseInv, TypeInv, SyncInv
  <1> QED
    BY <1>6, <1>8, <1>9

\* The rows that a commit settles.
LEMMA CommitWrites ==
  ASSUME BaseInv, NEW h \in Syncs, CommitMatches(h)
  PROVE  /\ transaction' \in [Transactions -> Transaction]
         /\ FreeInv'
         /\ \A t \in Transactions :
              /\ transaction'[t].blocked = transaction[t].blocked
              /\ t \in sync[h].settling => transaction'[t].settled = TRUE
              /\ t \notin sync[h].settling => transaction'[t] = transaction[t]
         /\ links' = links \cup sync[h].linked
         /\ UNCHANGED <<now, refund, settlement, caught, mixed>>
  <1>1. transaction \in [Transactions -> Transaction] /\ now \in Nat /\ FreeInv
    BY SettlementAssumption DEF BaseInv, TypeInv, TypeOK, SettlementTypeOK
  <1>2. /\ transaction' = [t \in Transactions |->
             IF t \in sync[h].settling THEN SettledRow(transaction[t]) ELSE transaction[t]]
        /\ links' = links \cup sync[h].linked
        /\ UNCHANGED <<now, refund, settlement, caught, mixed>>
    BY DEF CommitMatches
  <1>3. \A t \in Transactions :
          /\ SettledRow(transaction[t]) \in Transaction
          /\ Free(SettledRow(transaction[t]))
          /\ SettledRow(transaction[t]).blocked = transaction[t].blocked
          /\ SettledRow(transaction[t]).settled = TRUE
    BY <1>1, SettledRowIs DEF FreeInv
  <1>4. ASSUME NEW t \in Transactions
        PROVE  /\ transaction'[t] \in Transaction
               /\ Free(transaction'[t])
               /\ transaction'[t].blocked = transaction[t].blocked
               /\ t \in sync[h].settling => transaction'[t].settled = TRUE
               /\ t \notin sync[h].settling => transaction'[t] = transaction[t]
    BY <1>1, <1>2, <1>3 DEF FreeInv
  <1>5. transaction' \in [Transactions -> Transaction]
    BY <1>2, <1>4
  <1>6. FreeInv'
    BY <1>4 DEF FreeInv
  <1> QED
    BY <1>2, <1>4, <1>5, <1>6

LEMMA SyncBase ==
  ASSUME BaseInv, NEW h \in Syncs,
         SyncStep(h) \/ \E report \in Reports : FetchProviderSettlements(h, report)
  PROVE  SettlementTypeOK' /\ SyncInv' /\ FreeInv'
  <1> USE DEF BaseInv, TypeInv, TypeOK
  <1>1. PICK q \in Sync : Becomes(h, q)
    BY SyncStepIs
  <1>2. sync' \in [Syncs -> Sync] /\ SyncInv'
    BY <1>1 DEF Becomes, SyncInv, SettlementTypeOK
  <1>3. CASE UNCHANGED <<now, transaction, refund, settlement, links, caught, mixed>>
    BY <1>2, <1>3 DEF SettlementTypeOK, FreeInv
  <1>4. CASE UpsertSettlements(h)
    <2>1. /\ UNCHANGED <<now, transaction, refund, links, caught>>
          /\ mixed' \subseteq Syncs
          /\ settlement' \in [Settlements -> {"absent", "open", "complete"}]
      BY <1>4 DEF UpsertSettlements, SettlementTypeOK
    <2> QED
      BY <1>2, <2>1 DEF SettlementTypeOK, FreeInv
  <1>5. CASE CommitMatches(h)
    <2>1. sync[h].linked \subseteq Settlements \X Transactions
      BY DEF SettlementTypeOK, Sync
    <2>2. /\ transaction' \in [Transactions -> Transaction] /\ FreeInv'
          /\ links' = links \cup sync[h].linked
          /\ UNCHANGED <<now, refund, settlement, caught, mixed>>
      BY <1>5, CommitWrites
    <2>3. links' \subseteq Settlements \X Transactions
      BY <2>1, <2>2 DEF SettlementTypeOK
    <2> QED
      BY <1>2, <2>2, <2>3 DEF SettlementTypeOK
  <1>6. \/ UNCHANGED <<now, transaction, refund, settlement, links, caught, mixed>>
        \/ UpsertSettlements(h) \/ CommitMatches(h)
    BY DEF SyncStep, FetchProviderSettlements, ReadSettlement, MatchReference, LinkTransaction,
           SettleTransaction, AbandonSync
  <1> QED
    BY <1>3, <1>4, <1>5, <1>6

\* What a step that is not a call's leaves of the calls.
LEMMA SettlementStepCalls ==
  ASSUME TypeInv, SettlementStep
  PROVE  /\ UNCHANGED open
         /\ call' \in [Calls -> Call]
         /\ CallInv'
         /\ \A c \in Calls :
              /\ call'[c].pc = call[c].pc
              /\ call'[c].grace = call[c].grace
              /\ call'[c].selected = call[c].selected
              /\ call'[c].inserted = call[c].inserted
              /\ \A e \in call'[c].found :
                   e \in call[c].found /\ transaction'[e[1]] = transaction[e[1]]
  <1> DEFINE kept(c) == {e \in call[c].found : transaction'[e[1]] = transaction[e[1]]}
             q(c) == [call[c] EXCEPT !.found = kept(c)]
  <1>1. UNCHANGED open /\ call' = [c \in Calls |-> q(c)]
    BY DEF SettlementStep
  <1>2. \A c \in Calls : call[c] \in Call /\ CallGood(call[c])
    BY DEF TypeInv, TypeOK, CallInv
  <1>3. \A c \in Calls : \A e \in kept(c) :
          e \in call[c].found /\ transaction'[e[1]] = transaction[e[1]]
    OBVIOUS
  <1> HIDE DEF kept
  <1>4. ASSUME NEW c \in Calls
        PROVE  /\ q(c) \in Call
               /\ q(c).pc = call[c].pc
               /\ q(c).grace = call[c].grace
               /\ q(c).selected = call[c].selected
               /\ q(c).inserted = call[c].inserted
               /\ q(c).found = kept(c)
    <2>1. kept(c) \subseteq call[c].found
      BY <1>3
    <2> QED
      BY <1>2, <2>1 DEF Call
  <1>5. ASSUME NEW c \in Calls, call[c].pc = "idle"
        PROVE  q(c) = NewCall
    <2>1. call[c] = NewCall
      BY <1>2, <1>5 DEF CallGood
    <2>2. kept(c) = {}
      BY <1>3, <2>1, NewCallIs
    <2> QED
      BY <2>1, <2>2 DEF NewCall
  <1> HIDE DEF q
  <1>6. \A c \in Calls : CallGood(q(c))
    BY <1>2, <1>4, <1>5 DEF CallGood
  <1>7. \A c \in Calls : call'[c] = q(c)
    BY <1>1
  <1>8. call' \in [Calls -> Call]
    BY <1>1, <1>4
  <1>9. CallInv'
    BY <1>6, <1>7 DEF CallInv
  <1> QED
    BY <1>1, <1>3, <1>4, <1>7, <1>8, <1>9

LEMMA BaseAtInit == Init => BaseInv
  <1> SUFFICES ASSUME Init PROVE BaseInv
    OBVIOUS
  <1> USE DEF Init, SettlementInit
  <1>1. now \in 0..MaxTime
    BY SettlementAssumption
  <1>2. /\ transaction \in [Transactions -> Transaction]
        /\ FreeInv
    BY DEF Transaction, TransactionStatus, VendStatus, FreeInv, Free
  <1>3. NewSync \in Sync /\ SyncGood(NewSync)
    BY DEF NewSync, Sync, SyncGood
  <1>4. /\ refund \in [Transactions -> Refund]
        /\ settlement \in [Settlements -> {"absent", "open", "complete"}]
        /\ links \subseteq Settlements \X Transactions
        /\ caught \subseteq Transactions /\ mixed \subseteq Syncs
        /\ open \subseteq Exception
    BY DEF Refund
  <1>5. sync \in [Syncs -> Sync] /\ SyncInv
    BY <1>3 DEF SyncInv
  <1>6. call \in [Calls -> Call] /\ CallInv
    BY NewCallIs DEF CallInv, CallGood
  <1> QED
    BY <1>1, <1>2, <1>4, <1>5, <1>6 DEF BaseInv, TypeInv, TypeOK, SettlementTypeOK

LEMMA BaseNext == BaseInv /\ [Next]_vars => BaseInv'
  <1> SUFFICES ASSUME BaseInv, [Next]_vars PROVE BaseInv'
    OBVIOUS
  <1> USE DEF BaseInv, TypeInv, TypeOK
  <1>1. CASE SettlementStep
    <2>1. SettlementTypeOK' /\ SyncInv' /\ FreeInv'
      BY <1>1, OthersBase, SyncBase DEF SettlementStep
    <2>2. call' \in [Calls -> Call] /\ CallInv' /\ open' \subseteq Exception
      BY <1>1, SettlementStepCalls
    <2> QED
      BY <2>1, <2>2
  <1>2. CASE Day
    <2>1. now' \in 0..MaxTime
      BY <1>2, SettlementAssumption DEF Day, DayPasses, SettlementTypeOK
    <2>2. UNCHANGED <<transaction, refund, settlement, links, sync, caught, mixed, open, call>>
      BY <1>2 DEF Day, DayPasses
    <2> QED
      BY <2>1, <2>2 DEF SettlementTypeOK, SyncInv, CallInv, FreeInv
  <1>3. ASSUME NEW c \in Calls, CallStep(c) PROVE BaseInv'
    <2>1. PICK q \in Call : CallBecomes(c, q)
      BY <1>3, CallStepIs
    <2>2. call' \in [Calls -> Call] /\ CallInv'
      BY <2>1 DEF CallBecomes, CallInv
    <2>3. open' \subseteq Exception /\ UNCHANGED settlementVars
      BY <1>3, CallStepIs
    <2> QED
      BY <2>2, <2>3 DEF SettlementTypeOK, SyncInv, FreeInv, settlementVars
  <1>4. CASE UNCHANGED vars
    BY <1>4 DEF vars, settlementVars, SettlementTypeOK, SyncInv, CallInv, FreeInv
  <1> QED
    BY <1>1, <1>2, <1>3, <1>4 DEF Next

LEMMA Base == Spec => []BaseInv
  BY BaseAtInit, BaseNext, PTL DEF Spec

\* The tables, requests and calls always have their types.
THEOREM TypeCorrect == Spec => []TypeOK
  <1>1. BaseInv => TypeOK
    BY DEF BaseInv, TypeInv
  <1> QED
    BY <1>1, Base, PTL

\* A transaction that looks settled is delivered, free and owes nothing, although the
\* UPDATE that settles it does not look at the hold.
THEOREM SettledAreFree == Spec => []SettledIsFree
  <1>1. BaseInv => SettledIsFree
    BY DEF BaseInv, FreeInv, Free, SettledIsFree
  <1> QED
    BY <1>1, Base, PTL

-----------------------------------------------------------------------------
(* Holds. *)

Near(h, t) == t \in sync[h].settling \/ sync[h].chosen = t

HoldInv ==
  /\ BaseInv
  /\ \A h \in Syncs, t \in Transactions :
       Near(h, t) /\ t \notin caught => transaction[t].blocked = FALSE

\* A synchronisation comes near to what is not held.
LEMMA SyncNear ==
  ASSUME TypeInv, NEW h \in Syncs,
         SyncStep(h) \/ \E report \in Reports : FetchProviderSettlements(h, report)
  PROVE  \E q \in Sync :
           /\ Becomes(h, q)
           /\ \A t \in Transactions :
                t \in q.settling \/ q.chosen = t => Near(h, t) \/ Eligible(t)
  <1>0. \A t \in Transactions : t # Nothing
    BY SettlementAssumption
  <1>1. CASE \E report \in Reports : FetchProviderSettlements(h, report)
    BY <1>0, <1>1, FetchIs
  <1>2. CASE UpsertSettlements(h)
    BY <1>0, <1>2, UpsertIs DEF Near
  <1>3. CASE \E s \in Settlements : ReadSettlement(h, s)
    BY <1>0, <1>3, ReadIs DEF Near
  <1>4. CASE \E reference \in References : MatchReference(h, reference)
    <2>1. PICK reference \in References : MatchReference(h, reference)
      BY <1>4
    <2>2. PICK q \in Sync : /\ Becomes(h, q)
                            /\ q.settling = sync[h].settling
                            /\ q.chosen # Nothing => Eligible(q.chosen)
      BY <2>1, MatchIs
    <2> QED
      BY <1>0, <2>2 DEF Near
  <1>5. CASE LinkTransaction(h)
    <2>1. PICK q \in Sync :
            Becomes(h, q) /\ q.settling = sync[h].settling /\ q.chosen \in {sync[h].chosen, Nothing}
      BY <1>5, LinkIs
    <2> QED
      BY <1>0, <2>1 DEF Near
  <1>6. CASE SettleTransaction(h)
    BY <1>0, <1>6, SettleIs DEF Near
  <1>7. CASE CommitMatches(h) \/ AbandonSync(h)
    BY <1>0, <1>7, EndIs
  <1> QED
    BY <1>1, <1>2, <1>3, <1>4, <1>5, <1>6, <1>7 DEF SyncStep

\* What a synchronisation writes of the transactions.
LEMMA SyncTransactions ==
  ASSUME BaseInv, NEW h \in Syncs,
         SyncStep(h) \/ \E report \in Reports : FetchProviderSettlements(h, report)
  PROVE  /\ UNCHANGED caught
         /\ \A t \in Transactions :
              /\ transaction'[t].blocked = transaction[t].blocked
              /\ t \notin sync[h].settling => transaction'[t] = transaction[t]
         /\ UNCHANGED transaction \/ CommitMatches(h)
  <1>1. UNCHANGED <<transaction, caught>> \/ CommitMatches(h)
    BY DEF SyncStep, FetchProviderSettlements, UpsertSettlements, ReadSettlement, MatchReference,
           LinkTransaction, SettleTransaction, AbandonSync
  <1> QED
    BY <1>1, CommitWrites

\* What the others write of the transactions.
LEMMA OthersTransactions ==
  ASSUME BaseInv, OthersStep
  PROVE  /\ UNCHANGED <<sync, settlement, links, mixed>>
         /\ caught \subseteq caught'
         /\ \A t \in Transactions :
              /\ transaction'[t].settled = transaction[t].settled
              /\ \/ transaction'[t] = transaction[t]
                 \/ /\ ~ Written(t)
                    /\ \/ transaction'[t].blocked = FALSE
                       \/ transaction[t].blocked = TRUE
                       \/ (\E h \in Syncs : At(h, t)) => t \in caught'
  <1>1. PICK t \in Transactions, row \in Transaction : Written1(t, row)
    BY OthersWriteOneRow DEF BaseInv
  <1> DEFINE new == [row EXCEPT !.touched = now]
  <1>2. /\ transaction \in [Transactions -> Transaction]
        /\ now \in Nat
    BY SettlementAssumption DEF BaseInv, TypeInv, TypeOK, SettlementTypeOK
  <1>3. /\ transaction' = [transaction EXCEPT ![t] = new]
        /\ ~ Written(t)
        /\ caught' = IF row.blocked /\ ~ transaction[t].blocked /\ (\E h \in Syncs : At(h, t))
                     THEN caught \cup {t} ELSE caught
        /\ UNCHANGED <<sync, settlement, links, mixed>>
        /\ row.settled = transaction[t].settled
    BY <1>1 DEF Written1, Touch
  <1>4. new.blocked = row.blocked /\ new.settled = row.settled
    BY <1>2, TouchedRow
  <1>5. row.blocked \in BOOLEAN /\ transaction[t].blocked \in BOOLEAN
    BY <1>2 DEF Transaction
  <1> HIDE DEF new
  <1>6. transaction'[t] = new /\ \A u \in Transactions \ {t} : transaction'[u] = transaction[u]
    BY <1>2, <1>3
  <1>7. \/ transaction'[t].blocked = FALSE
        \/ transaction[t].blocked = TRUE
        \/ (\E h \in Syncs : At(h, t)) => t \in caught'
    BY <1>3, <1>4, <1>5, <1>6
  <1>8. transaction'[t].settled = transaction[t].settled
    BY <1>3, <1>4, <1>6
  <1> QED
    BY <1>3, <1>6, <1>7, <1>8

LEMMA HoldNext ==
  ASSUME HoldInv, [Next]_vars
  PROVE  /\ HoldInv'
         /\ \A t \in Transactions :
              transaction[t].settled = FALSE /\ transaction'[t].settled = TRUE /\ t \notin caught =>
                transaction[t].blocked = FALSE
  <1>1. BaseInv /\ BaseInv' /\ TypeInv
    BY BaseNext DEF HoldInv, BaseInv
  <1>2. sync \in [Syncs -> Sync] /\ transaction \in [Transactions -> Transaction]
    BY <1>1 DEF TypeInv, TypeOK, SettlementTypeOK
  <1>3. CASE OthersStep
    <2>1. ASSUME NEW h \in Syncs, NEW t \in Transactions, Near(h, t)', t \notin caught'
          PROVE  transaction'[t].blocked = FALSE
      <3>1. Near(h, t) /\ t \notin caught
        BY <1>1, <1>3, <2>1, OthersTransactions DEF Near
      <3>2. transaction[t].blocked = FALSE
        BY <3>1 DEF HoldInv
      <3>3. CASE ~ Written(t)
        <4>1. At(h, t)
          BY <3>1, <3>3 DEF Near, Written, At
        <4> QED
          BY <1>1, <1>3, <2>1, <3>2, <4>1, OthersTransactions
      <3> QED
        BY <1>1, <1>3, <3>2, <3>3, OthersTransactions
    <2> QED
      BY <1>1, <1>3, <2>1, OthersTransactions DEF HoldInv
  <1>4. ASSUME NEW h \in Syncs,
               SyncStep(h) \/ \E report \in Reports : FetchProviderSettlements(h, report)
        PROVE  /\ HoldInv'
               /\ \A t \in Transactions :
                    transaction[t].settled = FALSE /\ transaction'[t].settled = TRUE
                    /\ t \notin caught => transaction[t].blocked = FALSE
    <2>1. PICK q \in Sync :
            /\ Becomes(h, q)
            /\ \A t \in Transactions : t \in q.settling \/ q.chosen = t => Near(h, t) \/ Eligible(t)
      BY <1>1, <1>4, SyncNear
    <2>2. sync'[h] = q /\ \A g \in Syncs \ {h} : sync'[g] = sync[g]
      BY <1>2, <2>1 DEF Becomes
    <2>3. \A g \in Syncs, t \in Transactions : Near(g, t)' => Near(g, t) \/ Eligible(t)
      BY <2>1, <2>2 DEF Near
    <2>4. \A t \in Transactions : Eligible(t) => transaction[t].blocked = FALSE
      BY <1>2 DEF Eligible, Transaction
    <2>5. ASSUME NEW g \in Syncs, NEW t \in Transactions, Near(g, t)', t \notin caught'
          PROVE  transaction'[t].blocked = FALSE
      <3>1. t \notin caught /\ transaction'[t].blocked = transaction[t].blocked
        BY <1>1, <1>4, <2>5, SyncTransactions
      <3> QED
        BY <2>3, <2>4, <2>5, <3>1 DEF HoldInv
    <2>6. ASSUME NEW t \in Transactions,
                 transaction[t].settled = FALSE, transaction'[t].settled = TRUE, t \notin caught
          PROVE  transaction[t].blocked = FALSE
      <3>1. t \in sync[h].settling
        BY <1>1, <1>4, <2>6, SyncTransactions
      <3> QED
        BY <2>6, <3>1 DEF HoldInv, Near
    <2> QED
      BY <1>1, <2>5, <2>6 DEF HoldInv
  <1>5. CASE UNCHANGED <<transaction, sync, caught>>
    <2>1. \A h \in Syncs, t \in Transactions : Near(h, t)' = Near(h, t)
      BY <1>5 DEF Near
    <2> QED
      BY <1>1, <1>5, <2>1 DEF HoldInv
  <1>6. Day \/ (\E c \in Calls : CallStep(c)) \/ UNCHANGED vars => UNCHANGED <<transaction, sync, caught>>
    BY <1>1, CallStepIs DEF Day, DayPasses, vars, settlementVars
  <1> QED
    BY <1>3, <1>4, <1>5, <1>6 DEF Next, SettlementStep

LEMMA HoldAtInit == Init => HoldInv
  <1>1. NewSync.settling = {} /\ NewSync.chosen = Nothing
    BY DEF NewSync
  <1> QED
    BY <1>1, BaseAtInit, SettlementAssumption DEF HoldInv, Near, Init, SettlementInit

\* Whatever interleaves, the first settlement of a transaction meets a hold only if the
\* hold came after the SELECT of a synchronisation.
THEOREM HeldAreNotSettled == Spec => HeldIsNotSettled
  <1>1. HoldInv /\ [Next]_vars => HoldInv'
    BY HoldNext
  <1>2. HoldInv /\ [Next]_vars =>
          [\A t \in Transactions :
             ~ transaction[t].settled /\ transaction'[t].settled /\ t \notin caught =>
               ~ transaction[t].blocked]_settlementVars
    <2> SUFFICES ASSUME HoldInv, [Next]_vars, NEW t \in Transactions,
                        ~ transaction[t].settled, transaction'[t].settled, t \notin caught
                 PROVE  ~ transaction[t].blocked
      OBVIOUS
    <2>1. transaction[t] \in Transaction /\ transaction'[t] \in Transaction
      <3>1. BaseInv /\ BaseInv'
        BY BaseNext DEF HoldInv
      <3> QED
        BY <3>1 DEF BaseInv, TypeInv, TypeOK, SettlementTypeOK
    <2>2. transaction[t].settled = FALSE /\ transaction'[t].settled = TRUE
      BY <2>1 DEF Transaction
    <2> QED
      BY <2>2, HoldNext
  <1> QED
    BY <1>1, <1>2, HoldAtInit, PTL DEF Spec, HeldIsNotSettled

-----------------------------------------------------------------------------
(* What calls find and close. *)

FoundAt(c, e) == Exposed(transaction[e[1]], e[2], call[c].grace)

FoundInv ==
  /\ BaseInv
  /\ \A c \in Calls : \A e \in call[c].found : FoundAt(c, e)

\* What a call has found, from a row and a grace.
LEMMA FoundIs ==
  ASSUME NEW row, NEW type, NEW g, NEW c, NEW e,
         row = transaction'[e[1]], type = e[2], g = call'[c].grace,
         Exposed(row, type, g)'
  PROVE  FoundAt(c, e)'
  BY DEF FoundAt, Exposed, Outstanding, Unsettled, Quiet

\* Only the clock makes a difference.
LEMMA SameExposes ==
  ASSUME NEW row, NEW type, NEW g, UNCHANGED now, Exposed(row, type, g)
  PROVE  Exposed(row, type, g)'
  BY DEF Exposed, Outstanding, Unsettled, Quiet

\* The two conditions agree, but for the grace.
LEMMA ConditionsAgree ==
  ASSUME NEW row \in Transaction, NEW type \in Type, NEW g \in Nat, NEW k \in Nat, now \in Nat,
         Exposed(row, type, g), ~ (type = "PAID_NOT_FULFILLED" /\ k > g)
  PROVE  StillExposed(row, type, k)
  <1>1. type \in {"PAID_NOT_FULFILLED", "REFUND_PENDING_TOO_LONG", "FULFILLED_NOT_SETTLED"}
    BY DEF Type, Types
  <1>2. CASE type = "PAID_NOT_FULFILLED"
    <2>1. now > g /\ row.vend # "FULFILLED" /\ row.status # "REFUNDED"
      BY <1>2 DEF Exposed
    <2>2. now > k
      BY <1>2, <2>1
    <2> QED
      BY <1>2, <2>1, <2>2 DEF StillExposed
  <1>3. CASE type = "REFUND_PENDING_TOO_LONG"
    BY <1>3 DEF Exposed, StillExposed, Outstanding
  <1>4. CASE type = "FULFILLED_NOT_SETTLED"
    BY <1>4 DEF Exposed, StillExposed, Unsettled
  <1> QED
    BY <1>1, <1>2, <1>3, <1>4

\* What is exposed stays so as time passes.
LEMMA TimeExposes ==
  ASSUME NEW row \in Transaction, NEW type \in Type, NEW g \in Nat, now \in Nat,
         now' = now + 1, Exposed(row, type, g)
  PROVE  Exposed(row, type, g)'
  <1>1. type \in {"PAID_NOT_FULFILLED", "REFUND_PENDING_TOO_LONG", "FULFILLED_NOT_SETTLED"}
    BY DEF Type, Types
  <1>2. now > g => now' > g
    OBVIOUS
  <1>3. Quiet(row) => Quiet(row)'
    BY DEF Quiet, Transaction
  <1>4. CASE type = "PAID_NOT_FULFILLED"
    BY <1>2, <1>4 DEF Exposed
  <1>5. CASE type = "REFUND_PENDING_TOO_LONG"
    BY <1>3, <1>5 DEF Exposed, Outstanding
  <1>6. CASE type = "FULFILLED_NOT_SETTLED"
    BY <1>3, <1>6 DEF Exposed, Unsettled
  <1> QED
    BY <1>1, <1>4, <1>5, <1>6

\* Types of what a call holds.
LEMMA CallTypes ==
  ASSUME BaseInv, NEW c \in Calls
  PROVE  /\ call[c] \in Call
         /\ call[c].grace \in Nat
         /\ \A e \in call[c].found : e[1] \in Transactions /\ e[2] \in Type
         /\ \A e \in open : e[1] \in Transactions /\ e[2] \in Type
         /\ transaction \in [Transactions -> Transaction]
         /\ now \in Nat
         /\ call \in [Calls -> Call]
  <1>1. /\ call \in [Calls -> Call]
        /\ transaction \in [Transactions -> Transaction]
        /\ now \in Nat
        /\ open \subseteq Exception
    BY SettlementAssumption DEF BaseInv, TypeInv, TypeOK, SettlementTypeOK
  <1>2. call[c] \in Call
    BY <1>1
  <1>3. call[c].grace \in Nat /\ call[c].found \subseteq Exception
    <2>1. call[c].grace \in Graces \cup {0} /\ call[c].found \subseteq Exception
      BY <1>2 DEF Call
    <2>2. \A g \in Graces \cup {0} : g \in Nat
      BY ReconciliationAssumption
    <2>3. call[c].grace \in Nat
      BY <2>1, <2>2, Zenon
    <2> QED
      BY <2>1, <2>3
  <1>4. \A e \in Exception : e[1] \in Transactions /\ e[2] \in Type
    BY DEF Exception
  <1> QED
    BY <1>1, <1>2, <1>3, <1>4

LEMMA FoundNext ==
  ASSUME FoundInv, [Next]_vars
  PROVE  FoundInv'
  <1>1. BaseInv /\ BaseInv' /\ TypeInv
    BY BaseNext DEF FoundInv, BaseInv
  <1>2. CASE SettlementStep
    <2>1. UNCHANGED now
      <3>1. OthersStep => UNCHANGED now
        BY DEF OthersStep, ReportVend, RequestRefund, RecordRefundResult
      <3>2. ASSUME NEW h \in Syncs, SyncStep(h) PROVE UNCHANGED now
        <4>1. /\ UpsertSettlements(h) => UNCHANGED now
              /\ \A s \in Settlements : ReadSettlement(h, s) => UNCHANGED now
              /\ \A reference \in References : MatchReference(h, reference) => UNCHANGED now
          BY DEF UpsertSettlements, ReadSettlement, MatchReference
        <4>2. /\ LinkTransaction(h) => UNCHANGED now
              /\ SettleTransaction(h) => UNCHANGED now
              /\ CommitMatches(h) => UNCHANGED now
              /\ AbandonSync(h) => UNCHANGED now
          BY DEF LinkTransaction, SettleTransaction, CommitMatches, AbandonSync
        <4> QED
          BY <3>2, <4>1, <4>2 DEF SyncStep
      <3>3. \A h \in Syncs, report \in Reports : FetchProviderSettlements(h, report) => UNCHANGED now
        BY DEF FetchProviderSettlements
      <3> QED
        BY <1>2, <3>1, <3>2, <3>3 DEF SettlementStep
    <2>2. ASSUME NEW c \in Calls, NEW e \in call'[c].found
          PROVE  FoundAt(c, e)'
      <3>1. /\ e \in call[c].found /\ transaction'[e[1]] = transaction[e[1]]
            /\ call'[c].grace = call[c].grace
        BY <1>1, <1>2, <2>2, SettlementStepCalls
      <3>2. PICK row, g : row = transaction[e[1]] /\ g = call[c].grace
        OBVIOUS
      <3>3. Exposed(row, e[2], g)
        BY <3>1, <3>2 DEF FoundInv, FoundAt
      <3>4. Exposed(row, e[2], g)'
        BY <2>1, <3>3, SameExposes
      <3> QED
        BY <3>1, <3>2, <3>4, FoundIs
    <2> QED
      BY <1>1, <2>2 DEF FoundInv
  <1>3. CASE Day
    <2>1. now' = now + 1 /\ UNCHANGED <<transaction, call>>
      BY <1>3 DEF Day, DayPasses
    <2>2. ASSUME NEW c \in Calls, NEW e \in call[c].found
          PROVE  FoundAt(c, e)'
      <3>1. PICK row, g : row = transaction[e[1]] /\ g = call[c].grace
        OBVIOUS
      <3>2. Exposed(row, e[2], g)
        BY <3>1 DEF FoundInv, FoundAt
      <3>3. row \in Transaction /\ e[2] \in Type /\ g \in Nat /\ now \in Nat
        BY <1>1, <3>1, CallTypes
      <3>4. Exposed(row, e[2], g)'
        BY <2>1, <3>2, <3>3, TimeExposes
      <3> QED
        BY <2>1, <3>1, <3>4, FoundIs
    <2> QED
      BY <1>1, <2>1, <2>2 DEF FoundInv
  <1>4. ASSUME NEW c \in Calls, CallStep(c) PROVE FoundInv'
    <2>1. UNCHANGED <<now, transaction>>
      BY <1>1, <1>4, CallStepIs DEF settlementVars
    <2>2. \E q \in Call :
            /\ CallBecomes(c, q)
            /\ \A e \in q.found : Exposed(transaction[e[1]], e[2], q.grace)
      <3>1. CASE \E principal \in Principals, grace \in Graces :
                   StartReconciliation(c, principal, grace)
        BY <1>1, <3>1, StartIs
      <3>2. CASE SelectExposed(c)
        <4>1. PICK type \in Type, q \in Call :
                /\ CallBecomes(c, q)
                /\ q.grace = call[c].grace
                /\ q.found = call[c].found \cup q.selected
                /\ \A e \in q.selected :
                     e[2] = type /\ Exposed(transaction[e[1]], type, q.grace)
          BY <1>1, <3>2, SelectIs
        <4>2. \A e \in q.found : Exposed(transaction[e[1]], e[2], q.grace)
          BY <4>1 DEF FoundInv, FoundAt
        <4> QED
          BY <4>1, <4>2
      <3>3. CASE InsertExceptions(c)
        BY <1>1, <3>3, InsertIs DEF FoundInv, FoundAt
      <3>4. CASE CommitReconciliation(c)
        BY <1>1, <3>4, CommitCallIs DEF FoundInv, FoundAt
      <3>5. CASE ResolveCleared(c) \/ AbandonCall(c)
        BY <1>1, <3>5, EndCallIs DEF FoundInv, FoundAt
      <3> QED
        BY <1>4, <3>1, <3>2, <3>3, <3>4, <3>5 DEF CallStep
    <2>3. PICK q \in Call :
            /\ CallBecomes(c, q)
            /\ \A e \in q.found : Exposed(transaction[e[1]], e[2], q.grace)
      BY <2>2
    <2>4. call'[c] = q /\ \A d \in Calls \ {c} : call'[d] = call[d]
      BY <1>1, <2>3, CallTypes DEF CallBecomes
    <2>5. ASSUME NEW d \in Calls, NEW e \in call'[d].found
          PROVE  Exposed(transaction[e[1]], e[2], call'[d].grace)
      BY <2>3, <2>4, <2>5 DEF FoundInv, FoundAt
    <2>6. ASSUME NEW d \in Calls, NEW e \in call'[d].found
          PROVE  FoundAt(d, e)'
      <3>1. PICK row, g : row = transaction[e[1]] /\ g = call'[d].grace
        OBVIOUS
      <3>2. Exposed(row, e[2], g)
        BY <2>5, <2>6, <3>1
      <3>3. Exposed(row, e[2], g)'
        BY <2>1, <3>2, SameExposes
      <3> QED
        BY <2>1, <3>1, <3>3, FoundIs
    <2> QED
      BY <1>1, <2>6 DEF FoundInv
  <1>5. CASE UNCHANGED vars
    <2>1. UNCHANGED <<now, transaction, call>>
      BY <1>5 DEF vars, settlementVars
    <2>2. ASSUME NEW c \in Calls, NEW e \in call[c].found
          PROVE  FoundAt(c, e)'
      <3>1. PICK row, g : row = transaction[e[1]] /\ g = call[c].grace
        OBVIOUS
      <3>2. Exposed(row, e[2], g)
        BY <3>1 DEF FoundInv, FoundAt
      <3>3. Exposed(row, e[2], g)'
        BY <2>1, <3>2, SameExposes
      <3> QED
        BY <2>1, <3>1, <3>3, FoundIs
    <2> QED
      BY <1>1, <2>1, <2>2 DEF FoundInv
  <1> QED
    BY <1>2, <1>3, <1>4, <1>5 DEF Next

LEMMA FoundAtInit == Init => FoundInv
  BY BaseAtInit, NewCallIs DEF Init, FoundInv

\* Where a call closes what was found, it allows a longer grace.
LEMMA ClosesOnlyForgiven ==
  ASSUME FoundInv, NEW c \in Calls, NEW d \in Calls, ResolveCleared(c),
         NEW e \in open, e \in call[d].found, e \notin open'
  PROVE  Forgiving(c, d, e)
  <1>1. BaseInv
    BY DEF FoundInv
  <1>2. /\ transaction[e[1]] \in Transaction /\ e[2] \in Type
        /\ call[c].grace \in Nat /\ call[d].grace \in Nat /\ now \in Nat
    BY <1>1, CallTypes
  <1>3. Exposed(transaction[e[1]], e[2], call[d].grace)
    BY DEF FoundInv, FoundAt
  <1>4. ~ StillExposed(transaction[e[1]], e[2], call[c].grace)
    BY DEF ResolveCleared
  <1> QED
    BY <1>2, <1>3, <1>4, ConditionsAgree DEF Forgiving

\* Who moves a call.
LEMMA WhoMoves ==
  ASSUME BaseInv, Next, NEW c \in Calls, call'[c].pc # call[c].pc
  PROVE  CallStep(c)
  <1>1. CASE SettlementStep
    BY <1>1, SettlementStepCalls DEF BaseInv
  <1>2. CASE Day
    BY <1>2 DEF Day
  <1>3. ASSUME NEW d \in Calls, CallStep(d) PROVE CallStep(c)
    <2>1. PICK q \in Call : CallBecomes(d, q)
      BY <1>3, CallStepIs DEF BaseInv
    <2>2. d = c
      BY <2>1, CallTypes DEF CallBecomes
    <2> QED
      BY <1>3, <2>2
  <1> QED
    BY <1>1, <1>2, <1>3 DEF Next

\* From one place to another there is one statement.
LEMMA WhichStep ==
  ASSUME TypeInv, NEW c \in Calls, CallStep(c)
  PROVE  /\ call[c].pc = "resolve" => ResolveCleared(c) \/ AbandonCall(c)
         /\ call[c].pc = "commit" /\ call'[c].pc = "resolve" => CommitReconciliation(c)
  <1>1. ASSUME AbandonCall(c) PROVE call'[c].pc = "over"
    <2>1. PICK q \in Call : CallBecomes(c, q) /\ q.pc = "over"
      BY <1>1, EndCallIs
    <2> QED
      BY <2>1 DEF CallBecomes, TypeInv, TypeOK
  <1> QED
    BY <1>1 DEF CallStep, StartReconciliation, SelectExposed, InsertExceptions,
                CommitReconciliation, ResolveCleared

\* A call closes what another has found only if the transaction has changed since, or the
\* call allows a longer grace.
THEOREM ClosedOnlyWhenChanged == Spec => ClosedOnlyOnChange
  <1>1. FoundInv /\ [Next]_vars => FoundInv'
    BY FoundNext
  <1>2. FoundInv /\ [Next]_vars =>
          [\A c, d \in Calls : \A e \in (open \ open') \cap call[d].found :
             call[c].pc = "resolve" /\ call'[c].pc = "over" => Forgiving(c, d, e)]_vars
    <2> SUFFICES ASSUME FoundInv, Next, NEW c \in Calls, NEW d \in Calls,
                        NEW e \in (open \ open') \cap call[d].found,
                        call[c].pc = "resolve", call'[c].pc = "over"
                 PROVE  Forgiving(c, d, e)
      OBVIOUS
    <2>1. CallStep(c)
      BY WhoMoves DEF FoundInv
    <2>2. ResolveCleared(c) \/ AbandonCall(c)
      BY <2>1, WhichStep DEF FoundInv, BaseInv
    <2>3. ~ AbandonCall(c)
      BY DEF AbandonCall
    <2> QED
      BY <2>2, <2>3, ClosesOnlyForgiven
  <1> QED
    BY <1>1, <1>2, FoundAtInit, PTL DEF Spec, ClosedOnlyOnChange

-----------------------------------------------------------------------------
(* Where what was found went. *)

MissInv ==
  /\ FoundInv
  /\ \A c \in Calls : call[c].pc \in {"select", "insert", "commit"} =>
       \A e \in call[c].found :
         \/ e \in open \cup call[c].inserted \cup call[c].selected
         \/ \E d \in Calls : Forgiving(d, c, e)

\* A call that has begun keeps its grace.
LEMMA GraceStays ==
  ASSUME BaseInv, NEW c \in Calls, CallStep(c), NEW d \in Calls
  PROVE  call'[d].grace = call[d].grace \/ (d = c /\ call[d] = NewCall /\ call'[d].found = {})
  <1>1. \E q \in Call :
          /\ CallBecomes(c, q)
          /\ q.grace = call[c].grace \/ (call[c] = NewCall /\ q.found = {})
    <2>1. CASE \E principal \in Principals, grace \in Graces :
                 StartReconciliation(c, principal, grace)
      BY <2>1, StartIs DEF BaseInv
    <2>2. CASE SelectExposed(c)
      BY <2>2, SelectIs DEF BaseInv
    <2>3. CASE InsertExceptions(c)
      BY <2>3, InsertIs DEF BaseInv
    <2>4. CASE CommitReconciliation(c)
      BY <2>4, CommitCallIs DEF BaseInv
    <2>5. CASE ResolveCleared(c) \/ AbandonCall(c)
      BY <2>5, EndCallIs DEF BaseInv
    <2> QED
      BY <2>1, <2>2, <2>3, <2>4, <2>5 DEF CallStep
  <1>2. PICK q \in Call :
          /\ CallBecomes(c, q)
          /\ q.grace = call[c].grace \/ (call[c] = NewCall /\ q.found = {})
    BY <1>1
  <1>3. call'[c] = q /\ \A b \in Calls \ {c} : call'[b] = call[b]
    BY <1>2, CallTypes DEF CallBecomes
  <1> QED
    BY <1>2, <1>3

\* So who forgives goes on forgiving.
LEMMA ForgivingStays ==
  ASSUME BaseInv, BaseInv', NEW b \in Calls, CallStep(b), NEW d \in Calls, NEW c \in Calls,
         NEW e, e \in call[c].found, e \in call'[c].found, Forgiving(d, c, e)
  PROVE  Forgiving(d, c, e)'
  <1>1. call'[c].grace = call[c].grace
    BY GraceStays
  <1>2. call[d].grace # 0
    BY CallTypes DEF Forgiving
  <1>3. call'[d].grace = call[d].grace
    BY <1>2, GraceStays, NewCallIs
  <1> QED
    BY <1>1, <1>3 DEF Forgiving

LEMMA MissNext ==
  ASSUME MissInv, [Next]_vars
  PROVE  MissInv'
  <1>1. FoundInv /\ FoundInv' /\ BaseInv /\ BaseInv' /\ TypeInv
    BY FoundNext DEF MissInv, FoundInv, BaseInv
  <1>2. CASE SettlementStep
    <2>1. ASSUME NEW c \in Calls, call'[c].pc \in {"select", "insert", "commit"},
                 NEW e \in call'[c].found
          PROVE  \/ e \in open' \cup call'[c].inserted \cup call'[c].selected
                 \/ \E d \in Calls : Forgiving(d, c, e)'
      <3>1. /\ UNCHANGED open
            /\ \A d \in Calls : call'[d].grace = call[d].grace
            /\ call'[c].pc = call[c].pc
            /\ call'[c].inserted = call[c].inserted /\ call'[c].selected = call[c].selected
            /\ e \in call[c].found
        BY <1>1, <1>2, <2>1, SettlementStepCalls
      <3>2. \/ e \in open \cup call[c].inserted \cup call[c].selected
            \/ \E d \in Calls : Forgiving(d, c, e)
        BY <2>1, <3>1 DEF MissInv
      <3>3. ASSUME NEW d \in Calls, Forgiving(d, c, e) PROVE Forgiving(d, c, e)'
        BY <3>1, <3>3 DEF Forgiving
      <3> QED
        BY <3>1, <3>2, <3>3
    <2> QED
      BY <1>1, <2>1 DEF MissInv
  <1>3. ASSUME NEW b \in Calls, CallStep(b) PROVE MissInv'
    <2> SUFFICES ASSUME NEW c \in Calls, call'[c].pc \in {"select", "insert", "commit"},
                        NEW e \in call'[c].found
                 PROVE  \/ e \in open' \cup call'[c].inserted \cup call'[c].selected
                        \/ \E d \in Calls : Forgiving(d, c, e)'
      BY <1>1 DEF MissInv
    <2>1. ASSUME e \in call[c].found, call[c].pc \in {"select", "insert", "commit"},
                 call[c].inserted \cup call[c].selected
                   \subseteq open' \cup call'[c].inserted \cup call'[c].selected,
                 \/ open \subseteq open'
                 \/ ResolveCleared(b)
          PROVE  \/ e \in open' \cup call'[c].inserted \cup call'[c].selected
                 \/ \E d \in Calls : Forgiving(d, c, e)'
      <3>1. \/ e \in open \cup call[c].inserted \cup call[c].selected
            \/ \E d \in Calls : Forgiving(d, c, e)
        BY <2>1 DEF MissInv
      <3>2. CASE e \in open /\ e \notin open'
        <4>1. Forgiving(b, c, e)
          BY <1>1, <2>1, <3>2, ClosesOnlyForgiven
        <4> QED
          BY <1>1, <1>3, <2>1, <4>1, ForgivingStays
      <3>3. CASE \E d \in Calls : Forgiving(d, c, e)
        BY <1>1, <1>3, <2>1, <3>3, ForgivingStays
      <3> QED
        BY <2>1, <3>1, <3>2, <3>3
    <2>2. open \subseteq open' \/ ResolveCleared(b)
      BY <1>3 DEF CallStep, StartReconciliation, SelectExposed, InsertExceptions,
                  CommitReconciliation, AbandonCall
    <2>3. call \in [Calls -> Call]
      BY <1>1, CallTypes
    <2>4. CASE c # b
      <3>1. call'[c] = call[c]
        BY <1>1, <1>3, <2>3, <2>4, CallStepIs DEF CallBecomes
      <3> QED
        BY <2>1, <2>2, <3>1
    <2>5. CASE c = b
      <3>1. CASE \E principal \in Principals, grace \in Graces :
                   StartReconciliation(b, principal, grace)
        <4>1. PICK q \in Call : CallBecomes(b, q) /\ q.found = {}
          BY <1>1, <3>1, StartIs
        <4> QED
          BY <2>3, <2>5, <4>1 DEF CallBecomes
      <3>2. CASE SelectExposed(b)
        <4>1. PICK q \in Call :
                /\ CallBecomes(b, q)
                /\ q.inserted = call[b].inserted
                /\ q.found = call[b].found \cup q.selected
          BY <1>1, <3>2, SelectIs
        <4>2. call'[b] = q
          BY <2>3, <4>1 DEF CallBecomes
        <4>3. call[b].selected = {} /\ call[b].pc = "select"
          BY <1>1, <3>2 DEF SelectExposed, TypeInv, CallInv, CallGood
        <4>4. CASE e \in q.selected
          BY <2>5, <4>2, <4>4
        <4>5. CASE e \in call[b].found
          BY <2>1, <2>2, <2>5, <4>1, <4>2, <4>3, <4>5
        <4> QED
          BY <2>5, <4>1, <4>2, <4>4, <4>5
      <3>3. CASE InsertExceptions(b)
        <4>1. PICK q \in Call :
                /\ CallBecomes(b, q)
                /\ q.found = call[b].found
                /\ call[b].inserted \subseteq q.inserted
                /\ call[b].selected \subseteq open \cup q.inserted
          BY <1>1, <3>3, InsertIs
        <4>2. call'[b] = q
          BY <2>3, <4>1 DEF CallBecomes
        <4>3. open' = open /\ call[b].pc = "insert"
          BY <3>3 DEF InsertExceptions
        <4> QED
          BY <2>1, <2>5, <4>1, <4>2, <4>3
      <3>4. CASE CommitReconciliation(b)
        <4>1. PICK q \in Call : CallBecomes(b, q) /\ q.pc = "resolve"
          BY <1>1, <3>4, CommitCallIs
        <4> QED
          BY <2>3, <2>5, <4>1 DEF CallBecomes
      <3>5. CASE ResolveCleared(b) \/ AbandonCall(b)
        <4>1. PICK q \in Call : CallBecomes(b, q) /\ q.pc = "over"
          BY <1>1, <3>5, EndCallIs
        <4> QED
          BY <2>3, <2>5, <4>1 DEF CallBecomes
      <3> QED
        BY <1>3, <3>1, <3>2, <3>3, <3>4, <3>5 DEF CallStep
    <2> QED
      BY <2>4, <2>5
  <1>4. CASE UNCHANGED <<open, call>>
    BY <1>1, <1>4 DEF MissInv, Forgiving
  <1> QED
    BY <1>2, <1>3, <1>4 DEF Next, Day, vars

LEMMA MissAtInit == Init => MissInv
  BY FoundAtInit, NewCallIs DEF Init, MissInv

\* When a call commits, what it has found of a transaction that has not changed is open,
\* or a call that allows a longer grace has closed it.
THEOREM NothingIsMissed == Spec => NothingMissed
  <1>1. MissInv /\ [Next]_vars => MissInv'
    BY MissNext
  <1>2. MissInv /\ [Next]_vars =>
          [\A c \in Calls : call[c].pc = "commit" /\ call'[c].pc = "resolve" =>
             \A e \in call[c].found : e \in open' \/ \E d \in Calls : Forgiving(d, c, e)]_vars
    <2> SUFFICES ASSUME MissInv, Next, NEW c \in Calls,
                        call[c].pc = "commit", call'[c].pc = "resolve",
                        NEW e \in call[c].found
                 PROVE  e \in open' \/ \E d \in Calls : Forgiving(d, c, e)
      OBVIOUS
    <2>1. BaseInv /\ TypeInv
      BY DEF MissInv, FoundInv, BaseInv
    <2>2. CallStep(c)
      BY <2>1, WhoMoves
    <2>3. CommitReconciliation(c)
      BY <2>1, <2>2, WhichStep
    <2>4. open' = open \cup call[c].inserted
      BY <2>3 DEF CommitReconciliation
    <2>5. call[c].selected = {}
      BY <2>1, <2>3, CommitCallIs
    <2> QED
      BY <2>4, <2>5 DEF MissInv
  <1> QED
    BY <1>1, <1>2, MissAtInit, PTL DEF Spec, NothingMissed

-----------------------------------------------------------------------------
(* Why a transaction is settled. *)

\* What a synchronisation was told, that one it relies on was told so, and what it found.
Told(g, s) == s \in DOMAIN sync[g].report /\ sync[g].report[s].complete
Backed(h, s) == \E g \in Syncs : (g = h \/ h \in mixed) /\ Told(g, s)
Listed(h, s, t) == s \in DOMAIN sync[h].report /\ ReferenceOf[t] \in sync[h].report[s].references

\* From the answer to the line, from the line to the transaction, from there to the UPDATE.
Carries(h, q) ==
  /\ \A s \in q.lines : settlement[s] = "complete" => Backed(h, s)
  /\ q.complete /\ q.line # Nothing => Backed(h, q.line)
  /\ \A reference \in q.todo :
       q.line \in DOMAIN sync[h].report /\ reference \in sync[h].report[q.line].references
  /\ q.chosen # Nothing => Listed(h, q.line, q.chosen)
  /\ q.pc = "settle" => q.complete /\ <<q.line, q.chosen>> \in links \cup q.linked
  /\ \A t \in q.settling :
       \E s \in Settlements :
         <<s, t>> \in links \cup q.linked /\ Listed(h, s, t) /\ Backed(h, s)

Reasoned(t) ==
  \E h \in Syncs, s \in Settlements : <<s, t>> \in links /\ Listed(h, s, t) /\ Backed(h, s)

ReportInv ==
  /\ BaseInv
  /\ \A s \in Settlements : settlement[s] = "complete" => \E g \in Syncs : Told(g, s)
  /\ \A h \in Syncs : Carries(h, sync[h])
  /\ \A t \in Transactions : transaction[t].settled = TRUE => Reasoned(t)

\* Answers are never forgotten, nor is what was committed.
Grows ==
  /\ \A h \in Syncs : sync'[h].report = sync[h].report \/ sync[h] = NewSync
  /\ links \subseteq links'
  /\ mixed \subseteq mixed'

LEMMA NothingForgotten ==
  ASSUME BaseInv, Grows
  PROVE  /\ \A h \in Syncs, s \in Settlements : Told(h, s) => Told(h, s)'
         /\ \A h \in Syncs, s \in Settlements : Backed(h, s) => Backed(h, s)'
         /\ \A h \in Syncs, s \in Settlements, t \in Transactions : Listed(h, s, t) => Listed(h, s, t)'
         /\ \A t \in Transactions : Reasoned(t) => Reasoned(t)'
  <1>1. NewSync.report = <<>>
    BY DEF NewSync
  <1>2. \A h \in Syncs, s \in Settlements : Told(h, s) => Told(h, s)'
    BY <1>1, EmptyReport DEF Grows, Told
  <1>3. \A h \in Syncs, s \in Settlements : Backed(h, s) => Backed(h, s)'
    BY <1>2 DEF Grows, Backed
  <1>4. \A h \in Syncs, s \in Settlements, t \in Transactions : Listed(h, s, t) => Listed(h, s, t)'
    BY <1>1, EmptyReport DEF Grows, Listed
  <1>5. \A t \in Transactions : Reasoned(t) => Reasoned(t)'
    BY <1>3, <1>4 DEF Grows, Reasoned
  <1> QED
    BY <1>2, <1>3, <1>4, <1>5

\* What a synchronisation goes on carrying: q is its record after the step, p before.
LEMMA CarriesOn ==
  ASSUME BaseInv, Grows, NEW h \in Syncs, NEW p \in Sync, NEW q \in Sync, p = sync[h],
         Carries(h, p), sync'[h].report = p.report, p.linked \subseteq q.linked
  PROVE  /\ q.line = p.line /\ q.complete = p.complete =>
              (q.complete /\ q.line # Nothing => Backed(h, q.line))'
         /\ q.line = p.line /\ q.todo \subseteq p.todo =>
              (\A reference \in q.todo :
                 /\ q.line \in DOMAIN sync[h].report
                 /\ reference \in sync[h].report[q.line].references)'
         /\ \A t \in p.settling :
              (\E s \in Settlements :
                 <<s, t>> \in links \cup q.linked /\ Listed(h, s, t) /\ Backed(h, s))'
  <1>1. /\ p.line \in Settlements \cup {Nothing} /\ p.settling \subseteq Transactions
        /\ q.line \in Settlements \cup {Nothing}
    BY DEF Sync
  <1>2. ASSUME q.line = p.line, q.complete = p.complete, q.complete, q.line # Nothing
        PROVE  Backed(h, q.line)'
    BY <1>1, <1>2, NothingForgotten DEF Carries
  <1>3. ASSUME q.line = p.line, q.todo \subseteq p.todo, NEW reference \in q.todo
        PROVE  (/\ q.line \in DOMAIN sync[h].report
                /\ reference \in sync[h].report[q.line].references)'
    BY <1>3 DEF Carries
  <1>4. ASSUME NEW t \in p.settling
        PROVE  (\E s \in Settlements :
                  <<s, t>> \in links \cup q.linked /\ Listed(h, s, t) /\ Backed(h, s))'
    <2>1. PICK s \in Settlements :
            <<s, t>> \in links \cup p.linked /\ Listed(h, s, t) /\ Backed(h, s)
      BY DEF Carries
    <2>2. Listed(h, s, t)' /\ Backed(h, s)'
      BY <1>1, <2>1, NothingForgotten
    <2>3. <<s, t>> \in links' \cup q.linked
      BY <2>1 DEF Grows
    <2> QED
      BY <2>2, <2>3
  <1> QED
    BY <1>2, <1>3, <1>4

\* A synchronisation that does nothing keeps what it carries.
LEMMA CarriesStill ==
  ASSUME BaseInv, Grows, NEW h \in Syncs, NEW q \in Sync, q = sync[h], sync'[h] = q, Carries(h, q),
         \A s \in q.lines :
           settlement'[s] = "complete" => settlement[s] = "complete" \/ Backed(h, s)'
  PROVE  Carries(h, q)'
  <1>1. /\ q.lines \subseteq Settlements
        /\ q.line \in Settlements \cup {Nothing} /\ q.chosen \in Transactions \cup {Nothing}
    BY DEF Sync
  <1>2. \A s \in q.lines : (settlement[s] = "complete" => Backed(h, s))'
    BY <1>1, NothingForgotten DEF Carries
  <1>3. /\ (q.complete /\ q.line # Nothing => Backed(h, q.line))'
        /\ (\A reference \in q.todo :
              /\ q.line \in DOMAIN sync[h].report
              /\ reference \in sync[h].report[q.line].references)'
        /\ \A t \in q.settling :
             (\E s \in Settlements :
                <<s, t>> \in links \cup q.linked /\ Listed(h, s, t) /\ Backed(h, s))'
    BY CarriesOn
  <1>4. q.chosen # Nothing => Listed(h, q.line, q.chosen)'
    BY DEF Carries, Listed
  <1>5. q.pc = "settle" => q.complete /\ <<q.line, q.chosen>> \in links' \cup q.linked
    BY DEF Carries, Grows
  <1> QED
    BY <1>2, <1>3, <1>4, <1>5 DEF Carries

\* Nothing is forgotten by any step.
LEMMA StepsGrow ==
  ASSUME BaseInv, [Next]_vars
  PROVE  Grows
  <1>1. CASE OthersStep
    BY <1>1, OthersTransactions DEF Grows
  <1>2. ASSUME NEW h \in Syncs,
               SyncStep(h) \/ \E report \in Reports : FetchProviderSettlements(h, report)
        PROVE  Grows
    <2>1. PICK q \in Sync : Becomes(h, q) /\ (q.report = sync[h].report \/ sync[h] = NewSync)
      BY <1>2, SyncStepIs DEF BaseInv
    <2>2. \A g \in Syncs : sync'[g].report = sync[g].report \/ sync[g] = NewSync
      BY <2>1 DEF Becomes, BaseInv, TypeInv, TypeOK, SettlementTypeOK
    <2>3. links \subseteq links' /\ mixed \subseteq mixed'
      BY <1>2 DEF SyncStep, FetchProviderSettlements, UpsertSettlements, ReadSettlement,
                  MatchReference, LinkTransaction, SettleTransaction, CommitMatches, AbandonSync
    <2> QED
      BY <2>2, <2>3 DEF Grows
  <1>3. CASE UNCHANGED <<sync, links, mixed>>
    BY <1>3 DEF Grows
  <1>4. Day \/ (\E c \in Calls : CallStep(c)) \/ UNCHANGED vars => UNCHANGED <<sync, links, mixed>>
    BY CallStepIs DEF Day, DayPasses, vars, settlementVars, BaseInv
  <1> QED
    BY <1>1, <1>2, <1>3, <1>4 DEF Next, SettlementStep

\* What a synchronisation that takes a step carries then.
LEMMA MoverCarries ==
  ASSUME ReportInv, Grows, NEW h \in Syncs,
         SyncStep(h) \/ \E report \in Reports : FetchProviderSettlements(h, report)
  PROVE  \E q \in Sync : Becomes(h, q) /\ Carries(h, q)'
  <1>0. /\ BaseInv /\ TypeInv
        /\ sync \in [Syncs -> Sync] /\ sync[h] \in Sync
        /\ Carries(h, sync[h])
        /\ \A t \in Transactions : t # Nothing
        /\ Nothing \notin Settlements
    BY SettlementAssumption DEF ReportInv, BaseInv, TypeInv, TypeOK, SettlementTypeOK
  <1>00. \A q \in Sync : Becomes(h, q) => sync'[h] = q
    BY <1>0 DEF Becomes
  <1> DEFINE p == sync[h]
  <1>1. CASE \/ \E report \in Reports : FetchProviderSettlements(h, report)
             \/ CommitMatches(h) \/ AbandonSync(h)
    <2>1. PICK q \in Sync :
            /\ Becomes(h, q)
            /\ q.pc # "settle"
            /\ q.lines = {} /\ q.line = Nothing /\ q.todo = {} /\ q.chosen = Nothing
            /\ q.settling = {}
      BY <1>0, <1>1, FetchIs, EndIs
    <2> QED
      BY <2>1 DEF Carries
  <1>2. CASE UpsertSettlements(h)
    <2>1. PICK q \in Sync :
            /\ Becomes(h, q) /\ Keeps(h, q)
            /\ q.pc = "match"
            /\ q.line = p.line /\ q.complete = p.complete /\ q.todo = p.todo
            /\ q.chosen = Nothing /\ q.settling = p.settling
      BY <1>0, <1>2, UpsertIs
    <2>2. sync'[h] = q /\ q.report = p.report /\ q.linked = p.linked
      BY <1>00, <2>1 DEF Keeps
    <2>3. ASSUME NEW s \in q.lines, settlement'[s] = "complete"
          PROVE  Backed(h, s)'
      <3>1. s \in DOMAIN p.report /\ s \in Settlements
        BY <1>0, <2>1, <2>2 DEF Becomes, SyncGood, Sync
      <3>2. p.report[s].complete
        BY <1>2, <2>3, <3>1 DEF UpsertSettlements
      <3> QED
        BY <2>2, <3>1, <3>2 DEF Backed, Told
    <2> QED
      BY <1>0, <2>1, <2>2, <2>3, CarriesOn DEF Carries
  <1>3. ASSUME NEW s \in Settlements, ReadSettlement(h, s)
        PROVE  \E q \in Sync : Becomes(h, q) /\ Carries(h, q)'
    <2>1. PICK q \in Sync :
            /\ Becomes(h, q) /\ Keeps(h, q)
            /\ q.pc = "match" /\ q.lines \subseteq p.lines
            /\ q.line = s /\ q.complete = Complete(s)
            /\ q.todo = p.report[s].references
            /\ q.chosen = Nothing /\ q.settling = p.settling
      BY <1>0, <1>3, ReadIs
    <2>2. sync'[h] = q /\ q.report = p.report /\ q.linked = p.linked
      BY <1>00, <2>1 DEF Keeps
    <2>3. s \in p.lines /\ s \in DOMAIN p.report
      BY <1>0, <1>3, ReadIs
    <2>4. UNCHANGED settlement
      BY <1>3 DEF ReadSettlement
    <2>5. \A r \in p.lines : settlement[r] = "complete" => Backed(h, r)'
      <3>1. p.lines \subseteq Settlements
        BY <1>0 DEF Sync
      <3> QED
        BY <1>0, <3>1, NothingForgotten DEF Carries
    <2>6. q.complete => Backed(h, s)'
      BY <2>1, <2>3, <2>5 DEF Complete
    <2>7. \A t \in q.settling :
            (\E r \in Settlements :
               <<r, t>> \in links \cup q.linked /\ Listed(h, r, t) /\ Backed(h, r))'
      BY <1>0, <2>1, <2>2, CarriesOn
    <2>8. \A reference \in q.todo :
            (/\ q.line \in DOMAIN sync[h].report
             /\ reference \in sync[h].report[q.line].references)'
      BY <2>1, <2>2, <2>3
    <2>9. \A r \in q.lines : (settlement[r] = "complete" => Backed(h, r))'
      BY <2>1, <2>4, <2>5
    <2>10. (q.complete /\ q.line # Nothing => Backed(h, q.line))'
      BY <2>1, <2>6
    <2> QED
      BY <2>1, <2>7, <2>8, <2>9, <2>10 DEF Carries
  <1>4. ASSUME NEW reference \in References, MatchReference(h, reference)
        PROVE  \E q \in Sync : Becomes(h, q) /\ Carries(h, q)'
    <2>1. PICK q \in Sync :
            /\ Becomes(h, q) /\ Keeps(h, q)
            /\ q.pc \in {"match", "link"} /\ q.lines = p.lines
            /\ q.line = p.line /\ q.complete = p.complete
            /\ q.todo \subseteq p.todo
            /\ q.settling = p.settling
            /\ q.chosen # Nothing => ReferenceOf[q.chosen] = reference
      BY <1>0, <1>4, MatchIs
    <2>2. sync'[h] = q /\ q.report = p.report /\ q.linked = p.linked
      BY <1>00, <2>1 DEF Keeps
    <2>3. reference \in p.todo
      BY <1>0, <1>4, MatchIs
    <2>4. UNCHANGED settlement
      BY <1>4 DEF MatchReference
    <2>5. \A r \in q.lines : (settlement[r] = "complete" => Backed(h, r))'
      <3>1. p.lines \subseteq Settlements
        BY <1>0 DEF Sync
      <3> QED
        BY <1>0, <2>1, <2>4, <3>1, NothingForgotten DEF Carries
    <2>6. p.line \in DOMAIN p.report /\ reference \in p.report[p.line].references
      BY <1>0, <2>3 DEF Carries
    <2>7. q.chosen # Nothing => Listed(h, q.line, q.chosen)'
      BY <2>1, <2>2, <2>6 DEF Listed
    <2> QED
      BY <1>0, <2>1, <2>2, <2>5, <2>7, CarriesOn DEF Carries
  <1>5. CASE LinkTransaction(h)
    <2>1. PICK q \in Sync :
            /\ Becomes(h, q) /\ q.report = p.report
            /\ p.linked \subseteq q.linked
            /\ q.lines = p.lines /\ q.line = p.line
            /\ q.complete = p.complete /\ q.todo = p.todo
            /\ q.settling = p.settling
            /\ q.pc = "settle" => q.complete
            /\ q.chosen \in {p.chosen, Nothing}
            /\ <<p.line, p.chosen>> \in links \cup q.linked
      BY <1>0, <1>5, LinkIs
    <2>2. sync'[h] = q
      BY <1>00, <2>1
    <2>3. UNCHANGED settlement
      BY <1>5 DEF LinkTransaction
    <2>4. \A r \in q.lines : (settlement[r] = "complete" => Backed(h, r))'
      <3>1. p.lines \subseteq Settlements
        BY <1>0 DEF Sync
      <3> QED
        BY <1>0, <2>1, <2>3, <3>1, NothingForgotten DEF Carries
    <2>5. q.chosen # Nothing => Listed(h, q.line, q.chosen)'
      BY <1>0, <2>1, <2>2 DEF Carries, Listed
    <2>6. q.pc = "settle" => q.complete /\ <<q.line, q.chosen>> \in links' \cup q.linked
      BY <2>1 DEF Becomes, SyncGood, Grows
    <2> QED
      BY <1>0, <2>1, <2>2, <2>4, <2>5, <2>6, CarriesOn DEF Carries
  <1>6. CASE SettleTransaction(h)
    <2>1. PICK q \in Sync :
            /\ Becomes(h, q) /\ Keeps(h, q)
            /\ q.pc = "match" /\ q.lines = p.lines /\ q.line = p.line
            /\ q.complete = p.complete /\ q.todo = p.todo
            /\ q.chosen = Nothing
            /\ q.settling = p.settling \cup {p.chosen}
      BY <1>0, <1>6, SettleIs
    <2>2. sync'[h] = q /\ q.report = p.report /\ q.linked = p.linked
      BY <1>00, <2>1 DEF Keeps
    <2>3. UNCHANGED settlement /\ p.pc = "settle"
      BY <1>6 DEF SettleTransaction
    <2>4. \A r \in q.lines : (settlement[r] = "complete" => Backed(h, r))'
      <3>1. p.lines \subseteq Settlements
        BY <1>0 DEF Sync
      <3> QED
        BY <1>0, <2>1, <2>3, <3>1, NothingForgotten DEF Carries
    <2>5. /\ p.line \in Settlements /\ p.chosen \in Transactions
      BY <1>0, <1>6, SettleIs
    <2>6. /\ <<p.line, p.chosen>> \in links \cup p.linked
          /\ Listed(h, p.line, p.chosen) /\ Backed(h, p.line)
      BY <1>0, <2>3, <2>5 DEF Carries
    <2>7. PICK s \in Settlements, t \in Transactions : s = p.line /\ t = p.chosen
      BY <2>5
    <2>8. Listed(h, s, t)' /\ Backed(h, s)'
      BY <1>0, <2>6, <2>7, NothingForgotten
    <2>9. \E r \in Settlements : (<<r, t>> \in links \cup q.linked /\ Listed(h, r, t) /\ Backed(h, r))'
      BY <2>2, <2>6, <2>7, <2>8 DEF Grows
    <2>10. /\ (q.complete /\ q.line # Nothing => Backed(h, q.line))'
           /\ (\A reference \in q.todo :
                 /\ q.line \in DOMAIN sync[h].report
                 /\ reference \in sync[h].report[q.line].references)'
           /\ \A u \in p.settling :
                (\E r \in Settlements :
                   <<r, u>> \in links \cup q.linked /\ Listed(h, r, u) /\ Backed(h, r))'
      BY <1>0, <2>1, <2>2, CarriesOn
    <2>11. \A u \in q.settling :
             (\E r \in Settlements :
                <<r, u>> \in links \cup q.linked /\ Listed(h, r, u) /\ Backed(h, r))'
      BY <2>1, <2>7, <2>9, <2>10
    <2> QED
      BY <2>1, <2>4, <2>10, <2>11 DEF Carries
  <1> QED
    BY <1>1, <1>2, <1>3, <1>4, <1>5, <1>6 DEF SyncStep

\* The reason of a settlement, when it is committed.
LEMMA CommitReasons ==
  ASSUME ReportInv, Grows, NEW h \in Syncs, CommitMatches(h), NEW t \in sync[h].settling
  PROVE  Reasoned(t)'
  <1>1. /\ BaseInv /\ sync[h] \in Sync /\ Carries(h, sync[h])
    BY DEF ReportInv, BaseInv, TypeInv, TypeOK, SettlementTypeOK
  <1>2. PICK s \in Settlements :
          <<s, t>> \in links \cup sync[h].linked /\ Listed(h, s, t) /\ Backed(h, s)
    BY <1>1 DEF Carries
  <1>3. t \in Transactions
    BY <1>1 DEF Sync
  <1>4. Listed(h, s, t)' /\ Backed(h, s)'
    BY <1>1, <1>2, <1>3, NothingForgotten
  <1>5. <<s, t>> \in links'
    BY <1>1, <1>2, CommitWrites
  <1> QED
    BY <1>4, <1>5 DEF Reasoned

LEMMA ReportNext ==
  ASSUME ReportInv, [Next]_vars
  PROVE  ReportInv'
  <1>1. BaseInv /\ BaseInv' /\ TypeInv /\ Grows
    BY BaseNext, StepsGrow DEF ReportInv, BaseInv
  <1>2. /\ sync \in [Syncs -> Sync] /\ sync' \in [Syncs -> Sync]
        /\ transaction' \in [Transactions -> Transaction]
    BY <1>1 DEF BaseInv, TypeInv, TypeOK, SettlementTypeOK
  <1>3. CASE UNCHANGED <<settlement, sync, links, mixed>>
             /\ \A t \in Transactions : transaction'[t].settled = transaction[t].settled
    <2>1. \A s \in Settlements : settlement'[s] = "complete" => \E g \in Syncs : Told(g, s)'
      BY <1>3 DEF ReportInv, Told
    <2>2. ASSUME NEW h \in Syncs PROVE Carries(h, sync[h])'
      <3>1. PICK q \in Sync : q = sync[h]
        BY <1>2
      <3>2. Carries(h, q)'
        BY <1>1, <1>3, <3>1, CarriesStill DEF ReportInv
      <3> QED
        BY <1>3, <3>1, <3>2 DEF Carries
    <2>3. \A t \in Transactions : transaction'[t].settled = TRUE => Reasoned(t)'
      BY <1>1, <1>3, NothingForgotten DEF ReportInv
    <2> QED
      BY <1>1, <2>1, <2>2, <2>3 DEF ReportInv
  <1>4. ASSUME NEW h \in Syncs,
               SyncStep(h) \/ \E report \in Reports : FetchProviderSettlements(h, report)
        PROVE  ReportInv'
    <2>1. PICK q \in Sync : Becomes(h, q) /\ Carries(h, q)'
      BY <1>1, <1>4, MoverCarries
    <2>2. sync'[h] = q /\ \A g \in Syncs \ {h} : sync'[g] = sync[g]
      BY <1>2, <2>1 DEF Becomes
    <2>3. \/ UNCHANGED settlement
          \/ UpsertSettlements(h)
      BY <1>4 DEF SyncStep, FetchProviderSettlements, ReadSettlement, MatchReference,
                  LinkTransaction, SettleTransaction, CommitMatches, AbandonSync
    <2>4. ASSUME NEW s \in Settlements, settlement'[s] = "complete"
          PROVE  \/ settlement[s] = "complete"
                 \/ /\ Told(h, s)'
                    /\ \A g \in Syncs \ {h} : s \in sync[g].lines => g \in mixed'
      <3>1. CASE UNCHANGED settlement
        BY <2>4, <3>1
      <3>2. CASE UpsertSettlements(h) /\ s \in DOMAIN sync[h].report
        <4>1. sync[h].report[s].complete
          BY <2>4, <3>2 DEF UpsertSettlements
        <4>2. sync'[h].report = sync[h].report
          <5>1. PICK r \in Sync : Becomes(h, r) /\ Keeps(h, r)
            BY <1>1, <3>2, UpsertIs
          <5> QED
            BY <1>2, <5>1 DEF Becomes, Keeps
        <4>3. \A g \in Syncs \ {h} : s \in sync[g].lines => g \in mixed'
          BY <3>2 DEF UpsertSettlements
        <4> QED
          BY <3>2, <4>1, <4>2, <4>3 DEF Told
      <3>3. CASE UpsertSettlements(h) /\ s \notin DOMAIN sync[h].report
        BY <2>4, <3>3 DEF UpsertSettlements
      <3> QED
        BY <2>3, <3>1, <3>2, <3>3
    <2>5. \A s \in Settlements : settlement'[s] = "complete" => \E g \in Syncs : Told(g, s)'
      BY <1>1, <2>4, NothingForgotten DEF ReportInv
    <2>6. ASSUME NEW g \in Syncs PROVE Carries(g, sync[g])'
      <3>1. CASE g = h
        BY <2>1, <2>2, <3>1 DEF Carries
      <3>2. CASE g # h
        <4>1. PICK r \in Sync : r = sync[g] /\ r = sync'[g]
          BY <1>2, <2>2, <3>2
        <4>2. \A s \in r.lines :
                settlement'[s] = "complete" => settlement[s] = "complete" \/ Backed(g, s)'
          <5>1. r.lines \subseteq Settlements
            BY DEF Sync
          <5> QED
            BY <2>4, <3>2, <4>1, <5>1 DEF Backed
        <4>3. Carries(g, r)'
          BY <1>1, <4>1, <4>2, CarriesStill DEF ReportInv
        <4> QED
          BY <4>1, <4>3 DEF Carries
      <3> QED
        BY <3>1, <3>2
    <2>7. ASSUME NEW t \in Transactions, transaction'[t].settled = TRUE
          PROVE  Reasoned(t)'
      <3>1. CASE transaction'[t] = transaction[t]
        BY <1>1, <2>7, <3>1, NothingForgotten DEF ReportInv
      <3>2. CASE transaction'[t] # transaction[t]
        <4>1. CommitMatches(h) /\ t \in sync[h].settling
          BY <1>1, <1>4, <3>2, SyncTransactions
        <4> QED
          BY <1>1, <4>1, CommitReasons
      <3> QED
        BY <3>1, <3>2
    <2> QED
      BY <1>1, <2>5, <2>6, <2>7 DEF ReportInv
  <1>5. OthersStep => /\ UNCHANGED <<settlement, sync, links, mixed>>
                      /\ \A t \in Transactions : transaction'[t].settled = transaction[t].settled
    BY <1>1, OthersTransactions
  <1>6. Day \/ (\E c \in Calls : CallStep(c)) \/ UNCHANGED vars =>
          UNCHANGED <<settlement, sync, links, mixed, transaction>>
    BY <1>1, CallStepIs DEF Day, DayPasses, vars, settlementVars
  <1> QED
    BY <1>3, <1>4, <1>5, <1>6 DEF Next, SettlementStep

LEMMA ReportAtInit == Init => ReportInv
  <1> SUFFICES ASSUME Init PROVE ReportInv
    OBVIOUS
  <1>1. /\ NewSync.lines = {} /\ NewSync.todo = {} /\ NewSync.settling = {}
        /\ NewSync.line = Nothing /\ NewSync.chosen = Nothing /\ NewSync.pc = "idle"
    BY DEF NewSync
  <1>2. \A h \in Syncs : sync[h] = NewSync
    BY DEF Init, SettlementInit
  <1>3. \A h \in Syncs : Carries(h, sync[h])
    BY <1>1, <1>2 DEF Carries
  <1>4. \A s \in Settlements : settlement[s] # "complete"
    BY DEF Init, SettlementInit
  <1>5. \A t \in Transactions : transaction[t].settled = FALSE
    BY DEF Init, SettlementInit
  <1> QED
    BY <1>3, <1>4, <1>5, BaseAtInit DEF ReportInv

\* A settled transaction was listed by a settlement that was complete, as the
\* synchronisation that settled it was told, or as another one was that had stored the
\* settlement in between.
THEOREM SettledAsTold == Spec => []SettledAsReported
  <1>1. ReportInv => SettledAsReported
    <2> SUFFICES ASSUME ReportInv, NEW t \in Transactions, transaction[t].settled
                 PROVE  \E h, g \in Syncs :
                          /\ g = h \/ h \in mixed
                          /\ \E s \in DOMAIN sync[h].report \cap DOMAIN sync[g].report :
                               /\ <<s, t>> \in links
                               /\ ReferenceOf[t] \in sync[h].report[s].references
                               /\ sync[g].report[s].complete
      BY DEF SettledAsReported
    <2>1. transaction[t].settled = TRUE
      BY DEF ReportInv, BaseInv, TypeInv, TypeOK, SettlementTypeOK, Transaction
    <2>2. PICK h \in Syncs, s \in Settlements :
            <<s, t>> \in links /\ Listed(h, s, t) /\ Backed(h, s)
      BY <2>1 DEF ReportInv, Reasoned
    <2>3. PICK g \in Syncs : (g = h \/ h \in mixed) /\ Told(g, s)
      BY <2>2 DEF Backed
    <2> QED
      BY <2>2, <2>3 DEF Listed, Told
  <1>2. ReportInv /\ [Next]_vars => ReportInv'
    BY ReportNext
  <1> QED
    BY <1>1, <1>2, ReportAtInit, PTL DEF Spec

=============================================================================
