------------------------- MODULE VendDispatchProofs -------------------------
(***************************************************************************)
(* What VendDispatch promises, for every number of transactions, requests, *)
(* candidates, environments and crashes.                                   *)
(*                                                                         *)
(* 1. TypeOK.                                                              *)
(* 2. KeyInv, from which OneTransactionPerKey, NoCrossProviderRetry and    *)
(*    EnvironmentBoundary follow: every handler past its lookup works on   *)
(*    the row of its own key, and every request that left names the        *)
(*    candidate frozen in that row.                                        *)
(* 3. LeaseInv, from which SoleDispatcher, OutcomeEndsDispatch and         *)
(*    OutcomeIsKept follow: as long as no lease ran out, a handler past    *)
(*    its claim holds a live lease, and holds it alone.                    *)
(* 4. FulfilInv, from which FulfilledIsTrue follows: a handler told of a   *)
(*    delivery was told the truth, and a delivery is for good.             *)
(* 5. RefundInv, from which RefundIsDue follows: as long as no lease ran   *)
(*    out, one request at most is ever under way for a purchase, so that a *)
(*    refusal of it is a refusal of the purchase.                          *)
(* 6. From 4 and 5 together, that vending implements PurchaseRegister:     *)
(*    each step is seen by the register as one of its own, or not at all.  *)
(* 7. SettleInv, which says that nobody leaves a transaction behind that   *)
(*    has no outcome and cannot be resumed: what NotStranded comes to      *)
(*    without fairness.                                                    *)
(***************************************************************************)
EXTENDS VendDispatch, TLAPS

-----------------------------------------------------------------------------
(* Rows. *)

\* Routing a purchase makes a well-formed row.
LEMMA RoutedRowType ==
  ASSUME NEW k \in Keys, NEW c \in Candidates
  PROVE  RoutedRow(k, c) \in Row
BY DEF RoutedRow, Row, TransactionStatus, VendStatus, DispatchState, Lease,
       RecoveryColumns, NoRecovery

\* Claiming a dispatch, losing its lease, recording an outcome and closing the
\* dispatch keep a row well-formed, and none of them touches the idempotency key
\* or the frozen candidate.
LEMMA RowSteps ==
  ASSUME NEW row \in Row, NEW r \in Result
  PROVE  /\ Claimed(row) \in Row
         /\ Expired(row) \in Row
         /\ Recorded(row, r) \in Row
         /\ r.outcome # "NONE" => Completed(row, r.outcome) \in Row
         /\ \A new \in {Claimed(row), Expired(row), Recorded(row, r),
                        Completed(row, r.outcome)} :
              new.key = row.key /\ new.candidate = row.candidate
<1>1a. Claimed(row) \in Row
  <2>1. row.attempts + 1 \in Nat
    BY DEF Row
  <2> QED
    BY <2>1 DEF Claimed, Row, DispatchState, Lease
<1>1b. Expired(row) \in Row
  BY DEF Expired, Row, Lease
<1>2. r.vend \in VendStatus /\ NormalizedFromVend(r.vend) \in TransactionStatus
  BY DEF Result, NormalizedFromVend, VendStatus, TransactionStatus
<1>3. Recorded(row, r) \in Row
  <2>1. NeedsFullRefund(r.vend) \in BOOLEAN /\ (NormalizedFromVend(r.vend) # "FULFILLED") \in BOOLEAN
    BY DEF NeedsFullRefund
  <2>2. WithOutcome(row, r.vend) \in Row
    BY <1>2, <2>1 DEF WithOutcome, Row
  <2>3. (WithOutcome(row, r.vend).ref \/ r.outcome = "CONFIRMED") \in BOOLEAN
    OBVIOUS
  <2> QED
    BY <2>2, <2>3 DEF Recorded, Row
<1>4. r.outcome # "NONE" => Completed(row, r.outcome) \in Row
  BY DEF Result, Completed, DispatchStateFor, Row, DispatchState, Lease
<1>5. \A new \in {Claimed(row), Expired(row), Recorded(row, r),
                  Completed(row, r.outcome)} :
        new.key = row.key /\ new.candidate = row.candidate
  BY DEF Claimed, Expired, Recorded, WithOutcome, Completed, Row
<1> QED
  BY <1>1a, <1>1b, <1>3, <1>4, <1>5

-----------------------------------------------------------------------------
(* Types. *)

\* What a step of a handler does to its own bookkeeping stays within the types.
LEMMA FinishType ==
  ASSUME TypeOK, NEW h \in Handlers, Finish(h)
  PROVE  /\ pc' \in [Handlers -> PC]
         /\ at' \in [Handlers -> TxIds \cup {NoTx}]
         /\ result' \in [Handlers -> Result]
<1>1. NoResult \in Result
  BY DEF NoResult, Result, VendStatus
<1> QED
  BY <1>1 DEF TypeOK, Finish, Goto, PC

LEMMA GotResultType ==
  ASSUME TypeOK, NEW h \in Handlers, NEW r \in Result, GotResult(h, r)
  PROVE  pc' \in [Handlers -> PC] /\ result' \in [Handlers -> Result]
BY DEF TypeOK, GotResult, Goto, PC

\* The table after one of its rows was replaced by a well-formed one.
LEMMA RowReplaced ==
  ASSUME TypeOK, NEW t \in Stored, NEW row \in Row, tx' = [tx EXCEPT ![t] = row]
  PROVE  /\ Stored' = Stored
         /\ tx' \in [Stored' -> Row]
         /\ tx'[t] = row
         /\ \A s \in Stored : s # t => tx'[s] = tx[s]
BY DEF TypeOK, Stored

\* The table after a row was inserted.
LEMMA RowInserted ==
  ASSUME TypeOK, NEW t \in TxIds \ Stored, NEW row \in Row, tx' = WithRow(t, row)
  PROVE  /\ Stored' = Stored \cup {t}
         /\ tx' \in [Stored' -> Row]
         /\ tx'[t] = row
         /\ \A s \in Stored : tx'[s] = tx[s]
<1>1. DOMAIN tx' = Stored \cup {t}
  BY DEF WithRow
<1> QED
  BY <1>1 DEF TypeOK, Stored, WithRow

\* A handler that is past its lookup has a transaction of its own in the table.
\* Stated by KeyInv below; the types need only this much of it.
AtStored ==
  \A h \in Handlers : pc[h] \in {"claim"} \cup Dispatching => at[h] \in Stored

\* Nothing is closed or recorded before the provider call came to something.
ResultKnown ==
  \A h \in Handlers : pc[h] \in {"record", "complete"} => result[h].outcome # "NONE"

TypeInv == TypeOK /\ AtStored /\ ResultKnown

LEMMA TypeInit == Init => TypeInv
<1> SUFFICES ASSUME Init PROVE TypeInv
  OBVIOUS
<1>1. Stored = {} /\ tx \in [Stored -> Row]
  BY DEF Init, Stored
<1>2. NoResult \in Result /\ "NONE" \in ProviderState /\ 0 \in 0..MaxCrashes
  BY MaxCrashesAssumption DEF NoResult, Result, VendStatus, ProviderState
<1> QED
  BY <1>1, <1>2 DEF Init, TypeInv, TypeOK, AtStored, ResultKnown, PC, Dispatching

LEMMA TypeNext == TypeInv /\ [Next]_vars => TypeInv'
<1> SUFFICES ASSUME TypeInv, [Next]_vars PROVE TypeInv'
  OBVIOUS
<1> USE DEF TypeInv
<1>1. ASSUME NEW h \in Handlers, LookupExisting(h) PROVE TypeInv'
  <2>1. Stored' = Stored
    BY <1>1 DEF LookupExisting, Stored
  <2>2. PICK t \in Stored : at' = [at EXCEPT ![h] = t]
    BY <1>1 DEF LookupExisting
  <2>3. TypeOK'
    BY <1>1, <2>1, <2>2 DEF TypeOK, LookupExisting, Goto, PC
  <2>4. AtStored' /\ ResultKnown'
    BY <1>1, <2>1, <2>2 DEF TypeOK, AtStored, ResultKnown, LookupExisting, Goto, Dispatching
  <2> QED
    BY <2>3, <2>4
<1>2. ASSUME NEW h \in Handlers, LookupMissing(h) PROVE TypeInv'
  <2>1. Stored' = Stored
    BY <1>2 DEF LookupMissing, Stored
  <2> QED
    BY <1>2, <2>1 DEF TypeOK, AtStored, ResultKnown, LookupMissing, Goto, PC, Dispatching
<1>3. ASSUME NEW h \in Handlers, InsertRouted(h) PROVE TypeInv'
  <2>1. PICK t \in TxIds \ Stored, c \in Selected(h) :
          tx' = WithRow(t, RoutedRow(KeyOf[h], c)) /\ at' = [at EXCEPT ![h] = t]
    BY <1>3 DEF InsertRouted
  <2>2. c \in Candidates /\ KeyOf[h] \in Keys
    BY KeyOfAssumption DEF Selected, Selectable, TypeOK
  <2>3. Stored' = Stored \cup {t} /\ tx' \in [Stored' -> Row]
    BY <2>1, <2>2, RoutedRowType, RowInserted
  <2>4. TypeOK'
    BY <1>3, <2>1, <2>3 DEF TypeOK, InsertRouted, Goto, PC
  <2>5. AtStored' /\ ResultKnown'
    BY <1>3, <2>1, <2>3 DEF TypeOK, AtStored, ResultKnown, InsertRouted, Goto, Dispatching
  <2> QED
    BY <2>4, <2>5
<1>4. ASSUME NEW h \in Handlers, InsertRefused(h) \/ Replay(h) \/ Crash(h) PROVE TypeInv'
  <2>1. tx' = tx /\ Stored' = Stored /\ Finish(h)
    BY <1>4 DEF InsertRefused, Replay, Crash, Stored
  <2>2. crashes' \in 0..MaxCrashes
    BY <1>4, MaxCrashesAssumption DEF InsertRefused, Replay, Crash, TypeOK
  <2>3. TypeOK'
    BY <1>4, <2>1, <2>2, FinishType DEF TypeOK, InsertRefused, Replay, Crash
  <2>4. AtStored' /\ ResultKnown'
    BY <2>1 DEF TypeOK, AtStored, ResultKnown, Finish, Goto, Dispatching
  <2> QED
    BY <2>3, <2>4
<1>5. ASSUME NEW h \in Handlers, ClaimDispatch(h) PROVE TypeInv'
  <2>1. at[h] \in Stored /\ tx[at[h]] \in Row
    BY <1>5 DEF TypeOK, AtStored, ClaimDispatch
  <2>2. FailedResult \in Result /\ FailedResult.outcome # "NONE"
    BY DEF FailedResult, Result, VendStatus
  <2>3. Claimed(tx[at[h]]) \in Row
    BY <2>1, <2>2, RowSteps
  <2>4. Stored' = Stored /\ tx' \in [Stored' -> Row]
    BY <1>5, <2>1, <2>3, RowReplaced DEF ClaimDispatch
  <2>5. CASE GotResult(h, FailedResult)
    <3>1. pc' \in [Handlers -> PC] /\ result' \in [Handlers -> Result]
      BY <2>2, <2>5, GotResultType
    <3> QED
      BY <1>5, <2>1, <2>2, <2>4, <2>5, <3>1
      DEF TypeOK, AtStored, ResultKnown, ClaimDispatch, GotResult, Goto, Dispatching
  <2>6. CASE Goto(h, "send") /\ UNCHANGED result
    BY <1>5, <2>1, <2>4, <2>6
    DEF TypeOK, AtStored, ResultKnown, ClaimDispatch, Goto, PC, Dispatching
  <2> QED
    BY <1>5, <2>5, <2>6 DEF ClaimDispatch
<1>6. ASSUME NEW t \in TxIds, LeaseExpires(t) PROVE TypeInv'
  <2>1. t \in Stored /\ tx[t] \in Row
    BY <1>6 DEF TypeOK, LeaseExpires
  <2>2. NoResult \in Result
    BY DEF NoResult, Result, VendStatus
  <2>3. Expired(tx[t]) \in Row
    BY <2>1, <2>2, RowSteps
  <2>4. Stored' = Stored /\ tx' \in [Stored' -> Row]
    BY <1>6, <2>1, <2>3, RowReplaced DEF LeaseExpires
  <2> QED
    BY <1>6, <2>1, <2>4 DEF TypeOK, AtStored, ResultKnown, LeaseExpires
<1>7. ASSUME NEW h \in Handlers, SendVend(h) PROVE TypeInv'
  <2>1. Stored' = Stored
    BY <1>7 DEF SendVend, Stored
  <2>2. tx[at[h]].candidate \in Candidates /\ KeyOf[h] \in Keys /\ EnvOf[h] \in Environments
    BY <1>7, KeyOfAssumption, EnvironmentAssumption
    DEF TypeOK, AtStored, SendVend, Dispatching, Row
  <2>3. sent' \subseteq Request /\ outstanding' \subseteq Candidates \X Keys \X Handlers
    BY <1>7, <2>2 DEF TypeOK, SendVend, Request
  <2> QED
    BY <1>7, <2>1, <2>3
    DEF TypeOK, AtStored, ResultKnown, SendVend, Goto, PC, Dispatching
<1>8. ASSUME NEW h \in Handlers, AnswerVend(h) \/ RejectVend(h) \/ TimeoutVend(h)
      PROVE TypeInv'
  <2>1. Stored' = Stored /\ at' = at /\ pc[h] \in {"send", "await"}
    BY <1>8 DEF AnswerVend, RejectVend, TimeoutVend, Stored
  <2>2. PICK r \in Result : GotResult(h, r) /\ r.outcome # "NONE"
    <3>1. \A v \in VendStatus : Confirmed(v) \in Result /\ Confirmed(v).outcome # "NONE"
      BY DEF Confirmed, Result
    <3>2. /\ FailedResult \in Result /\ FailedResult.outcome # "NONE"
          /\ UnknownResult \in Result /\ UnknownResult.outcome # "NONE"
      BY DEF FailedResult, UnknownResult, Result, VendStatus
    <3>3. CASE AnswerVend(h)
      <4>1. <<tx[at[h]].candidate, KeyOf[h]>> \in Candidates \X Keys
        BY <2>1, KeyOfAssumption DEF TypeOK, AtStored, Dispatching, Row
      <4>2. vended[<<tx[at[h]].candidate, KeyOf[h]>>] \in ProviderState \ {"NONE"}
        BY <3>3, <4>1 DEF TypeOK, AnswerVend
      <4>3. Reports(vended[<<tx[at[h]].candidate, KeyOf[h]>>]) \subseteq VendStatus
        BY <4>2 DEF Reports, ProviderState, VendStatus
      <4> QED
        BY <3>1, <3>3, <4>3 DEF AnswerVend
    <3>4. CASE RejectVend(h) \/ TimeoutVend(h)
      BY <3>2, <3>4 DEF RejectVend, TimeoutVend
    <3> QED
      BY <1>8, <3>3, <3>4
  <2>3. pc' \in [Handlers -> PC] /\ result' \in [Handlers -> Result]
    BY <2>2, GotResultType
  <2>4. TypeOK'
    BY <1>8, <2>1, <2>3 DEF TypeOK, AnswerVend, RejectVend, TimeoutVend
  <2>5. AtStored' /\ ResultKnown'
    BY <2>1, <2>2 DEF TypeOK, AtStored, ResultKnown, GotResult, Goto, Dispatching
  <2> QED
    BY <2>4, <2>5
<1>9. ASSUME NEW h \in Handlers, RecordVendResult(h) PROVE TypeInv'
  <2>1. at[h] \in Stored /\ tx[at[h]] \in Row /\ result[h] \in Result
    BY <1>9 DEF TypeOK, AtStored, RecordVendResult, Dispatching
  <2>2. Stored' = Stored /\ tx' \in [Stored' -> Row]
    BY <1>9, <2>1, RowSteps, RowReplaced DEF RecordVendResult
  <2> QED
    BY <1>9, <2>1, <2>2
    DEF TypeOK, AtStored, ResultKnown, RecordVendResult, Goto, PC, Dispatching
<1>10. ASSUME NEW h \in Handlers, CompleteVendDispatch(h) PROVE TypeInv'
  <2>1. at[h] \in Stored /\ tx[at[h]] \in Row /\ result[h] \in Result
        /\ result[h].outcome # "NONE"
    BY <1>10 DEF TypeOK, AtStored, ResultKnown, CompleteVendDispatch, Dispatching
  <2>2. Stored' = Stored /\ tx' \in [Stored' -> Row] /\ Finish(h)
    BY <1>10, <2>1, RowSteps, RowReplaced DEF CompleteVendDispatch
  <2>3. TypeOK'
    BY <1>10, <2>2, FinishType DEF TypeOK, CompleteVendDispatch
  <2>4. AtStored' /\ ResultKnown'
    BY <2>2 DEF TypeOK, AtStored, ResultKnown, Finish, Goto, Dispatching
  <2> QED
    BY <2>3, <2>4
<1>11. ASSUME EligibilityChanges PROVE TypeInv'
  BY <1>11 DEF TypeOK, AtStored, ResultKnown, EligibilityChanges, Stored
<1>12. ASSUME NEW c \in Candidates, NEW k \in Keys,
              ProviderReceives(c, k) \/ ProviderFinishes(c, k)
       PROVE TypeInv'
  <2>1. vended' \in [Candidates \X Keys -> ProviderState]
    BY <1>12 DEF TypeOK, ProviderReceives, ProviderFinishes, ProviderState
  <2>2. outstanding' \subseteq outstanding
    BY <1>12 DEF ProviderReceives, ProviderFinishes
  <2>3. UNCHANGED <<tx, eligible, pc, at, result, sent, lapsed, crashes>>
    BY <1>12 DEF ProviderReceives, ProviderFinishes
  <2> QED
    BY <2>1, <2>2, <2>3 DEF TypeOK, AtStored, ResultKnown, Stored
<1>13. CASE UNCHANGED vars
  BY <1>13 DEF TypeOK, AtStored, ResultKnown, vars, Stored
<1> QED
  BY <1>1, <1>2, <1>3, <1>4, <1>5, <1>6, <1>7, <1>8, <1>9, <1>10, <1>11, <1>12, <1>13
  DEF Next, HandlerStep, ProviderStep

\* Every variable keeps its type, in every behaviour of the specification.
THEOREM TypeCorrect == Spec => []TypeOK
<1>1. TypeInv => TypeOK
  BY DEF TypeInv
<1> QED
  BY <1>1, TypeInit, TypeNext, PTL DEF Spec

-----------------------------------------------------------------------------
(* What every step does to the table. *)

\* No step removes a row, or changes the key or the candidate of one; a step that
\* adds a row adds it for a key no row has; and only the two steps that write a
\* result, and the claim, change a status, a dispatch state or a lease.
LEMMA RowsStay ==
  ASSUME TypeInv, [Next]_vars
  PROVE  /\ Stored \subseteq Stored'
         /\ \A t \in Stored : /\ tx'[t].key = tx[t].key
                              /\ tx'[t].candidate = tx[t].candidate
         /\ \A t \in Stored' \ Stored :
              /\ tx'[t].dispatch = "READY"
              /\ \A s \in Stored : tx[s].key # tx'[t].key
              /\ Stored' = Stored \cup {t}
<1> USE DEF TypeInv
<1>1. CASE UNCHANGED tx
  BY <1>1 DEF Stored
<1>2. ASSUME NEW t \in Stored, NEW row \in Row,
             tx' = [tx EXCEPT ![t] = row],
             row.key = tx[t].key /\ row.candidate = tx[t].candidate
      PROVE  /\ Stored' = Stored
             /\ \A s \in Stored : /\ tx'[s].key = tx[s].key
                                  /\ tx'[s].candidate = tx[s].candidate
  BY <1>2, RowReplaced
<1>3. ASSUME NEW h \in Handlers, InsertRouted(h)
      PROVE  /\ Stored \subseteq Stored'
             /\ \A t \in Stored : tx'[t] = tx[t]
             /\ \A t \in Stored' \ Stored :
                  /\ tx'[t].dispatch = "READY"
                  /\ \A s \in Stored : tx[s].key # tx'[t].key
                  /\ Stored' = Stored \cup {t}
  <2>1. PICK t \in TxIds \ Stored, c \in Selected(h) : tx' = WithRow(t, RoutedRow(KeyOf[h], c))
    BY <1>3 DEF InsertRouted
  <2>2. RoutedRow(KeyOf[h], c) \in Row
    BY KeyOfAssumption, RoutedRowType DEF Selected, Selectable, TypeOK
  <2>3. /\ Stored' = Stored \cup {t}
        /\ tx'[t] = RoutedRow(KeyOf[h], c)
        /\ \A s \in Stored : tx'[s] = tx[s]
    BY <2>1, <2>2, RowInserted
  <2>4. tx'[t].dispatch = "READY" /\ tx'[t].key = KeyOf[h]
    BY <2>3 DEF RoutedRow
  <2>5. \A s \in Stored : tx[s].key # KeyOf[h]
    BY <1>3 DEF InsertRouted, KeyIsFree, HasKey
  <2> QED
    BY <2>3, <2>4, <2>5
<1>4. ASSUME NEW h \in Handlers, ClaimDispatch(h) \/ RecordVendResult(h) \/ CompleteVendDispatch(h)
      PROVE  /\ Stored' = Stored
             /\ \A s \in Stored : /\ tx'[s].key = tx[s].key
                                  /\ tx'[s].candidate = tx[s].candidate
  <2>1. at[h] \in Stored /\ tx[at[h]] \in Row /\ result[h] \in Result
    BY <1>4 DEF TypeOK, AtStored, ClaimDispatch, RecordVendResult, CompleteVendDispatch, Dispatching
  <2>2. CASE ClaimDispatch(h)
    BY <1>2, <2>1, <2>2, RowSteps DEF ClaimDispatch
  <2>3. CASE RecordVendResult(h)
    BY <1>2, <2>1, <2>3, RowSteps DEF RecordVendResult
  <2>4. CASE CompleteVendDispatch(h)
    <3>1. result[h].outcome # "NONE"
      BY <2>4 DEF ResultKnown, CompleteVendDispatch
    <3> QED
      BY <1>2, <2>1, <2>4, <3>1, RowSteps DEF CompleteVendDispatch
  <2> QED
    BY <1>4, <2>2, <2>3, <2>4
<1>5. ASSUME NEW t \in TxIds, LeaseExpires(t)
      PROVE  /\ Stored' = Stored
             /\ \A s \in Stored : /\ tx'[s].key = tx[s].key
                                  /\ tx'[s].candidate = tx[s].candidate
  <2>1. t \in Stored /\ tx[t] \in Row /\ NoResult \in Result
    BY <1>5 DEF TypeOK, LeaseExpires, NoResult, Result, VendStatus
  <2> QED
    BY <1>2, <1>5, <2>1, RowSteps DEF LeaseExpires
<1>6. \/ UNCHANGED tx
      \/ \E h \in Handlers : InsertRouted(h)
      \/ \E h \in Handlers : ClaimDispatch(h) \/ RecordVendResult(h) \/ CompleteVendDispatch(h)
      \/ \E t \in TxIds : LeaseExpires(t)
  BY DEF Next, HandlerStep, ProviderStep, vars, LookupExisting, LookupMissing, InsertRefused,
         Replay, SendVend, AnswerVend, RejectVend, TimeoutVend, Crash, EligibilityChanges,
         ProviderReceives, ProviderFinishes
<1> QED
  BY <1>1, <1>3, <1>4, <1>5, <1>6

-----------------------------------------------------------------------------
(* One key, one transaction, one provider, one environment. *)

\* A handler past its lookup works on the row of its own key.
OwnKey ==
  \A h \in Handlers : pc[h] \in {"claim"} \cup Dispatching => tx[at[h]].key = KeyOf[h]

\* A handler about to call, or waiting for, a connector is of its environment.
EnvironmentChecked ==
  \A h \in Handlers :
    pc[h] \in {"send", "await"} => EnvironmentOf[tx[at[h]].candidate] = EnvOf[h]

\* A request that left is one of a stored row, and names its frozen candidate.
SentAsFrozen ==
  \A r \in sent : \E t \in Stored : tx[t].candidate = r[1] /\ tx[t].key = r[2]

KeyInv ==
  /\ TypeInv
  /\ OwnKey
  /\ EnvironmentChecked
  /\ SentAsFrozen
  /\ OneTransactionPerKey
  /\ EnvironmentBoundary

LEMMA KeyInit == Init => KeyInv
<1> SUFFICES ASSUME Init PROVE KeyInv
  OBVIOUS
<1>1. Stored = {}
  BY DEF Init, Stored
<1> QED
  BY <1>1, TypeInit DEF Init, KeyInv, OwnKey, EnvironmentChecked, SentAsFrozen,
     OneTransactionPerKey, EnvironmentBoundary, Dispatching

LEMMA KeyNext == KeyInv /\ [Next]_vars => KeyInv'
<1> SUFFICES ASSUME KeyInv, [Next]_vars PROVE KeyInv'
  OBVIOUS
<1>1. TypeInv /\ TypeInv'
  BY TypeNext DEF KeyInv
<1>2. /\ Stored \subseteq Stored'
      /\ \A t \in Stored : tx'[t].key = tx[t].key /\ tx'[t].candidate = tx[t].candidate
      /\ \A t \in Stored' \ Stored :
           /\ \A s \in Stored : tx[s].key # tx'[t].key
           /\ Stored' = Stored \cup {t}
  BY <1>1, RowsStay
<1>3. OneTransactionPerKey'
  <2> SUFFICES ASSUME NEW s \in Stored', NEW t \in Stored', tx'[s].key = tx'[t].key
               PROVE  s = t
    BY DEF OneTransactionPerKey
  <2> QED
    BY <1>2 DEF KeyInv, OneTransactionPerKey
<1>4. ASSUME NEW h \in Handlers,
             pc'[h] \in {"claim"} \cup Dispatching
      PROVE  \/ at[h] \in Stored /\ at'[h] = at[h] /\ pc[h] \in {"claim"} \cup Dispatching
             \/ at'[h] \in Stored' /\ tx'[at'[h]].key = KeyOf[h] /\ pc'[h] = "claim"
  <2>1. CASE LookupExisting(h)
    <3>1. PICK t \in Stored : HasKey(t, KeyOf[h]) /\ at' = [at EXCEPT ![h] = t]
      BY <2>1 DEF LookupExisting
    <3>2. at'[h] = t /\ tx' = tx /\ pc'[h] = "claim"
      BY <1>1, <2>1, <3>1 DEF TypeInv, TypeOK, LookupExisting, Goto
    <3> QED
      BY <1>2, <3>1, <3>2 DEF HasKey
  <2>2. CASE InsertRouted(h)
    <3>1. PICK t \in TxIds \ Stored, c \in Selected(h) :
            tx' = WithRow(t, RoutedRow(KeyOf[h], c)) /\ at' = [at EXCEPT ![h] = t]
      BY <2>2 DEF InsertRouted
    <3>2. at'[h] = t /\ pc'[h] = "claim"
      BY <1>1, <2>2, <3>1 DEF TypeInv, TypeOK, InsertRouted, Goto
    <3>3. t \in Stored' /\ tx'[t] = RoutedRow(KeyOf[h], c)
      BY <3>1 DEF WithRow, Stored
    <3> QED
      BY <3>2, <3>3 DEF RoutedRow
  <2>3. CASE LookupMissing(h) \/ InsertRefused(h) \/ Replay(h) \/ Crash(h) \/ CompleteVendDispatch(h)
    BY <1>1, <2>3, <1>4 DEF TypeInv, TypeOK, LookupMissing, InsertRefused, Replay, Crash,
       CompleteVendDispatch, Finish, Goto, Dispatching
  <2>4. CASE ClaimDispatch(h) \/ SendVend(h) \/ AnswerVend(h) \/ RejectVend(h) \/ TimeoutVend(h)
             \/ RecordVendResult(h)
    <3>1. at' = at /\ pc[h] \in {"claim"} \cup Dispatching
      BY <2>4 DEF ClaimDispatch, SendVend, AnswerVend, RejectVend, TimeoutVend,
         RecordVendResult, Dispatching
    <3> QED
      BY <1>1, <3>1 DEF TypeInv, AtStored
  <2>5. CASE UNCHANGED <<pc, at>>
    BY <1>1, <1>4, <2>5 DEF TypeInv, AtStored
  <2>6. ASSUME NEW g \in Handlers, g # h, HandlerStep(g) \/ Crash(g)
        PROVE  pc'[h] = pc[h] /\ at'[h] = at[h]
    BY <1>1, <2>6 DEF TypeInv, TypeOK, HandlerStep, LookupExisting, LookupMissing, InsertRouted,
       InsertRefused, ClaimDispatch, Replay, SendVend, AnswerVend, RejectVend, TimeoutVend,
       RecordVendResult, CompleteVendDispatch, Crash, Finish, GotResult, Goto
  <2>7. \/ UNCHANGED <<pc, at>>
        \/ \E g \in Handlers : HandlerStep(g) \/ Crash(g)
    BY DEF Next, ProviderStep, vars, LeaseExpires, EligibilityChanges, ProviderReceives,
       ProviderFinishes
  <2> QED
    BY <1>1, <1>4, <2>1, <2>2, <2>3, <2>4, <2>5, <2>6, <2>7 DEF HandlerStep, TypeInv, AtStored
<1>5. OwnKey'
  <2> SUFFICES ASSUME NEW h \in Handlers, pc'[h] \in {"claim"} \cup Dispatching
               PROVE  tx'[at'[h]].key = KeyOf[h]
    BY DEF OwnKey, Dispatching
  <2> QED
    BY <1>2, <1>4 DEF KeyInv, OwnKey
<1>6. ASSUME NEW h \in Handlers, pc'[h] \in {"send", "await"}
      PROVE  \/ pc[h] \in {"send", "await"} /\ at'[h] = at[h]
             \/ ClaimDispatch(h) /\ ~ Mismatch(h, tx[at[h]]) /\ at'[h] = at[h]
  <2>1. CASE HandlerStep(h) \/ Crash(h)
    BY <1>1, <1>6, <2>1 DEF TypeInv, TypeOK, HandlerStep, LookupExisting, LookupMissing, InsertRouted,
       InsertRefused, ClaimDispatch, Replay, SendVend, AnswerVend, RejectVend, TimeoutVend,
       RecordVendResult, CompleteVendDispatch, Crash, Finish, GotResult, Goto
  <2>2. ASSUME NEW g \in Handlers, g # h, HandlerStep(g) \/ Crash(g)
        PROVE  pc'[h] = pc[h] /\ at'[h] = at[h]
    BY <1>1, <2>2 DEF TypeInv, TypeOK, HandlerStep, LookupExisting, LookupMissing, InsertRouted,
       InsertRefused, ClaimDispatch, Replay, SendVend, AnswerVend, RejectVend, TimeoutVend,
       RecordVendResult, CompleteVendDispatch, Crash, Finish, GotResult, Goto
  <2>3. \/ UNCHANGED <<pc, at>>
        \/ \E g \in Handlers : HandlerStep(g) \/ Crash(g)
    BY DEF Next, ProviderStep, vars, LeaseExpires, EligibilityChanges, ProviderReceives,
       ProviderFinishes
  <2> QED
    BY <1>6, <2>1, <2>2, <2>3
<1>7. EnvironmentChecked'
  <2> SUFFICES ASSUME NEW h \in Handlers, pc'[h] \in {"send", "await"}
               PROVE  EnvironmentOf[tx'[at'[h]].candidate] = EnvOf[h]
    BY DEF EnvironmentChecked
  <2>1. at'[h] = at[h] /\ at[h] \in Stored /\ EnvironmentOf[tx[at[h]].candidate] = EnvOf[h]
    BY <1>1, <1>6 DEF KeyInv, EnvironmentChecked, TypeInv, AtStored, ClaimDispatch, Mismatch, Dispatching
  <2> QED
    BY <1>2, <2>1
<1>8. \A r \in sent' : \/ r \in sent
                       \/ \E h \in Handlers :
                            /\ pc[h] = "send"
                            /\ r = <<tx[at[h]].candidate, KeyOf[h], EnvOf[h]>>
  <2>1. \/ sent' = sent
        \/ \E h \in Handlers : SendVend(h)
    BY DEF Next, HandlerStep, ProviderStep, vars, LookupExisting, LookupMissing, InsertRouted,
       InsertRefused, ClaimDispatch, Replay, AnswerVend, RejectVend, TimeoutVend,
       RecordVendResult, CompleteVendDispatch, LeaseExpires, Crash, EligibilityChanges,
       ProviderReceives, ProviderFinishes
  <2> QED
    BY <2>1 DEF SendVend
<1>9. SentAsFrozen'
  <2> SUFFICES ASSUME NEW r \in sent'
               PROVE  \E t \in Stored' : tx'[t].candidate = r[1] /\ tx'[t].key = r[2]
    BY DEF SentAsFrozen
  <2>1. CASE r \in sent
    BY <1>2, <2>1 DEF KeyInv, SentAsFrozen
  <2>2. ASSUME NEW h \in Handlers, pc[h] = "send",
               r = <<tx[at[h]].candidate, KeyOf[h], EnvOf[h]>>
        PROVE  \E t \in Stored' : tx'[t].candidate = r[1] /\ tx'[t].key = r[2]
    <3>1. at[h] \in Stored /\ tx[at[h]].key = KeyOf[h]
      BY <1>1, <2>2 DEF KeyInv, OwnKey, TypeInv, AtStored, Dispatching
    <3> QED
      BY <1>2, <2>2, <3>1
  <2> QED
    BY <1>8, <2>1, <2>2
<1>10. EnvironmentBoundary'
  BY <1>8 DEF KeyInv, EnvironmentBoundary, EnvironmentChecked
<1> QED
  BY <1>1, <1>3, <1>5, <1>7, <1>9, <1>10 DEF KeyInv

LEMMA KeyCorrect == Spec => []KeyInv
BY KeyInit, KeyNext, PTL DEF Spec

\* Racing requests with one key never make a second transaction.
THEOREM UniqueTransaction == Spec => []OneTransactionPerKey
<1>1. KeyInv => OneTransactionPerKey
  BY DEF KeyInv
<1> QED
  BY <1>1, KeyCorrect, PTL

\* All vend requests with one key go to one provider.
THEOREM SameProvider == Spec => []NoCrossProviderRetry
<1>1. KeyInv => NoCrossProviderRetry
  <2> SUFFICES ASSUME KeyInv, NEW r \in sent, NEW q \in sent, r[2] = q[2]
               PROVE  r[1] = q[1]
    BY DEF NoCrossProviderRetry
  <2>1. PICK s \in Stored : tx[s].candidate = r[1] /\ tx[s].key = r[2]
    BY DEF KeyInv, SentAsFrozen
  <2>2. PICK t \in Stored : tx[t].candidate = q[1] /\ tx[t].key = q[2]
    BY DEF KeyInv, SentAsFrozen
  <2>3. s = t
    BY <2>1, <2>2 DEF KeyInv, OneTransactionPerKey
  <2> QED
    BY <2>1, <2>2, <2>3
<1> QED
  BY <1>1, KeyCorrect, PTL

\* No process calls a connector of another environment than its own.
THEOREM SameEnvironment == Spec => []EnvironmentBoundary
<1>1. KeyInv => EnvironmentBoundary
  BY DEF KeyInv
<1> QED
  BY <1>1, KeyCorrect, PTL

-----------------------------------------------------------------------------
(* One dispatcher per transaction until a lease runs out. *)

\* A dispatch under way is under a live lease.
UnderLease ==
  \A t \in Stored \ lapsed : tx[t].dispatch = "DISPATCHING" => tx[t].lease = "live"

\* The dispatch of a handler past its claim is under way.
HoldsDispatch ==
  \A h \in Handlers :
    pc[h] \in Dispatching /\ at[h] \notin lapsed => tx[at[h]].dispatch = "DISPATCHING"

\* Until the handler records its result, the row has no outcome.
OutcomeOpen ==
  \A h \in Handlers :
    pc[h] \in {"send", "await", "record"} /\ at[h] \notin lapsed
      => tx[at[h]].status = "SUBMITTED"

LeaseInv ==
  /\ TypeInv
  /\ UnderLease
  /\ HoldsDispatch
  /\ OutcomeOpen
  /\ SoleDispatcher

LEMMA LeaseInit == Init => LeaseInv
<1> SUFFICES ASSUME Init PROVE LeaseInv
  OBVIOUS
<1>1. Stored = {}
  BY DEF Init, Stored
<1> QED
  BY <1>1, TypeInit DEF Init, LeaseInv, UnderLease, HoldsDispatch, OutcomeOpen,
     SoleDispatcher, Dispatching

\* A row may be claimed only when nobody dispatches it, unless its lease ran out.
LEMMA ClaimableIsFree ==
  ASSUME LeaseInv, NEW t \in Stored \ lapsed, Claimable(tx[t])
  PROVE  /\ tx[t].status = "SUBMITTED"
         /\ \A h \in Handlers : pc[h] \in Dispatching => at[h] # t
<1>1. tx[t].dispatch = "READY"
  BY DEF LeaseInv, UnderLease, Claimable, LeaseIsFree
<1> QED
  BY <1>1 DEF LeaseInv, HoldsDispatch, Claimable

LEMMA LeaseNext == LeaseInv /\ [Next]_vars => LeaseInv'
<1> SUFFICES ASSUME LeaseInv, [Next]_vars PROVE LeaseInv'
  OBVIOUS
<1>1. TypeInv /\ TypeInv'
  BY TypeNext DEF LeaseInv
<1> USE DEF LeaseInv, Dispatching
<1>2. ASSUME NEW h \in Handlers,
             UNCHANGED <<tx, lapsed>>,
             \A g \in Handlers \ {h} : pc'[g] = pc[g] /\ at'[g] = at[g],
             \/ pc'[h] \notin Dispatching
             \/ /\ pc[h] \in Dispatching /\ at'[h] = at[h]
                /\ pc'[h] = "complete" => pc[h] = "complete"
                /\ pc[h] = "complete" => pc'[h] = "complete"
      PROVE  LeaseInv'
  <2>1. Stored' = Stored
    BY <1>2 DEF Stored
  <2>2. UnderLease' /\ HoldsDispatch' /\ OutcomeOpen'
    BY <1>2, <2>1 DEF UnderLease, HoldsDispatch, OutcomeOpen
  <2>3. SoleDispatcher'
    BY <1>2 DEF SoleDispatcher
  <2> QED
    BY <1>1, <2>2, <2>3
<1>3. ASSUME NEW h \in Handlers,
             \/ LookupExisting(h) \/ LookupMissing(h) \/ InsertRefused(h) \/ Replay(h)
             \/ Crash(h) \/ SendVend(h) \/ AnswerVend(h) \/ RejectVend(h) \/ TimeoutVend(h)
      PROVE  LeaseInv'
  <2>1. UNCHANGED <<tx, lapsed>> /\ \A g \in Handlers \ {h} : pc'[g] = pc[g] /\ at'[g] = at[g]
    BY <1>1, <1>3 DEF TypeInv, TypeOK, LookupExisting, LookupMissing, InsertRefused, Replay, Crash,
       SendVend, AnswerVend, RejectVend, TimeoutVend, Finish, GotResult, Goto
  <2>2. \/ pc'[h] \notin Dispatching
        \/ /\ pc[h] \in {"send", "await"} /\ at'[h] = at[h]
           /\ pc'[h] \in {"await", "record"}
    BY <1>1, <1>3 DEF TypeInv, TypeOK, LookupExisting, LookupMissing, InsertRefused, Replay, Crash,
       SendVend, AnswerVend, RejectVend, TimeoutVend, Finish, GotResult, Goto
  <2> QED
    BY <1>2, <2>1, <2>2
<1>4. ASSUME NEW h \in Handlers, InsertRouted(h) PROVE LeaseInv'
  <2>1. PICK t \in TxIds \ Stored, c \in Selected(h) :
          tx' = WithRow(t, RoutedRow(KeyOf[h], c)) /\ at' = [at EXCEPT ![h] = t]
    BY <1>4 DEF InsertRouted
  <2>2. RoutedRow(KeyOf[h], c) \in Row
    BY <1>1, KeyOfAssumption, RoutedRowType DEF Selected, Selectable, TypeInv, TypeOK
  <2>3. /\ Stored' = Stored \cup {t}
        /\ tx'[t] = RoutedRow(KeyOf[h], c)
        /\ \A s \in Stored : tx'[s] = tx[s]
    BY <1>1, <2>1, <2>2, RowInserted DEF TypeInv
  <2>4. lapsed' = lapsed /\ pc'[h] = "claim"
        /\ \A g \in Handlers \ {h} : pc'[g] = pc[g] /\ at'[g] = at[g]
    BY <1>1, <1>4, <2>1 DEF TypeInv, TypeOK, InsertRouted, Goto
  <2>5. tx'[t].dispatch = "READY"
    BY <2>3 DEF RoutedRow
  <2>6. \A g \in Handlers : pc'[g] \in Dispatching =>
          /\ pc[g] \in Dispatching /\ pc'[g] = pc[g] /\ at'[g] = at[g]
          /\ tx'[at[g]] = tx[at[g]]
    BY <1>1, <2>3, <2>4 DEF TypeInv, AtStored
  <2>7. UnderLease'
    BY <2>3, <2>4, <2>5 DEF UnderLease
  <2>8. HoldsDispatch' /\ OutcomeOpen' /\ SoleDispatcher'
    BY <2>4, <2>6 DEF HoldsDispatch, OutcomeOpen, SoleDispatcher
  <2> QED
    BY <1>1, <2>7, <2>8
<1>5. ASSUME NEW h \in Handlers, ClaimDispatch(h) PROVE LeaseInv'
  <2>1. at[h] \in Stored /\ tx[at[h]] \in Row
    BY <1>1, <1>5 DEF TypeInv, TypeOK, AtStored, ClaimDispatch
  <2>2. Claimed(tx[at[h]]) \in Row
    <3>1. NoResult \in Result
      BY DEF NoResult, Result, VendStatus
    <3> QED
      BY <2>1, <3>1, RowSteps
  <2>3. /\ Stored' = Stored
        /\ tx'[at[h]] = Claimed(tx[at[h]])
        /\ \A s \in Stored : s # at[h] => tx'[s] = tx[s]
    BY <1>1, <1>5, <2>1, <2>2, RowReplaced DEF ClaimDispatch, TypeInv
  <2>4. /\ tx'[at[h]].dispatch = "DISPATCHING" /\ tx'[at[h]].lease = "live"
        /\ tx'[at[h]].status = tx[at[h]].status
    BY <2>1, <2>3 DEF Claimed, Row
  <2>5. /\ lapsed' = lapsed /\ at' = at /\ pc[h] = "claim" /\ pc'[h] \in {"send", "record"}
        /\ \A g \in Handlers \ {h} : pc'[g] = pc[g]
    BY <1>1, <1>5 DEF TypeInv, TypeOK, ClaimDispatch, GotResult, Goto
  <2>6. at[h] \notin lapsed =>
          /\ tx[at[h]].status = "SUBMITTED"
          /\ \A g \in Handlers : pc[g] \in Dispatching => at[g] # at[h]
    BY <1>5, <2>1, ClaimableIsFree DEF ClaimDispatch
  <2>7. \A g \in Handlers : pc[g] \in Dispatching => at[g] \in Stored
    BY <1>1 DEF TypeInv, AtStored
  <2>8. UnderLease'
    BY <2>3, <2>4, <2>5 DEF UnderLease
  <2>9. HoldsDispatch'
    BY <2>3, <2>4, <2>5, <2>7 DEF HoldsDispatch
  <2>10. OutcomeOpen'
    BY <2>3, <2>4, <2>5, <2>6, <2>7 DEF OutcomeOpen
  <2>11. SoleDispatcher'
    BY <2>5, <2>6 DEF SoleDispatcher
  <2> QED
    BY <1>1, <2>8, <2>9, <2>10, <2>11
<1>6. ASSUME NEW t \in TxIds, LeaseExpires(t) PROVE LeaseInv'
  <2>1. t \in Stored /\ tx[t] \in Row /\ NoResult \in Result
    BY <1>1, <1>6 DEF TypeInv, TypeOK, LeaseExpires, NoResult, Result, VendStatus
  <2>2. Stored' = Stored /\ \A s \in Stored : s # t => tx'[s] = tx[s]
    BY <1>1, <1>6, <2>1, RowSteps, RowReplaced DEF LeaseExpires, TypeInv
  <2>3. lapsed' = lapsed \cup {t} /\ pc' = pc /\ at' = at
    BY <1>6 DEF LeaseExpires
  <2>4. \A g \in Handlers : pc[g] \in Dispatching => at[g] \in Stored
    BY <1>1 DEF TypeInv, AtStored
  <2>5. UnderLease' /\ HoldsDispatch' /\ OutcomeOpen'
    BY <2>2, <2>3, <2>4 DEF UnderLease, HoldsDispatch, OutcomeOpen
  <2>6. SoleDispatcher'
    BY <2>3 DEF SoleDispatcher
  <2> QED
    BY <1>1, <2>5, <2>6
<1>7. ASSUME NEW h \in Handlers, RecordVendResult(h) PROVE LeaseInv'
  <2>1. at[h] \in Stored /\ tx[at[h]] \in Row /\ result[h] \in Result
    BY <1>1, <1>7 DEF TypeInv, TypeOK, AtStored, RecordVendResult
  <2>2. /\ Stored' = Stored
        /\ tx'[at[h]] = Recorded(tx[at[h]], result[h])
        /\ \A s \in Stored : s # at[h] => tx'[s] = tx[s]
    BY <1>1, <1>7, <2>1, RowSteps, RowReplaced DEF RecordVendResult, TypeInv
  <2>3. tx'[at[h]].dispatch = tx[at[h]].dispatch /\ tx'[at[h]].lease = tx[at[h]].lease
    BY <2>1, <2>2 DEF Recorded, WithOutcome, Row
  <2>4. /\ lapsed' = lapsed /\ at' = at /\ pc[h] = "record" /\ pc'[h] = "complete"
        /\ \A g \in Handlers \ {h} : pc'[g] = pc[g]
    BY <1>1, <1>7 DEF TypeInv, TypeOK, RecordVendResult, Goto
  <2>5. \A g \in Handlers : pc[g] \in Dispatching => at[g] \in Stored
    BY <1>1 DEF TypeInv, AtStored
  <2>6. \A g \in Handlers \ {h} :
          pc[g] \in Dispatching /\ at[g] \notin lapsed => at[g] # at[h]
    BY <2>4 DEF SoleDispatcher
  <2>7. UnderLease'
    BY <2>2, <2>3, <2>4 DEF UnderLease
  <2>8. HoldsDispatch'
    BY <2>2, <2>3, <2>4, <2>5 DEF HoldsDispatch
  <2>9. OutcomeOpen'
    BY <2>2, <2>4, <2>5, <2>6 DEF OutcomeOpen
  <2>10. SoleDispatcher'
    BY <2>4 DEF SoleDispatcher
  <2> QED
    BY <1>1, <2>7, <2>8, <2>9, <2>10
<1>8. ASSUME NEW h \in Handlers, CompleteVendDispatch(h) PROVE LeaseInv'
  <2>1. at[h] \in Stored /\ tx[at[h]] \in Row /\ result[h] \in Result
        /\ result[h].outcome # "NONE"
    BY <1>1, <1>8 DEF TypeInv, TypeOK, AtStored, ResultKnown, CompleteVendDispatch
  <2>2. /\ Stored' = Stored
        /\ tx'[at[h]] = Completed(tx[at[h]], result[h].outcome)
        /\ \A s \in Stored : s # at[h] => tx'[s] = tx[s]
    BY <1>1, <1>8, <2>1, RowSteps, RowReplaced DEF CompleteVendDispatch, TypeInv
  <2>3. tx'[at[h]].dispatch # "DISPATCHING"
    BY <2>1, <2>2 DEF Completed, DispatchStateFor, Row, Result
  <2>4. /\ lapsed' = lapsed /\ pc[h] = "complete" /\ pc'[h] = "idle"
        /\ \A g \in Handlers \ {h} : pc'[g] = pc[g] /\ at'[g] = at[g]
    BY <1>1, <1>8 DEF TypeInv, TypeOK, CompleteVendDispatch, Finish, Goto
  <2>5. \A g \in Handlers : pc[g] \in Dispatching => at[g] \in Stored
    BY <1>1 DEF TypeInv, AtStored
  <2>6. \A g \in Handlers \ {h} :
          pc[g] \in Dispatching /\ at[g] \notin lapsed => at[g] # at[h]
    BY <2>4 DEF SoleDispatcher
  <2>7. UnderLease'
    BY <2>2, <2>3, <2>4 DEF UnderLease
  <2>8. HoldsDispatch' /\ OutcomeOpen'
    BY <2>2, <2>4, <2>5, <2>6 DEF HoldsDispatch, OutcomeOpen
  <2>9. SoleDispatcher'
    BY <2>4 DEF SoleDispatcher
  <2> QED
    BY <1>1, <2>7, <2>8, <2>9
<1>9. CASE UNCHANGED <<tx, pc, at, lapsed>>
  BY <1>1, <1>9 DEF UnderLease, HoldsDispatch, OutcomeOpen, SoleDispatcher, Stored
<1>10. EligibilityChanges \/ ProviderStep \/ UNCHANGED vars => UNCHANGED <<tx, pc, at, lapsed>>
  BY DEF EligibilityChanges, ProviderStep, ProviderReceives, ProviderFinishes, vars
<1> QED
  BY <1>3, <1>4, <1>5, <1>6, <1>7, <1>8, <1>9, <1>10 DEF Next, HandlerStep

LEMMA LeaseCorrect == Spec => []LeaseInv
BY LeaseInit, LeaseNext, PTL DEF Spec

\* At most one handler dispatches a transaction whose lease never ran out.
THEOREM OneDispatcher == Spec => []SoleDispatcher
<1>1. LeaseInv => SoleDispatcher
  BY DEF LeaseInv
<1> QED
  BY <1>1, LeaseCorrect, PTL

\* No vend request leaves for a transaction that has an outcome.
THEOREM NoBlindRetry == Spec => OutcomeEndsDispatch
<1>1. LeaseInv /\ [Next]_vars
        => [\A h \in Handlers :
              SendVend(h) /\ at[h] \notin lapsed => tx[at[h]].status = "SUBMITTED"]_vars
  BY DEF LeaseInv, OutcomeOpen, SendVend
<1> QED
  BY <1>1, LeaseCorrect, PTL DEF Spec, OutcomeEndsDispatch

\* A recorded outcome is not replaced by a vend handler.
THEOREM OutcomeStays == Spec => OutcomeIsKept
<1>1. ASSUME LeaseInv, [Next]_vars
      PROVE  \A t \in Stored \ lapsed :
               tx[t].status # "SUBMITTED" => tx'[t].status = tx[t].status
  <2> SUFFICES ASSUME NEW t \in Stored \ lapsed, tx[t].status # "SUBMITTED"
               PROVE  tx'[t].status = tx[t].status
    OBVIOUS
  <2>1. TypeOK /\ AtStored /\ ResultKnown /\ tx[t] \in Row
    BY <1>1 DEF LeaseInv, TypeInv, TypeOK
  <2>2. CASE UNCHANGED tx
    BY <2>2
  <2>3. ASSUME NEW h \in Handlers, InsertRouted(h) PROVE tx'[t] = tx[t]
    BY <2>3 DEF InsertRouted, WithRow
  <2>4. ASSUME NEW h \in Handlers, ClaimDispatch(h) PROVE tx'[t].status = tx[t].status
    BY <2>1, <2>4 DEF ClaimDispatch, Claimed, TypeOK, Stored, Row
  <2>5. ASSUME NEW h \in Handlers, RecordVendResult(h) PROVE tx'[t] = tx[t]
    <3>1. at[h] # t
      BY <1>1, <2>5 DEF LeaseInv, OutcomeOpen, RecordVendResult
    <3> QED
      BY <2>1, <2>5, <3>1 DEF RecordVendResult, TypeOK, Stored
  <2>6. ASSUME NEW h \in Handlers, CompleteVendDispatch(h) PROVE tx'[t].status = tx[t].status
    BY <2>1, <2>6 DEF CompleteVendDispatch, Completed, TypeOK, Stored, Row
  <2>7. ASSUME NEW s \in TxIds, LeaseExpires(s) PROVE tx'[t].status = tx[t].status
    BY <2>1, <2>7 DEF LeaseExpires, Expired, TypeOK, Stored, Row
  <2>8. \/ UNCHANGED tx
        \/ \E h \in Handlers : \/ InsertRouted(h) \/ ClaimDispatch(h)
                               \/ RecordVendResult(h) \/ CompleteVendDispatch(h)
        \/ \E s \in TxIds : LeaseExpires(s)
    BY <1>1 DEF Next, HandlerStep, ProviderStep, vars, LookupExisting, LookupMissing, InsertRefused,
       Replay, SendVend, AnswerVend, RejectVend, TimeoutVend, Crash, EligibilityChanges,
       ProviderReceives, ProviderFinishes
  <2> QED
    BY <2>2, <2>3, <2>4, <2>5, <2>6, <2>7, <2>8
<1> QED
  BY <1>1, LeaseCorrect, PTL DEF Spec, OutcomeIsKept

-----------------------------------------------------------------------------
(* What the steps write, and where. *)

\* A status is written by the INSERT and by RecordVendResult only, and no step
\* makes a dispatch READY again.
LEMMA StatusStep ==
  ASSUME TypeInv, [Next]_vars, NEW t \in Stored'
  PROVE  \/ /\ t \in Stored
            /\ tx'[t].status = tx[t].status
            /\ tx'[t].refundRequired = tx[t].refundRequired
            /\ tx'[t].dispatch = "READY" => tx[t].dispatch = "READY"
         \/ /\ t \notin Stored
            /\ tx'[t].status = "SUBMITTED"
            /\ ~ tx'[t].refundRequired
            /\ \E h \in Handlers : InsertRouted(h)
         \/ \E h \in Handlers :
              /\ RecordVendResult(h)
              /\ t \in Stored /\ at[h] = t
              /\ tx'[t].status = NormalizedFromVend(result[h].vend)
              /\ tx'[t].refundRequired = NeedsFullRefund(result[h].vend)
              /\ tx'[t].dispatch = tx[t].dispatch
<1> DEFINE Kept == /\ t \in Stored
                   /\ tx'[t].status = tx[t].status
                   /\ tx'[t].refundRequired = tx[t].refundRequired
                   /\ tx'[t].dispatch = "READY" => tx[t].dispatch = "READY"
<1> USE DEF TypeInv
<1>1. CASE UNCHANGED tx
  BY <1>1 DEF Stored
<1>2. ASSUME NEW s \in Stored, NEW row \in Row,
             tx' = [tx EXCEPT ![s] = row],
             row.status = tx[s].status, row.refundRequired = tx[s].refundRequired,
             row.dispatch # "READY" \/ row.dispatch = tx[s].dispatch
      PROVE  Kept
  BY <1>2, RowReplaced
<1>3. ASSUME NEW h \in Handlers, InsertRouted(h)
      PROVE  \/ Kept
             \/ t \notin Stored /\ tx'[t].status = "SUBMITTED" /\ ~ tx'[t].refundRequired
  <2>1. PICK s \in TxIds \ Stored, c \in Selected(h) : tx' = WithRow(s, RoutedRow(KeyOf[h], c))
    BY <1>3 DEF InsertRouted
  <2>2. RoutedRow(KeyOf[h], c) \in Row
    BY KeyOfAssumption, RoutedRowType DEF Selected, Selectable, TypeOK
  <2>3. /\ Stored' = Stored \cup {s}
        /\ tx'[s] = RoutedRow(KeyOf[h], c)
        /\ \A r \in Stored : tx'[r] = tx[r]
    BY <2>1, <2>2, RowInserted
  <2>4. tx'[s].status = "SUBMITTED" /\ ~ tx'[s].refundRequired
    BY <2>3 DEF RoutedRow
  <2> QED
    BY <2>3, <2>4
<1>4. ASSUME NEW h \in Handlers, ClaimDispatch(h) PROVE Kept
  <2>1. at[h] \in Stored /\ tx[at[h]] \in Row /\ result[h] \in Result
    BY <1>4 DEF TypeOK, AtStored, ClaimDispatch, Dispatching
  <2>2. Claimed(tx[at[h]]) \in Row /\ tx' = [tx EXCEPT ![at[h]] = Claimed(tx[at[h]])]
    BY <1>4, <2>1, RowSteps DEF ClaimDispatch
  <2>3. /\ Claimed(tx[at[h]]).status = tx[at[h]].status
        /\ Claimed(tx[at[h]]).refundRequired = tx[at[h]].refundRequired
        /\ Claimed(tx[at[h]]).dispatch # "READY"
    BY <2>1 DEF Claimed, Row
  <2> QED
    BY <1>2, <2>1, <2>2, <2>3
<1>5. ASSUME NEW s \in TxIds, LeaseExpires(s) PROVE Kept
  <2>1. s \in Stored /\ tx[s] \in Row /\ NoResult \in Result
    BY <1>5 DEF TypeOK, LeaseExpires, NoResult, Result, VendStatus
  <2>2. Expired(tx[s]) \in Row /\ tx' = [tx EXCEPT ![s] = Expired(tx[s])]
    BY <1>5, <2>1, RowSteps DEF LeaseExpires
  <2>3. /\ Expired(tx[s]).status = tx[s].status
        /\ Expired(tx[s]).refundRequired = tx[s].refundRequired
        /\ Expired(tx[s]).dispatch = tx[s].dispatch
    BY <2>1 DEF Expired, Row
  <2> QED
    BY <1>2, <2>1, <2>2, <2>3
<1>6. ASSUME NEW h \in Handlers, CompleteVendDispatch(h) PROVE Kept
  <2>1. at[h] \in Stored /\ tx[at[h]] \in Row /\ result[h] \in Result
        /\ result[h].outcome # "NONE"
    BY <1>6 DEF TypeOK, AtStored, ResultKnown, CompleteVendDispatch, Dispatching
  <2> DEFINE row == Completed(tx[at[h]], result[h].outcome)
  <2>2. row \in Row /\ tx' = [tx EXCEPT ![at[h]] = row]
    BY <1>6, <2>1, RowSteps DEF CompleteVendDispatch
  <2>3. /\ row.status = tx[at[h]].status
        /\ row.refundRequired = tx[at[h]].refundRequired
        /\ row.dispatch # "READY"
    BY <2>1 DEF Completed, DispatchStateFor, Row, Result
  <2> QED
    BY <1>2, <2>1, <2>2, <2>3
<1>7. ASSUME NEW h \in Handlers, RecordVendResult(h)
      PROVE  \/ Kept
             \/ /\ t \in Stored /\ at[h] = t
                /\ tx'[t].status = NormalizedFromVend(result[h].vend)
                /\ tx'[t].refundRequired = NeedsFullRefund(result[h].vend)
                /\ tx'[t].dispatch = tx[t].dispatch
  <2>1. at[h] \in Stored /\ tx[at[h]] \in Row /\ result[h] \in Result
    BY <1>7 DEF TypeOK, AtStored, RecordVendResult, Dispatching
  <2> DEFINE row == Recorded(tx[at[h]], result[h])
  <2>2. row \in Row /\ tx' = [tx EXCEPT ![at[h]] = row]
    BY <1>7, <2>1, RowSteps DEF RecordVendResult
  <2>3. /\ row.status = NormalizedFromVend(result[h].vend)
        /\ row.refundRequired = NeedsFullRefund(result[h].vend)
        /\ row.dispatch = tx[at[h]].dispatch
    BY <2>1 DEF Recorded, WithOutcome, Row
  <2>4. /\ Stored' = Stored
        /\ tx'[at[h]] = row
        /\ \A s \in Stored : s # at[h] => tx'[s] = tx[s]
    BY <2>1, <2>2, RowReplaced
  <2> QED
    BY <2>3, <2>4
<1>8. \/ UNCHANGED tx
      \/ \E h \in Handlers : \/ InsertRouted(h) \/ ClaimDispatch(h)
                             \/ RecordVendResult(h) \/ CompleteVendDispatch(h)
      \/ \E s \in TxIds : LeaseExpires(s)
  BY DEF Next, HandlerStep, ProviderStep, vars, LookupExisting, LookupMissing, InsertRefused,
     Replay, SendVend, AnswerVend, RejectVend, TimeoutVend, Crash, EligibilityChanges,
     ProviderReceives, ProviderFinishes
<1> QED
  BY <1>1, <1>3, <1>4, <1>5, <1>6, <1>7, <1>8

\* A handler that is past its claim was there already, with the same answer, or
\* has just taken one of the six steps that lead there.
LEMMA HandlerMoves ==
  ASSUME TypeInv, [Next]_vars, NEW h \in Handlers, pc'[h] \in Dispatching
  PROVE  /\ at'[h] = at[h] /\ at[h] \in Stored
         /\ \/ pc'[h] = pc[h] /\ result'[h] = result[h]
            \/ ClaimDispatch(h) \/ SendVend(h)
            \/ AnswerVend(h) \/ RejectVend(h) \/ TimeoutVend(h)
            \/ RecordVendResult(h)
<1> USE DEF TypeInv
<1>1. CASE LookupExisting(h) \/ LookupMissing(h) \/ InsertRouted(h)
  BY <1>1 DEF TypeOK, LookupExisting, LookupMissing, InsertRouted, Goto, Dispatching
<1>2. CASE InsertRefused(h) \/ Replay(h) \/ Crash(h) \/ CompleteVendDispatch(h)
  BY <1>2 DEF TypeOK, InsertRefused, Replay, Crash, CompleteVendDispatch, Finish, Goto, Dispatching
<1>3. CASE ClaimDispatch(h) \/ SendVend(h) \/ AnswerVend(h) \/ RejectVend(h) \/ TimeoutVend(h)
           \/ RecordVendResult(h)
  <2>1. at' = at /\ pc[h] \in {"claim"} \cup Dispatching
    BY <1>3 DEF ClaimDispatch, SendVend, AnswerVend, RejectVend, TimeoutVend,
       RecordVendResult, Dispatching
  <2> QED
    BY <1>3, <2>1 DEF AtStored
<1>4. ASSUME NEW g \in Handlers, g # h, HandlerStep(g) \/ Crash(g)
      PROVE  pc'[h] = pc[h] /\ at'[h] = at[h] /\ result'[h] = result[h]
  BY <1>4 DEF TypeOK, HandlerStep, LookupExisting, LookupMissing, InsertRouted,
     InsertRefused, ClaimDispatch, Replay, SendVend, AnswerVend, RejectVend, TimeoutVend,
     RecordVendResult, CompleteVendDispatch, Crash, Finish, GotResult, Goto
<1>5. \/ UNCHANGED <<pc, at, result>>
      \/ \E g \in Handlers : HandlerStep(g) \/ Crash(g)
  BY DEF Next, ProviderStep, vars, LeaseExpires, EligibilityChanges, ProviderReceives,
     ProviderFinishes
<1>6. \/ pc'[h] = pc[h] /\ at'[h] = at[h] /\ result'[h] = result[h]
      \/ HandlerStep(h) \/ Crash(h)
  BY <1>4, <1>5
<1> QED
  BY <1>1, <1>2, <1>3, <1>6 DEF HandlerStep, AtStored

\* Who changes what has left for the providers, and what they hold.
LEMMA ProviderMoves ==
  ASSUME [Next]_vars
  PROVE  \/ UNCHANGED <<outstanding, vended>>
         \/ \E h \in Handlers : SendVend(h) \/ RejectVend(h)
         \/ \E c \in Candidates, k \in Keys : ProviderReceives(c, k) \/ ProviderFinishes(c, k)
BY DEF Next, HandlerStep, ProviderStep, vars, LookupExisting, LookupMissing, InsertRouted,
   InsertRefused, ClaimDispatch, Replay, AnswerVend, TimeoutVend, RecordVendResult,
   CompleteVendDispatch, LeaseExpires, Crash, EligibilityChanges

-----------------------------------------------------------------------------
(* What a row says was delivered, the provider delivered. *)

\* The purchase a transaction asks for, as the provider knows it.
VendedFor(t) == vended[<<tx[t].candidate, tx[t].key>>]

\* A handler that was told of a delivery was told the truth.
AnswerIsTrue ==
  \A h \in Handlers :
    pc[h] \in {"record", "complete"} /\ result[h].vend = "FULFILLED"
      => VendedFor(at[h]) = "FULFILLED"

FulfilInv ==
  /\ KeyInv
  /\ AnswerIsTrue
  /\ FulfilledIsTrue

LEMMA FulfilInit == Init => FulfilInv
<1> SUFFICES ASSUME Init PROVE FulfilInv
  OBVIOUS
<1>1. Stored = {}
  BY DEF Init, Stored
<1> QED
  BY <1>1, KeyInit DEF Init, FulfilInv, AnswerIsTrue, FulfilledIsTrue

\* What the provider fulfilled stays fulfilled, and stays the row's own purchase.
LEMMA FulfilledForGood ==
  ASSUME TypeInv, [Next]_vars, NEW t \in Stored, VendedFor(t) = "FULFILLED"
  PROVE  VendedFor(t)' = "FULFILLED"
<1>1. tx'[t].key = tx[t].key /\ tx'[t].candidate = tx[t].candidate
  BY RowsStay
<1>2. tx[t].candidate \in Candidates /\ tx[t].key \in Keys
  BY DEF TypeInv, TypeOK, Row
<1>3. ASSUME NEW c \in Candidates, NEW k \in Keys, vended[<<c, k>>] = "FULFILLED"
      PROVE  vended'[<<c, k>>] = "FULFILLED"
  <2>1. CASE UNCHANGED vended
    BY <1>3, <2>1
  <2>2. ASSUME NEW d \in Candidates, NEW j \in Keys, ProviderReceives(d, j) \/ ProviderFinishes(d, j)
        PROVE  vended'[<<c, k>>] = "FULFILLED"
    BY <1>3, <2>2 DEF TypeInv, TypeOK, ProviderReceives, ProviderFinishes
  <2> QED
    BY <2>1, <2>2, ProviderMoves DEF SendVend, RejectVend
<1> QED
  BY <1>1, <1>2, <1>3 DEF VendedFor

LEMMA FulfilNext == FulfilInv /\ [Next]_vars => FulfilInv'
<1> SUFFICES ASSUME FulfilInv, [Next]_vars PROVE FulfilInv'
  OBVIOUS
<1>1. TypeInv /\ KeyInv /\ KeyInv'
  BY KeyNext DEF FulfilInv, KeyInv
<1>2. AnswerIsTrue'
  <2> SUFFICES ASSUME NEW h \in Handlers, NEW t \in Stored, at[h] = t,
                      pc'[h] \in {"record", "complete"}, result'[h].vend = "FULFILLED"
               PROVE  VendedFor(t)' = "FULFILLED"
    <3>1. \A h \in Handlers : pc'[h] \in Dispatching => at'[h] = at[h] /\ at[h] \in Stored
      BY <1>1, HandlerMoves
    <3> QED
      BY <3>1 DEF AnswerIsTrue, Dispatching, VendedFor
  <2>1. \/ pc'[h] = pc[h] /\ result'[h] = result[h]
        \/ ClaimDispatch(h) \/ SendVend(h)
        \/ AnswerVend(h) \/ RejectVend(h) \/ TimeoutVend(h)
        \/ RecordVendResult(h)
    BY <1>1, HandlerMoves DEF Dispatching
  <2>2. CASE \/ pc'[h] = pc[h] /\ result'[h] = result[h]
             \/ RecordVendResult(h)
    <3>1. pc[h] \in {"record", "complete"} /\ result[h].vend = "FULFILLED"
      BY <2>2 DEF RecordVendResult
    <3>2. VendedFor(t) = "FULFILLED"
      BY <3>1 DEF FulfilInv, AnswerIsTrue
    <3> QED
      BY <1>1, <3>2, FulfilledForGood
  <2>3. CASE ClaimDispatch(h) \/ SendVend(h) \/ RejectVend(h) \/ TimeoutVend(h)
    BY <1>1, <2>3 DEF TypeInv, TypeOK, ClaimDispatch, SendVend, RejectVend, TimeoutVend,
       GotResult, Goto, FailedResult, UnknownResult
  <2>4. CASE AnswerVend(h)
    <3>1. PICK v \in Reports(vended[<<tx[t].candidate, KeyOf[h]>>]) :
            result'[h] = Confirmed(v)
      BY <1>1, <2>4 DEF TypeInv, TypeOK, AnswerVend, GotResult
    <3>2. v = "FULFILLED"
      BY <3>1 DEF Confirmed
    <3>3. vended[<<tx[t].candidate, KeyOf[h]>>] = "FULFILLED"
      BY <3>1, <3>2 DEF Reports
    <3>4. tx[t].key = KeyOf[h]
      BY <1>1, <2>4 DEF KeyInv, OwnKey, AnswerVend, Dispatching
    <3>5. VendedFor(t) = "FULFILLED"
      BY <3>3, <3>4 DEF VendedFor
    <3> QED
      BY <1>1, <3>5, FulfilledForGood
  <2> QED
    BY <2>1, <2>2, <2>3, <2>4
<1>3. FulfilledIsTrue'
  <2> SUFFICES ASSUME NEW t \in Stored', tx'[t].status = "FULFILLED"
               PROVE  VendedFor(t)' = "FULFILLED"
    BY DEF FulfilledIsTrue, VendedFor
  <2>1. CASE t \in Stored /\ tx'[t].status = tx[t].status
    BY <1>1, <2>1, FulfilledForGood DEF FulfilInv, FulfilledIsTrue, VendedFor
  <2>2. ASSUME NEW h \in Handlers, RecordVendResult(h), t \in Stored, at[h] = t,
               tx'[t].status = NormalizedFromVend(result[h].vend)
        PROVE  VendedFor(t)' = "FULFILLED"
    <3>1. pc[h] = "record" /\ result[h].vend = "FULFILLED"
      BY <2>2 DEF RecordVendResult, NormalizedFromVend
    <3>2. VendedFor(t) = "FULFILLED"
      BY <2>2, <3>1 DEF FulfilInv, AnswerIsTrue
    <3> QED
      BY <1>1, <2>2, <3>2, FulfilledForGood
  <2> QED
    BY <1>1, <2>1, <2>2, StatusStep
<1> QED
  BY <1>1, <1>2, <1>3 DEF FulfilInv

\* A row that says FULFILLED is one the provider fulfilled.
THEOREM DeliveredAsTold == Spec => []FulfilledIsTrue
<1>1. FulfilInv => FulfilledIsTrue
  BY DEF FulfilInv
<1> QED
  BY <1>1, FulfilInit, FulfilNext, PTL DEF Spec

-----------------------------------------------------------------------------
(* A refund is asked for only when the provider will not deliver. *)

\* The request of handler h for transaction t has yet to reach the provider.
Awaited(t, h) == <<tx[t].candidate, tx[t].key, h>> \in outstanding

\* The provider has not heard of the purchase, and nothing of it is on its way.
Untouched(t) ==
  /\ VendedFor(t) = "NONE"
  /\ \A h \in Handlers : ~ Awaited(t, h)

Held(t) == InProvidersHands(tx[t].candidate, tx[t].key)

\* At most the request of handler h is on its way, and then nothing
\* was vended before it.
OnlyFrom(t, h) ==
  \A g \in Handlers : Awaited(t, g) => g = h /\ VendedFor(t) = "NONE"

\* What providers know of, or are about to, was asked for by a stored row.
AskedFor ==
  \A c \in Candidates, k \in Keys :
    vended[<<c, k>>] # "NONE" \/ (\E h \in Handlers : <<c, k, h>> \in outstanding)
      => \E t \in Stored : tx[t].candidate = c /\ tx[t].key = k

\* Nothing leaves before the dispatch is claimed and its holder sends it.
NothingSentYet ==
  \A t \in Stored \ lapsed :
    tx[t].dispatch = "READY" \/ (\E h \in Handlers : pc[h] = "send" /\ at[h] = t)
      => Untouched(t)

\* A handler that waits for its answer waits for that of the first request.
FirstRequest ==
  \A h \in Handlers :
    pc[h] = "await" /\ at[h] \notin lapsed => OnlyFrom(at[h], h)

\* A failure about to be recorded is one of the purchase, not of the call.
FailureIsDefinite ==
  \A h \in Handlers :
    pc[h] = "record" /\ at[h] \notin lapsed /\ NeedsFullRefund(result[h].vend)
      => ~ Held(at[h])

\* No refund is asked for before there is an outcome.
OpenAsksNoRefund ==
  \A t \in Stored \ lapsed : tx[t].refundRequired => tx[t].status # "SUBMITTED"

RefundInv ==
  /\ KeyInv
  /\ LeaseInv
  /\ AskedFor
  /\ NothingSentYet
  /\ FirstRequest
  /\ FailureIsDefinite
  /\ OpenAsksNoRefund
  /\ RefundIsDue

LEMMA RefundInit == Init => RefundInv
<1> SUFFICES ASSUME Init PROVE RefundInv
  OBVIOUS
<1>1. Stored = {}
  BY DEF Init, Stored
<1>2. AskedFor
  BY DEF Init, AskedFor
<1> QED
  BY <1>1, <1>2, KeyInit, LeaseInit DEF Init, RefundInv, NothingSentYet, FirstRequest,
     FailureIsDefinite, OpenAsksNoRefund, RefundIsDue

\* Unless a handler sends the purchase of transaction t, what is on its way to the
\* provider only shrinks, and the provider moves only on what was on its way, or
\* on what it had accepted.
LEMMA OnlyShrinks ==
  ASSUME KeyInv, [Next]_vars, NEW t \in Stored,
         \A h \in Handlers : at[h] = t => ~ SendVend(h)
  PROVE  /\ \A h \in Handlers : Awaited(t, h)' => Awaited(t, h)
         /\ VendedFor(t)' # VendedFor(t)
              => \/ VendedFor(t) = "ACCEPTED"
                 \/ VendedFor(t) = "NONE" /\ \E h \in Handlers : Awaited(t, h) /\ ~ Awaited(t, h)'
<1>1. TypeInv /\ tx'[t].key = tx[t].key /\ tx'[t].candidate = tx[t].candidate
  BY RowsStay DEF KeyInv
<1> DEFINE c == tx[t].candidate
           k == tx[t].key
<1>2. c \in Candidates /\ k \in Keys
  BY <1>1 DEF TypeInv, TypeOK, Row
<1> HIDE DEF c, k
<1> SUFFICES /\ \A h \in Handlers : <<c, k, h>> \in outstanding' => <<c, k, h>> \in outstanding
             /\ vended'[<<c, k>>] # vended[<<c, k>>]
                  => \/ vended[<<c, k>>] = "ACCEPTED"
                     \/ /\ vended[<<c, k>>] = "NONE"
                        /\ \E h \in Handlers : <<c, k, h>> \in outstanding \ outstanding'
  BY <1>1 DEF Awaited, VendedFor, c, k
<1>3. ASSUME NEW g \in Handlers, SendVend(g)
      PROVE  \A h \in Handlers : <<c, k, h>> \in outstanding' => <<c, k, h>> \in outstanding
  <2>1. at[g] # t /\ at[g] \in Stored /\ tx[at[g]].key = KeyOf[g]
    BY <1>1, <1>3 DEF KeyInv, OwnKey, TypeInv, AtStored, SendVend, Dispatching
  <2>2. KeyOf[g] # k
    BY <2>1 DEF KeyInv, OneTransactionPerKey, k
  <2> QED
    BY <1>3, <2>2 DEF SendVend
<1>4. ASSUME NEW d \in Candidates, NEW j \in Keys, ProviderReceives(d, j)
      PROVE  /\ \A h \in Handlers : <<c, k, h>> \in outstanding' => <<c, k, h>> \in outstanding
             /\ vended'[<<c, k>>] # vended[<<c, k>>]
                  => /\ vended[<<c, k>>] = "NONE"
                     /\ \E h \in Handlers : <<c, k, h>> \in outstanding \ outstanding'
  <2>1. outstanding' \subseteq outstanding
    BY <1>4 DEF ProviderReceives
  <2>2. vended'[<<c, k>>] # vended[<<c, k>>] => d = c /\ j = k /\ vended[<<c, k>>] = "NONE"
    BY <1>1, <1>2, <1>4 DEF ProviderReceives, TypeInv, TypeOK
  <2>3. \E h \in Handlers : <<d, j, h>> \in outstanding \ outstanding'
    BY <1>4 DEF ProviderReceives
  <2> QED
    BY <2>1, <2>2, <2>3
<1>5. ASSUME NEW d \in Candidates, NEW j \in Keys, ProviderFinishes(d, j)
      PROVE  /\ outstanding' = outstanding
             /\ vended'[<<c, k>>] # vended[<<c, k>>] => vended[<<c, k>>] = "ACCEPTED"
  BY <1>1, <1>2, <1>5 DEF ProviderFinishes, TypeInv, TypeOK
<1> QED
  BY <1>3, <1>4, <1>5, ProviderMoves DEF SendVend, RejectVend

\* What follows for the three things a transaction may be.
LEMMA CallStays ==
  ASSUME KeyInv, [Next]_vars, NEW t \in Stored,
         \A h \in Handlers : at[h] = t => ~ SendVend(h)
  PROVE  /\ Untouched(t) => Untouched(t)'
         /\ ~ Held(t) => ~ Held(t)'
         /\ \A h \in Handlers : OnlyFrom(t, h) => OnlyFrom(t, h)'
<1>1. Held(t) <=> \/ VendedFor(t) \in {"ACCEPTED", "FULFILLED"}
                  \/ \E h \in Handlers : Awaited(t, h)
  BY DEF Held, InProvidersHands, VendedFor, Awaited
<1>2. Held(t)' <=> \/ VendedFor(t)' \in {"ACCEPTED", "FULFILLED"}
                   \/ \E h \in Handlers : Awaited(t, h)'
  BY DEF Held, InProvidersHands, VendedFor, Awaited
<1>3. /\ \A h \in Handlers : Awaited(t, h)' => Awaited(t, h)
      /\ VendedFor(t)' # VendedFor(t)
           => \/ VendedFor(t) = "ACCEPTED"
              \/ VendedFor(t) = "NONE" /\ \E h \in Handlers : Awaited(t, h) /\ ~ Awaited(t, h)'
  BY OnlyShrinks
<1>4. Untouched(t) => Untouched(t)'
  BY <1>3 DEF Untouched
<1>5. ~ Held(t) => ~ Held(t)'
  BY <1>1, <1>2, <1>3
<1>6. ASSUME NEW h \in Handlers, OnlyFrom(t, h) PROVE OnlyFrom(t, h)'
  BY <1>3, <1>6 DEF OnlyFrom
<1> QED
  BY <1>4, <1>5, <1>6

LEMMA RefundNext == RefundInv /\ [Next]_vars => RefundInv'
<1> SUFFICES ASSUME RefundInv, [Next]_vars PROVE RefundInv'
  OBVIOUS
<1>1. /\ KeyInv /\ KeyInv' /\ LeaseInv /\ LeaseInv' /\ TypeInv
      /\ AskedFor /\ NothingSentYet /\ FirstRequest /\ FailureIsDefinite
      /\ OpenAsksNoRefund /\ RefundIsDue
  BY KeyNext, LeaseNext DEF RefundInv, KeyInv
<1>2. lapsed \subseteq lapsed'
  BY <1>1 DEF Next, HandlerStep, ProviderStep, vars, LookupExisting, LookupMissing, InsertRouted,
     InsertRefused, ClaimDispatch, Replay, SendVend, AnswerVend, RejectVend, TimeoutVend,
     RecordVendResult, CompleteVendDispatch, LeaseExpires, Crash, EligibilityChanges,
     ProviderReceives, ProviderFinishes
<1>3. /\ Stored \subseteq Stored'
      /\ \A t \in Stored : tx'[t].key = tx[t].key /\ tx'[t].candidate = tx[t].candidate
      /\ \A t \in Stored' \ Stored : \A s \in Stored : tx[s].key # tx'[t].key
  BY <1>1, RowsStay
\* Nobody but the handler that dispatches transaction t sends its purchase.
<1>4. ASSUME NEW h \in Handlers, NEW t \in Stored \ lapsed,
             pc[h] \in Dispatching, at[h] = t, ~ SendVend(h)
      PROVE  \A g \in Handlers : at[g] = t => ~ SendVend(g)
  BY <1>1, <1>4 DEF LeaseInv, SoleDispatcher, SendVend, Dispatching
<1>5. AskedFor'
  <2> SUFFICES ASSUME NEW c \in Candidates, NEW k \in Keys,
                      vended'[<<c, k>>] # "NONE" \/ \E h \in Handlers : <<c, k, h>> \in outstanding'
               PROVE  \E t \in Stored' : tx'[t].candidate = c /\ tx'[t].key = k
    BY DEF AskedFor
  <2>1. CASE vended[<<c, k>>] # "NONE" \/ \E h \in Handlers : <<c, k, h>> \in outstanding
    BY <1>1, <1>3, <2>1 DEF AskedFor
  <2>2. ASSUME NEW g \in Handlers, SendVend(g)
        PROVE  \/ vended[<<c, k>>] # "NONE" \/ \E h \in Handlers : <<c, k, h>> \in outstanding
               \/ at[g] \in Stored /\ tx[at[g]].candidate = c /\ tx[at[g]].key = k
    BY <1>1, <2>2 DEF SendVend, KeyInv, OwnKey, TypeInv, AtStored, Dispatching
  <2>3. ASSUME NEW d \in Candidates, NEW j \in Keys, ProviderReceives(d, j) \/ ProviderFinishes(d, j)
        PROVE  vended[<<c, k>>] # "NONE" \/ \E h \in Handlers : <<c, k, h>> \in outstanding
    BY <1>1, <2>3 DEF TypeInv, TypeOK, ProviderReceives, ProviderFinishes
  <2>4. ASSUME NEW g \in Handlers, RejectVend(g)
        PROVE  vended[<<c, k>>] # "NONE" \/ \E h \in Handlers : <<c, k, h>> \in outstanding
    BY <2>4 DEF RejectVend
  <2>5. \/ vended[<<c, k>>] # "NONE" \/ \E h \in Handlers : <<c, k, h>> \in outstanding
        \/ \E t \in Stored : tx[t].candidate = c /\ tx[t].key = k
    BY <2>2, <2>3, <2>4, ProviderMoves
  <2> QED
    BY <1>3, <2>1, <2>5
<1>6. NothingSentYet'
  <2> SUFFICES ASSUME NEW t \in Stored' \ lapsed',
                      \/ tx'[t].dispatch = "READY"
                      \/ \E h \in Handlers : pc'[h] = "send" /\ at'[h] = t
               PROVE  Untouched(t)'
    BY DEF NothingSentYet
  <2>1. CASE t \notin Stored
    <3>1. UNCHANGED <<outstanding, vended>>
      BY <1>1, <2>1, StatusStep DEF InsertRouted
    <3>2. tx'[t].candidate \in Candidates /\ tx'[t].key \in Keys
      BY <1>1 DEF LeaseInv, TypeInv, TypeOK, Row
    <3>3. /\ vended'[<<tx'[t].candidate, tx'[t].key>>] = "NONE"
          /\ \A h \in Handlers : <<tx'[t].candidate, tx'[t].key, h>> \notin outstanding'
      BY <1>1, <1>3, <2>1, <3>1, <3>2 DEF AskedFor
    <3> QED
      BY <3>3 DEF Untouched, VendedFor, Awaited
  <2>2. ASSUME t \in Stored, tx'[t].dispatch = "READY" PROVE Untouched(t)'
    <3>1. tx[t].dispatch = "READY"
      BY <1>1, <2>2, StatusStep
    <3>2. Untouched(t)
      BY <1>1, <1>2, <2>2, <3>1 DEF NothingSentYet
    <3>3. \A h \in Handlers : at[h] = t => ~ SendVend(h)
      BY <1>1, <1>2, <2>2, <3>1 DEF LeaseInv, HoldsDispatch, SendVend, Dispatching
    <3> QED
      BY <1>1, <2>2, <3>2, <3>3, CallStays
  <2>3. ASSUME t \in Stored, NEW h \in Handlers, pc'[h] = "send", at'[h] = t PROVE Untouched(t)'
    <3>1. /\ at[h] = t
          /\ \/ pc'[h] = pc[h] /\ result'[h] = result[h]
             \/ ClaimDispatch(h) \/ SendVend(h)
             \/ AnswerVend(h) \/ RejectVend(h) \/ TimeoutVend(h)
             \/ RecordVendResult(h)
      BY <1>1, <2>3, HandlerMoves DEF Dispatching
    <3>2. \/ pc[h] = "send" /\ ~ SendVend(h)
          \/ ClaimDispatch(h)
      BY <1>1, <2>3, <3>1 DEF TypeInv, TypeOK, SendVend, AnswerVend, RejectVend, TimeoutVend,
         RecordVendResult, GotResult, Goto
    <3>3. CASE pc[h] = "send" /\ ~ SendVend(h)
      <4>1. Untouched(t)
        BY <1>1, <1>2, <2>3, <3>1, <3>3 DEF NothingSentYet
      <4>2. \A g \in Handlers : at[g] = t => ~ SendVend(g)
        BY <1>2, <1>4, <2>3, <3>1, <3>3 DEF Dispatching
      <4> QED
        BY <1>1, <2>3, <4>1, <4>2, CallStays
    <3>4. CASE ClaimDispatch(h)
      <4>1. tx[t].dispatch = "READY"
        BY <1>1, <1>2, <2>3, <3>1, <3>4
        DEF LeaseInv, UnderLease, Claimable, LeaseIsFree, ClaimDispatch
      <4>2. Untouched(t) /\ \A g \in Handlers : at[g] = t => ~ SendVend(g)
        BY <1>1, <1>2, <2>3, <4>1
        DEF NothingSentYet, LeaseInv, HoldsDispatch, SendVend, Dispatching
      <4> QED
        BY <1>1, <2>3, <4>2, CallStays
    <3> QED
      BY <3>2, <3>3, <3>4
  <2> QED
    BY <2>1, <2>2, <2>3
<1>7. FirstRequest'
  <2> SUFFICES ASSUME NEW h \in Handlers, NEW t \in Stored, at[h] = t,
                      pc'[h] = "await", t \notin lapsed'
               PROVE  OnlyFrom(t, h)'
    <3>1. \A h \in Handlers : pc'[h] \in Dispatching => at'[h] = at[h] /\ at[h] \in Stored
      BY <1>1, HandlerMoves
    <3> QED
      BY <3>1 DEF FirstRequest, Dispatching, OnlyFrom, Awaited, VendedFor
  <2>1. \/ pc[h] = "await" /\ ~ SendVend(h)
        \/ SendVend(h)
    <3>1. \/ pc'[h] = pc[h] /\ result'[h] = result[h]
          \/ ClaimDispatch(h) \/ SendVend(h)
          \/ AnswerVend(h) \/ RejectVend(h) \/ TimeoutVend(h)
          \/ RecordVendResult(h)
      BY <1>1, HandlerMoves DEF Dispatching
    <3> QED
      BY <1>1, <3>1 DEF TypeInv, TypeOK, ClaimDispatch, AnswerVend, RejectVend, TimeoutVend,
         RecordVendResult, GotResult, Goto
  <2>2. CASE pc[h] = "await" /\ ~ SendVend(h)
    <3>1. OnlyFrom(t, h)
      BY <1>1, <1>2, <2>2 DEF FirstRequest
    <3>2. \A g \in Handlers : at[g] = t => ~ SendVend(g)
      BY <1>2, <1>4, <2>2 DEF Dispatching
    <3> QED
      BY <1>1, <3>1, <3>2, CallStays
  <2>3. CASE SendVend(h)
    <3>1. Untouched(t)
      BY <1>1, <1>2, <2>3 DEF NothingSentYet, SendVend
    <3>2. /\ tx' = tx /\ vended' = vended
          /\ outstanding' = outstanding \cup {<<tx[t].candidate, KeyOf[h], h>>}
      BY <2>3 DEF SendVend
    <3> QED
      BY <3>1, <3>2 DEF OnlyFrom, Untouched, Awaited, VendedFor
  <2> QED
    BY <2>1, <2>2, <2>3
<1>8. FailureIsDefinite'
  <2> SUFFICES ASSUME NEW h \in Handlers, NEW t \in Stored, at[h] = t,
                      pc'[h] = "record", t \notin lapsed', NeedsFullRefund(result'[h].vend)
               PROVE  ~ Held(t)'
    <3>1. \A h \in Handlers : pc'[h] \in Dispatching => at'[h] = at[h] /\ at[h] \in Stored
      BY <1>1, HandlerMoves
    <3> QED
      BY <3>1 DEF FailureIsDefinite, Dispatching, Held, InProvidersHands, NeedsFullRefund
  <2>1. \/ pc'[h] = pc[h] /\ result'[h] = result[h]
        \/ ClaimDispatch(h) \/ SendVend(h)
        \/ AnswerVend(h) \/ RejectVend(h) \/ TimeoutVend(h)
        \/ RecordVendResult(h)
    BY <1>1, HandlerMoves DEF Dispatching
  <2>2. CASE pc'[h] = pc[h] /\ result'[h] = result[h]
    <3>1. ~ Held(t)
      BY <1>1, <1>2, <2>2 DEF FailureIsDefinite
    <3>2. \A g \in Handlers : at[g] = t => ~ SendVend(g)
      BY <1>2, <1>4, <2>2 DEF Dispatching, SendVend
    <3> QED
      BY <1>1, <3>1, <3>2, CallStays
  <2>3. CASE ClaimDispatch(h)
    <3>1. tx[t].dispatch = "READY"
      BY <1>1, <1>2, <2>3 DEF LeaseInv, UnderLease, Claimable, LeaseIsFree, ClaimDispatch
    <3>2. Untouched(t) /\ \A g \in Handlers : at[g] = t => ~ SendVend(g)
      BY <1>1, <1>2, <3>1 DEF NothingSentYet, LeaseInv, HoldsDispatch, SendVend, Dispatching
    <3>3. ~ Held(t)
      BY <3>2 DEF Untouched, Held, InProvidersHands, VendedFor, Awaited
    <3> QED
      BY <1>1, <3>2, <3>3, CallStays
  <2>4. ASSUME AnswerVend(h) \/ RejectVend(h)
        PROVE  OnlyFrom(t, h) /\ tx[t].key = KeyOf[h] /\ tx' = tx /\ vended' = vended
    BY <1>1, <1>2, <2>4 DEF FirstRequest, KeyInv, OwnKey, AnswerVend, RejectVend, Dispatching
  <2>5. CASE AnswerVend(h)
    <3>1. PICK v \in Reports(vended[<<tx[t].candidate, KeyOf[h]>>]) :
            result'[h] = Confirmed(v)
      BY <1>1, <2>5 DEF TypeInv, TypeOK, AnswerVend, GotResult
    <3>2. v \in {"FAILED", "CANCELLED"}
      BY <3>1 DEF Confirmed, NeedsFullRefund
    <3>3. VendedFor(t) \in {"FAILED", "CANCELLED"}
      BY <2>4, <2>5, <3>1, <3>2 DEF Reports, VendedFor
    <3>4. outstanding' = outstanding /\ \A g \in Handlers : ~ Awaited(t, g)
      BY <2>4, <2>5, <3>3 DEF AnswerVend, OnlyFrom
    <3> QED
      BY <2>4, <2>5, <3>3, <3>4 DEF Held, InProvidersHands, VendedFor, Awaited
  <2>6. CASE RejectVend(h)
    <3>1. /\ outstanding' = outstanding \ {<<tx[t].candidate, tx[t].key, h>>}
          /\ Awaited(t, h)
      BY <2>4, <2>6 DEF RejectVend, Awaited
    <3>2. VendedFor(t) = "NONE" /\ \A g \in Handlers : Awaited(t, g) => g = h
      BY <2>4, <2>6, <3>1 DEF OnlyFrom
    <3> QED
      BY <2>4, <2>6, <3>1, <3>2 DEF Held, InProvidersHands, VendedFor, Awaited
  <2>7. ~ (SendVend(h) \/ TimeoutVend(h) \/ RecordVendResult(h))
    BY <1>1 DEF TypeInv, TypeOK, SendVend, TimeoutVend, RecordVendResult, GotResult, Goto,
       UnknownResult, NeedsFullRefund
  <2> QED
    BY <2>1, <2>2, <2>3, <2>5, <2>6, <2>7
<1>9. OpenAsksNoRefund' /\ RefundIsDue'
  <2> SUFFICES ASSUME NEW t \in Stored' \ lapsed', tx'[t].refundRequired
               PROVE  tx'[t].status # "SUBMITTED" /\ ~ Held(t)'
    BY DEF OpenAsksNoRefund, RefundIsDue, Held
  <2>1. ASSUME t \in Stored, tx'[t].status = tx[t].status, tx[t].refundRequired
        PROVE  tx'[t].status # "SUBMITTED" /\ ~ Held(t)'
    <3>1. tx[t].status # "SUBMITTED" /\ ~ Held(t)
      BY <1>1, <1>2, <2>1 DEF OpenAsksNoRefund, RefundIsDue, Held
    <3>2. \A h \in Handlers : at[h] = t => ~ SendVend(h)
      BY <1>1, <1>2, <2>1, <3>1 DEF LeaseInv, OutcomeOpen, SendVend
    <3> QED
      BY <1>1, <2>1, <3>1, <3>2, CallStays
  <2>2. ASSUME NEW h \in Handlers, RecordVendResult(h), t \in Stored, at[h] = t,
               tx'[t].status = NormalizedFromVend(result[h].vend),
               NeedsFullRefund(result[h].vend)
        PROVE  tx'[t].status # "SUBMITTED" /\ ~ Held(t)'
    <3>1. tx'[t].status # "SUBMITTED"
      BY <2>2 DEF NormalizedFromVend, NeedsFullRefund
    <3>2. pc[h] = "record" /\ ~ SendVend(h)
      BY <2>2 DEF RecordVendResult, SendVend
    <3>3. ~ Held(t)
      BY <1>1, <1>2, <2>2, <3>2 DEF FailureIsDefinite
    <3>4. \A g \in Handlers : at[g] = t => ~ SendVend(g)
      BY <1>2, <1>4, <2>2, <3>2 DEF Dispatching
    <3> QED
      BY <1>1, <2>2, <3>1, <3>3, <3>4, CallStays
  <2> QED
    BY <1>1, <2>1, <2>2, StatusStep
<1> QED
  BY <1>1, <1>5, <1>6, <1>7, <1>8, <1>9 DEF RefundInv

\* A transaction asks for a refund only when the provider neither vended its
\* purchase nor still can, until a lease on it runs out.
THEOREM RefundsAreDue == Spec => []RefundIsDue
<1>1. RefundInv => RefundIsDue
  BY DEF RefundInv
<1> QED
  BY <1>1, RefundInit, RefundNext, PTL DEF Spec

-----------------------------------------------------------------------------
(* The tables implement the register of purchases. *)

RegisterInv == FulfilInv /\ RefundInv

LEMMA RegisterCorrect == Spec => []RegisterInv
BY FulfilInit, FulfilNext, RefundInit, RefundNext, PTL DEF Spec, RegisterInv

\* What a row makes its tenant believe.
Says(row) ==
  IF row.status = "FULFILLED" THEN "delivered" ELSE IF row.refundRequired THEN "refund" ELSE "open"

\* A purchase has one row, so the register says of it what that row says.
LEMMA OwnVerdict ==
  KeyInv => /\ \A t \in Stored : Verdict[PurchaseOf(t)] = Says(tx[t])
            /\ \A t \in Stored : PurchaseOf(t) \in Stale => t \in lapsed
            /\ Chosen \subseteq Candidates \X Keys
            /\ \A p \in (Candidates \X Keys) \ Chosen : Verdict[p] = "open"
<1> SUFFICES ASSUME KeyInv
             PROVE  /\ \A t \in Stored : Verdict[PurchaseOf(t)] = Says(tx[t])
                    /\ \A t \in Stored : PurchaseOf(t) \in Stale => t \in lapsed
                    /\ Chosen \subseteq Candidates \X Keys
                    /\ \A p \in (Candidates \X Keys) \ Chosen : Verdict[p] = "open"
  OBVIOUS
<1>1. /\ \A t \in Stored : PurchaseOf(t) \in Candidates \X Keys
      /\ lapsed \subseteq Stored
  BY DEF KeyInv, TypeInv, TypeOK, Row, PurchaseOf
<1>2. \A s, t \in Stored : PurchaseOf(s) = PurchaseOf(t) => s = t
  BY DEF KeyInv, OneTransactionPerKey, PurchaseOf
<1>3. \A t \in Stored : Verdict[PurchaseOf(t)] = Says(tx[t])
  <2> TAKE t \in Stored
  <2>1. SaidDelivered(PurchaseOf(t)) <=> tx[t].status = "FULFILLED"
    BY <1>2 DEF SaidDelivered
  <2>2. SaidRefund(PurchaseOf(t)) <=> tx[t].refundRequired
    BY <1>2 DEF SaidRefund
  <2> QED
    BY <1>1, <2>1, <2>2 DEF Verdict, Says
<1>4. \A p \in (Candidates \X Keys) \ Chosen : Verdict[p] = "open"
  <2> TAKE p \in (Candidates \X Keys) \ Chosen
  <2>1. ~ SaidDelivered(p) /\ ~ SaidRefund(p)
    BY DEF SaidDelivered, SaidRefund, Chosen
  <2> QED
    BY <2>1 DEF Verdict
<1>5. \A t \in Stored : PurchaseOf(t) \in Stale => t \in lapsed
  BY <1>1, <1>2 DEF Stale
<1>6. Chosen \subseteq Candidates \X Keys
  BY <1>1 DEF Chosen
<1> QED
  BY <1>3, <1>4, <1>5, <1>6

\* A step that adds no row and leaves what the rows say alone is not seen.
LEMMA SameRegister ==
  ASSUME KeyInv, Stored' = Stored,
         \A t \in Stored : /\ PurchaseOf(t)' = PurchaseOf(t)
                           /\ tx'[t].status = tx[t].status
                           /\ tx'[t].refundRequired = tx[t].refundRequired
  PROVE  /\ Chosen' = Chosen
         /\ Verdict' = Verdict
<1>1. Chosen' = Chosen
  BY DEF Chosen
<1>2. ASSUME NEW p \in Candidates \X Keys
      PROVE  (SaidDelivered(p)' <=> SaidDelivered(p)) /\ (SaidRefund(p)' <=> SaidRefund(p))
  BY DEF SaidDelivered, SaidRefund
<1>3. Verdict' = Verdict
  BY <1>2 DEF Verdict
<1> QED
  BY <1>1, <1>3

\* Every step chooses, buys, concludes, tells, takes over, or is not seen at all.
LEMMA RegisterNext ==
  RegisterInv /\ RegisterInv' /\ [Next]_vars => [Register!Next]_<<Chosen, vended, Verdict, Stale>>
<1> SUFFICES ASSUME RegisterInv, RegisterInv', [Next]_vars
             PROVE  \/ Register!Next
                    \/ UNCHANGED <<Chosen, vended, Verdict, Stale>>
  OBVIOUS
<1>1. KeyInv /\ KeyInv' /\ TypeInv /\ TypeInv'
  BY DEF RegisterInv, RefundInv, KeyInv
<1>2. /\ \A t \in Stored : Verdict[PurchaseOf(t)] = Says(tx[t])
      /\ \A t \in Stored : PurchaseOf(t) \in Stale => t \in lapsed
      /\ Chosen \subseteq Candidates \X Keys
      /\ \A p \in (Candidates \X Keys) \ Chosen : Verdict[p] = "open"
  BY <1>1, OwnVerdict
<1>3. /\ \A t \in Stored' : Verdict'[PurchaseOf(t)'] = Says(tx'[t])
      /\ Chosen' \subseteq Candidates \X Keys
      /\ \A p \in (Candidates \X Keys) \ Chosen' : Verdict'[p] = "open"
  <2>1. (KeyInv => /\ \A t \in Stored : Verdict[PurchaseOf(t)] = Says(tx[t])
                   /\ \A t \in Stored : PurchaseOf(t) \in Stale => t \in lapsed
                   /\ Chosen \subseteq Candidates \X Keys
                   /\ \A p \in (Candidates \X Keys) \ Chosen : Verdict[p] = "open")'
    BY OwnVerdict, PTL
  <2> QED
    BY <1>1, <2>1 DEF Says
<1>4. /\ Stored \subseteq Stored'
      /\ \A t \in Stored : PurchaseOf(t)' = PurchaseOf(t)
      /\ \A t \in Stored' \ Stored :
           /\ \A s \in Stored : tx[s].key # tx'[t].key
           /\ Stored' = Stored \cup {t}
  BY <1>1, RowsStay DEF PurchaseOf
<1>5. lapsed \subseteq Stored /\ \A t \in Stored : PurchaseOf(t) \in Register!Purchases
  BY <1>1 DEF TypeInv, TypeOK, Row, PurchaseOf, Register!Purchases
<1>6. ASSUME UNCHANGED <<tx, lapsed>>
      PROVE  UNCHANGED <<Chosen, Verdict, Stale>>
  BY <1>6 DEF Chosen, Verdict, SaidDelivered, SaidRefund, Stale, PurchaseOf, Stored
<1>7. ASSUME NEW c \in Candidates, NEW k \in Keys, ProviderReceives(c, k)
      PROVE  Register!Buy(<<c, k>>) \/ UNCHANGED <<Chosen, vended, Verdict, Stale>>
  <2>1. UNCHANGED <<Chosen, Verdict, Stale>>
    BY <1>6, <1>7 DEF ProviderReceives
  <2>2. CASE UNCHANGED vended
    BY <2>1, <2>2
  <2>3. CASE ~ UNCHANGED vended
    <3>1. /\ vended[<<c, k>>] = "NONE"
          /\ \E s \in {"ACCEPTED", "FULFILLED", "FAILED"} : vended' = [vended EXCEPT ![<<c, k>>] = s]
          /\ \E h \in Handlers : <<c, k, h>> \in outstanding
      BY <1>7, <2>3 DEF ProviderReceives
    <3>2. PICK t \in Stored : tx[t].candidate = c /\ tx[t].key = k
      BY <3>1 DEF RegisterInv, RefundInv, AskedFor
    <3>3. PurchaseOf(t) = <<c, k>> /\ <<c, k>> \in Chosen
      BY <3>2 DEF PurchaseOf, Chosen
    <3>4. Verdict[<<c, k>>] = "refund" => <<c, k>> \in Stale
      <4>1. SUFFICES ASSUME Says(tx[t]) = "refund" PROVE t \in lapsed
        BY <1>2, <3>3 DEF Stale
      <4>2. tx[t].refundRequired
        BY <4>1 DEF Says
      <4>3. InProvidersHands(tx[t].candidate, tx[t].key)
        BY <3>1, <3>2 DEF InProvidersHands
      <4> QED
        BY <4>2, <4>3 DEF RegisterInv, RefundInv, RefundIsDue
    <3> QED
      BY <2>1, <3>1, <3>3, <3>4 DEF Register!Buy
  <2> QED
    BY <2>2, <2>3
<1>8. ASSUME NEW c \in Candidates, NEW k \in Keys, ProviderFinishes(c, k)
      PROVE  Register!Conclude(<<c, k>>)
  BY <1>6, <1>8 DEF ProviderFinishes, Register!Conclude
<1>9. ASSUME NEW h \in Handlers, InsertRouted(h)
      PROVE  \E p \in Register!Purchases : Register!Choose(p)
  <2>1. /\ vended' = vended /\ lapsed' = lapsed
        /\ \A t \in Stored : tx'[t] = tx[t]
        /\ \E t \in TxIds \ Stored : Stored' = Stored \cup {t}
    BY <1>9 DEF InsertRouted, WithRow, Stored
  <2>2. PICK t \in TxIds \ Stored : Stored' = Stored \cup {t}
    BY <2>1
  <2> DEFINE p == PurchaseOf(t)'
  <2>3. p \in Candidates \X Keys
    BY <1>1, <2>2 DEF TypeInv, TypeOK, Row, PurchaseOf
  <2>4. Chosen' = Chosen \cup {p}
    BY <1>4, <2>2 DEF Chosen
  <2>5. \A q \in Chosen : q[2] # p[2]
    BY <1>4, <2>2 DEF Chosen, PurchaseOf
  <2>6. Stale' = Stale
    BY <1>4, <1>5, <2>1 DEF Stale
  <2>7. Says(tx'[t]) = "open"
    <3>1. \A g \in Handlers : ~ (RecordVendResult(g) /\ t \in Stored)
      BY <2>2
    <3>2. tx'[t].status = "SUBMITTED" /\ ~ tx'[t].refundRequired
      BY <1>1, <2>2, <3>1, StatusStep
    <3> QED
      BY <3>2 DEF Says
  <2>8. Verdict' = Verdict
    <3>1. ASSUME NEW q \in Candidates \X Keys PROVE Verdict'[q] = Verdict[q]
      <4>1. CASE q \in Chosen
        <5>1. PICK s \in Stored : q = PurchaseOf(s)
          BY <4>1 DEF Chosen
        <5>2. q = PurchaseOf(s)' /\ s \in Stored' /\ tx'[s] = tx[s]
          BY <1>4, <2>1, <5>1
        <5> QED
          BY <1>2, <1>3, <5>1, <5>2
      <4>2. CASE q = p
        <5>1. q \notin Chosen
          BY <2>5, <4>2
        <5> QED
          BY <1>2, <1>3, <2>2, <2>7, <4>2, <5>1
      <4>3. CASE q \notin Chosen /\ q # p
        BY <1>2, <1>3, <2>4, <4>3
      <4> QED
        BY <4>1, <4>2, <4>3
    <3> QED
      BY <3>1 DEF Verdict
  <2>9. p \in Register!Purchases /\ Register!Choose(p)
    BY <2>1, <2>3, <2>4, <2>5, <2>6, <2>8 DEF Register!Choose, Register!Purchases
  <2> QED
    BY <2>9
<1>10. ASSUME NEW h \in Handlers, RecordVendResult(h)
       PROVE  \E v \in {"open", "delivered", "refund"} : Register!Tell(PurchaseOf(at[h]), v)
  <2>0. PICK t \in Stored : t = at[h]
    BY <1>1, <1>10 DEF RecordVendResult, TypeInv, AtStored, Dispatching
  <2> DEFINE p == PurchaseOf(t)
  <2>1. /\ t \in Stored /\ pc[h] = "record" /\ vended' = vended /\ lapsed' = lapsed
        /\ Stored' = Stored /\ \A s \in Stored : s # t => tx'[s] = tx[s]
    BY <1>1, <1>10, <2>0 DEF RecordVendResult, TypeInv, TypeOK, Stored
  <2>2. Chosen' = Chosen /\ Stale' = Stale
    BY <1>4, <1>5, <2>1 DEF Chosen, Stale
  <2>3. p \in Chosen /\ p \in Candidates \X Keys
    BY <1>2, <2>1 DEF Chosen
  <2> DEFINE v == Says(tx'[t])
  <2>4. Verdict' = [Verdict EXCEPT ![p] = v]
    <3>1. ASSUME NEW q \in Candidates \X Keys
          PROVE  Verdict'[q] = IF q = p THEN v ELSE Verdict[q]
      <4>1. CASE q = p
        BY <1>3, <1>4, <2>1, <4>1
      <4>2. CASE q # p /\ q \in Chosen
        <5>1. PICK s \in Stored : q = PurchaseOf(s)
          BY <4>2 DEF Chosen
        <5>2. q = PurchaseOf(s)' /\ s \in Stored' /\ tx'[s] = tx[s]
          BY <1>4, <2>1, <4>2, <5>1
        <5> QED
          BY <1>2, <1>3, <4>2, <5>1, <5>2
      <4>3. CASE q # p /\ q \notin Chosen
        BY <1>2, <1>3, <2>2, <4>3
      <4> QED
        BY <4>1, <4>2, <4>3
    <3> HIDE DEF v, p
    <3> QED
      BY <2>3, <3>1 DEF Verdict
  <2>5. Verdict[p] = "open" \/ p \in Stale
    <3>1. CASE t \in lapsed
      BY <3>1 DEF Stale
    <3>2. CASE t \notin lapsed
      <4>1. tx[t].status = "SUBMITTED"
        BY <2>0, <2>1, <3>2 DEF RegisterInv, RefundInv, LeaseInv, OutcomeOpen
      <4>2. ~ tx[t].refundRequired
        BY <2>1, <3>2, <4>1 DEF RegisterInv, RefundInv, OpenAsksNoRefund
      <4> QED
        BY <1>2, <2>1, <4>1, <4>2 DEF Says
    <3> QED
      BY <3>1, <3>2
  <2>6. v = "delivered" => vended[p] = "FULFILLED"
    <3>1. v = "delivered" => tx'[t].status = "FULFILLED"
      BY DEF Says
    <3>2. tx'[t].status = "FULFILLED" => vended'[PurchaseOf(t)'] = "FULFILLED"
      BY <2>1 DEF RegisterInv, FulfilInv, FulfilledIsTrue, PurchaseOf
    <3> QED
      BY <1>4, <2>1, <3>1, <3>2
  <2>7. v = "refund" => vended[p] \notin {"ACCEPTED", "FULFILLED"} \/ p \in Stale
    <3>1. v = "refund" => tx'[t].refundRequired
      BY DEF Says
    <3>2. tx'[t].refundRequired /\ t \notin lapsed'
            => vended'[PurchaseOf(t)'] \notin {"ACCEPTED", "FULFILLED"}
      BY <2>1 DEF RegisterInv, RefundInv, RefundIsDue, InProvidersHands, PurchaseOf
    <3>3. t \in lapsed => p \in Stale
      BY DEF Stale
    <3> QED
      BY <1>4, <2>1, <3>1, <3>2, <3>3
  <2>8. v \in {"open", "delivered", "refund"}
    BY DEF Says
  <2> HIDE DEF v, p
  <2>9. Register!Tell(p, v)
    BY <2>1, <2>2, <2>3, <2>4, <2>5, <2>6, <2>7 DEF Register!Tell
  <2> QED
    BY <2>0, <2>8, <2>9 DEF p
<1>11. ASSUME NEW t \in TxIds, LeaseExpires(t)
       PROVE  t \in Stored /\ Register!TakeOver(PurchaseOf(t))
  <2>1. /\ t \in Stored /\ lapsed' = lapsed \cup {t} /\ vended' = vended /\ Stored' = Stored
        /\ \A s \in Stored : /\ tx'[s].status = tx[s].status
                             /\ tx'[s].refundRequired = tx[s].refundRequired
    BY <1>1, <1>11 DEF LeaseExpires, Expired, TypeInv, TypeOK, Row, Stored
  <2>2. Chosen' = Chosen /\ Verdict' = Verdict
    BY <1>1, <1>4, <2>1, SameRegister
  <2>3. Stale' = Stale \cup {PurchaseOf(t)}
    BY <1>4, <1>5, <2>1 DEF Stale
  <2>4. PurchaseOf(t) \in Chosen
    BY <2>1 DEF Chosen
  <2> QED
    BY <2>1, <2>2, <2>3, <2>4 DEF Register!TakeOver
<1>12. ASSUME NEW h \in Handlers, ClaimDispatch(h) \/ CompleteVendDispatch(h)
       PROVE  UNCHANGED <<Chosen, vended, Verdict, Stale>>
  <2>1. /\ lapsed' = lapsed /\ vended' = vended /\ Stored' = Stored
        /\ \A s \in Stored : /\ tx'[s].status = tx[s].status
                             /\ tx'[s].refundRequired = tx[s].refundRequired
    <3>1. at[h] \in Stored
      BY <1>1, <1>12 DEF TypeInv, AtStored, ClaimDispatch, CompleteVendDispatch, Dispatching
    <3>2. CASE ClaimDispatch(h)
      BY <1>1, <3>1, <3>2 DEF ClaimDispatch, Claimed, TypeInv, TypeOK, Row, Stored
    <3>3. CASE CompleteVendDispatch(h)
      BY <1>1, <3>1, <3>3 DEF CompleteVendDispatch, Completed, TypeInv, TypeOK, Row, Stored
    <3> QED
      BY <1>12, <3>2, <3>3
  <2>2. Chosen' = Chosen /\ Verdict' = Verdict
    BY <1>1, <1>4, <2>1, SameRegister
  <2>3. Stale' = Stale
    BY <1>4, <1>5, <2>1 DEF Stale
  <2> QED
    BY <2>1, <2>2, <2>3
<1>13. \/ UNCHANGED <<tx, vended, lapsed>>
       \/ \E h \in Handlers : \/ InsertRouted(h) \/ RecordVendResult(h)
                              \/ ClaimDispatch(h) \/ CompleteVendDispatch(h)
       \/ \E t \in TxIds : LeaseExpires(t)
       \/ \E c \in Candidates, k \in Keys : ProviderReceives(c, k) \/ ProviderFinishes(c, k)
  BY DEF Next, HandlerStep, ProviderStep, vars, LookupExisting, LookupMissing, InsertRefused,
     Replay, SendVend, AnswerVend, RejectVend, TimeoutVend, Crash, EligibilityChanges
<1>14. \A h \in Handlers : RecordVendResult(h) => PurchaseOf(at[h]) \in Register!Purchases
  BY <1>1, <1>5 DEF RecordVendResult, TypeInv, AtStored, Dispatching
<1>15. \A c \in Candidates, k \in Keys : <<c, k>> \in Register!Purchases
  BY DEF Register!Purchases
<1> QED
  BY <1>5, <1>6, <1>7, <1>8, <1>9, <1>10, <1>11, <1>12, <1>13, <1>14, <1>15 DEF Register!Next

\* Vending implements the register of purchases.
THEOREM OnePurchaseCorrect == Spec => OnePurchase
<1>1. Init => Register!Init
  BY DEF Init, Register!Init, Register!Purchases, Chosen, Verdict, Stale, SaidDelivered,
     SaidRefund, Stored
<1>2. RegisterInv /\ RegisterInv' /\ [Next]_vars
        => [Register!Next]_<<Chosen, vended, Verdict, Stale>>
  BY RegisterNext
<1> QED
  BY <1>1, <1>2, RegisterCorrect, PTL DEF Spec, OnePurchase, Register!Spec

\* No two providers ever hold a purchase of one key.
BoughtFromOne ==
  \A c, d \in Candidates, k \in Keys :
    vended[<<c, k>>] # "NONE" /\ vended[<<d, k>>] # "NONE" => c = d

\* Whatever requests race, however often a dispatch is resumed and whatever leases run
\* out, the providers hold at most one purchase of a key between them.
THEOREM BoughtFromOneCorrect == Spec => []BoughtFromOne
<1>1. RegisterInv => BoughtFromOne
  BY DEF RegisterInv, RefundInv, AskedFor, KeyInv, OneTransactionPerKey, BoughtFromOne
<1> QED
  BY <1>1, RegisterCorrect, PTL

-----------------------------------------------------------------------------
(* Nothing is lost: what is neither open to a claim nor under a lease has an *)
(* outcome or a reference to ask for one.                                    *)

\* A step leaves a row alone, adds one that is READY, or takes one of the four
\* steps of a row.
LEMMA RowMoves ==
  ASSUME TypeInv, [Next]_vars, NEW t \in Stored'
  PROVE  \/ t \in Stored /\ tx'[t] \in {tx[t], Claimed(tx[t]), Expired(tx[t])}
         \/ t \notin Stored /\ tx'[t].dispatch = "READY"
         \/ \E h \in Handlers :
              /\ at[h] = t /\ t \in Stored
              /\ \/ RecordVendResult(h) /\ tx'[t] = Recorded(tx[t], result[h])
                 \/ CompleteVendDispatch(h) /\ tx'[t] = Completed(tx[t], result[h].outcome)
<1> USE DEF TypeInv
<1>1. CASE t \notin Stored
  BY <1>1, RowsStay
<1>2. CASE t \in Stored
  <2>1. ASSUME NEW s, NEW row, tx' = [tx EXCEPT ![s] = row]
        PROVE  tx'[t] = IF t = s THEN row ELSE tx[t]
    BY <1>2, <2>1 DEF TypeOK, Stored
  <2>2. ASSUME NEW h \in Handlers, InsertRouted(h) PROVE tx'[t] = tx[t]
    BY <1>2, <2>2 DEF InsertRouted, WithRow
  <2>3. ASSUME NEW h \in Handlers, ClaimDispatch(h)
        PROVE  tx'[t] \in {tx[t], Claimed(tx[t])}
    <3>1. tx' = [tx EXCEPT ![at[h]] = Claimed(tx[at[h]])]
      BY <2>3 DEF ClaimDispatch
    <3> QED
      BY <2>1, <3>1
  <2>4. ASSUME NEW s \in TxIds, LeaseExpires(s)
        PROVE  tx'[t] \in {tx[t], Expired(tx[t])}
    <3>1. tx' = [tx EXCEPT ![s] = Expired(tx[s])]
      BY <2>4 DEF LeaseExpires
    <3> QED
      BY <2>1, <3>1
  <2>5. ASSUME NEW h \in Handlers, RecordVendResult(h)
        PROVE  tx'[t] = tx[t] \/ (at[h] = t /\ tx'[t] = Recorded(tx[t], result[h]))
    <3>1. tx' = [tx EXCEPT ![at[h]] = Recorded(tx[at[h]], result[h])]
      BY <2>5 DEF RecordVendResult
    <3> QED
      BY <2>1, <3>1
  <2>6. ASSUME NEW h \in Handlers, CompleteVendDispatch(h)
        PROVE  tx'[t] = tx[t] \/ (at[h] = t /\ tx'[t] = Completed(tx[t], result[h].outcome))
    <3>1. tx' = [tx EXCEPT ![at[h]] = Completed(tx[at[h]], result[h].outcome)]
      BY <2>6 DEF CompleteVendDispatch
    <3> QED
      BY <2>1, <3>1
  <2>7. \/ UNCHANGED tx
        \/ \E h \in Handlers : \/ InsertRouted(h) \/ ClaimDispatch(h)
                               \/ RecordVendResult(h) \/ CompleteVendDispatch(h)
        \/ \E s \in TxIds : LeaseExpires(s)
    BY DEF Next, HandlerStep, ProviderStep, vars, LookupExisting, LookupMissing, InsertRefused,
       Replay, SendVend, AnswerVend, RejectVend, TimeoutVend, Crash, EligibilityChanges,
       ProviderReceives, ProviderFinishes
  <2> QED
    BY <1>2, <2>2, <2>3, <2>4, <2>5, <2>6, <2>7
<1> QED
  BY <1>1, <1>2

\* An outcome, or a reference under which the provider can be asked for one: what
\* NotStranded says every transaction comes to.
Settled(row) == row.ref \/ row.status # "SUBMITTED"

\* An answer that leaves the transaction SUBMITTED brings a reference.
AnswerSettles ==
  \A h \in Handlers :
    pc[h] \in {"record", "complete"} /\ NormalizedFromVend(result[h].vend) = "SUBMITTED"
      => result[h].outcome = "CONFIRMED"

RecordedFirst == \A h \in Handlers : pc[h] = "complete" => Settled(tx[at[h]])

ClosedIsSettled ==
  \A t \in Stored : tx[t].dispatch \in {"COMPLETED", "FAILED", "UNKNOWN"} => Settled(tx[t])

SettleInv == TypeInv /\ AnswerSettles /\ RecordedFirst /\ ClosedIsSettled

\* Whatever a row was, the result of a call settles it.
LEMMA RecordSettles ==
  ASSUME NEW row \in Row, NEW r,
         NormalizedFromVend(r.vend) = "SUBMITTED" => r.outcome = "CONFIRMED"
  PROVE  Settled(Recorded(row, r))
<1>1. /\ Recorded(row, r).status = NormalizedFromVend(r.vend)
      /\ Recorded(row, r).ref = (row.ref \/ r.outcome = "CONFIRMED")
  BY DEF Recorded, WithOutcome, Row
<1> QED
  BY <1>1 DEF Settled

\* No step takes a reference away, and only a result that brings one, or another
\* outcome, is written.
LEMMA SettledStays ==
  ASSUME TypeInv, AnswerSettles, [Next]_vars, NEW t \in Stored, Settled(tx[t])
  PROVE  Settled(tx'[t])
<1>1. t \in Stored' /\ tx[t] \in Row
  BY RowsStay DEF TypeInv, TypeOK
<1>2. CASE tx'[t] \in {tx[t], Claimed(tx[t]), Expired(tx[t])}
  BY <1>1, <1>2 DEF Settled, Claimed, Expired, Row
<1>3. ASSUME NEW h \in Handlers, RecordVendResult(h), tx'[t] = Recorded(tx[t], result[h])
      PROVE  Settled(tx'[t])
  BY <1>1, <1>3, RecordSettles DEF AnswerSettles, RecordVendResult
<1>4. ASSUME NEW h \in Handlers, tx'[t] = Completed(tx[t], result[h].outcome)
      PROVE  Settled(tx'[t])
  BY <1>1, <1>4 DEF Settled, Completed, Row
<1> QED
  BY <1>1, <1>2, <1>3, <1>4, RowMoves

LEMMA SettleNext == SettleInv /\ [Next]_vars => SettleInv'
<1> SUFFICES ASSUME SettleInv, [Next]_vars PROVE SettleInv'
  OBVIOUS
<1>1. TypeInv /\ TypeInv' /\ AnswerSettles
  BY TypeNext DEF SettleInv
<1>2. AnswerSettles'
  <2> SUFFICES ASSUME NEW h \in Handlers, pc'[h] \in {"record", "complete"},
                      NormalizedFromVend(result'[h].vend) = "SUBMITTED"
               PROVE  result'[h].outcome = "CONFIRMED"
    BY DEF AnswerSettles
  <2>1. \/ pc'[h] = pc[h] /\ result'[h] = result[h]
        \/ ClaimDispatch(h) \/ SendVend(h)
        \/ AnswerVend(h) \/ RejectVend(h) \/ TimeoutVend(h)
        \/ RecordVendResult(h)
    BY <1>1, HandlerMoves DEF Dispatching
  <2>2. CASE \/ pc'[h] = pc[h] /\ result'[h] = result[h]
             \/ RecordVendResult(h)
    BY <1>1, <2>2 DEF AnswerSettles, RecordVendResult
  <2>3. CASE ClaimDispatch(h) \/ SendVend(h) \/ RejectVend(h) \/ TimeoutVend(h)
    BY <1>1, <2>3 DEF TypeInv, TypeOK, ClaimDispatch, SendVend, RejectVend, TimeoutVend,
       GotResult, Goto, FailedResult, UnknownResult, NormalizedFromVend
  <2>4. CASE AnswerVend(h)
    BY <1>1, <2>4 DEF TypeInv, TypeOK, AnswerVend, GotResult, Confirmed
  <2> QED
    BY <2>1, <2>2, <2>3, <2>4
<1>3. RecordedFirst'
  <2> SUFFICES ASSUME NEW h \in Handlers, NEW t \in Stored, at'[h] = t, at[h] = t,
                      pc'[h] = "complete"
               PROVE  Settled(tx'[t])
    <3>1. \A h \in Handlers : pc'[h] = "complete" => at'[h] = at[h] /\ at[h] \in Stored
      BY <1>1, HandlerMoves DEF Dispatching
    <3> QED
      BY <3>1 DEF RecordedFirst, Settled
  <2>1. pc[h] = "complete" \/ RecordVendResult(h)
    <3>1. \/ pc'[h] = pc[h]
          \/ ClaimDispatch(h) \/ SendVend(h)
          \/ AnswerVend(h) \/ RejectVend(h) \/ TimeoutVend(h)
          \/ RecordVendResult(h)
      BY <1>1, HandlerMoves DEF Dispatching
    <3> QED
      BY <1>1, <3>1 DEF TypeInv, TypeOK, ClaimDispatch, SendVend, AnswerVend, RejectVend,
         TimeoutVend, GotResult, Goto
  <2>2. CASE pc[h] = "complete"
    BY <1>1, <2>2, SettledStays DEF SettleInv, RecordedFirst
  <2>3. CASE RecordVendResult(h)
    <3>1. tx[t] \in Row /\ tx' = [tx EXCEPT ![t] = Recorded(tx[t], result[h])]
      BY <1>1, <2>3 DEF TypeInv, TypeOK, RecordVendResult
    <3>2. tx'[t] = Recorded(tx[t], result[h])
      BY <1>1, <3>1 DEF TypeInv, TypeOK, Stored
    <3> QED
      BY <1>1, <2>3, <3>1, <3>2, RecordSettles DEF AnswerSettles, RecordVendResult
  <2> QED
    BY <2>1, <2>2, <2>3
<1>4. ClosedIsSettled'
  <2> SUFFICES ASSUME NEW t \in Stored', tx'[t].dispatch \in {"COMPLETED", "FAILED", "UNKNOWN"}
               PROVE  Settled(tx'[t])
    BY DEF ClosedIsSettled, Settled
  <2>1. t \in Stored
    BY <1>1, RowMoves
  <2>2. tx[t] \in Row
    BY <1>1, <2>1 DEF TypeInv, TypeOK
  <2>3. CASE tx'[t] \in {tx[t], Claimed(tx[t]), Expired(tx[t])}
    <3>1. tx[t].dispatch \in {"COMPLETED", "FAILED", "UNKNOWN"}
      BY <2>2, <2>3 DEF Claimed, Expired, Row
    <3> QED
      BY <1>1, <2>1, <3>1, SettledStays DEF SettleInv, ClosedIsSettled
  <2>4. ASSUME NEW h \in Handlers, at[h] = t, RecordVendResult(h),
               tx'[t] = Recorded(tx[t], result[h])
        PROVE  Settled(tx'[t])
    <3>1. tx'[t].dispatch = tx[t].dispatch
      BY <2>2, <2>4 DEF Recorded, WithOutcome, Row
    <3> QED
      BY <1>1, <2>1, <3>1, SettledStays DEF SettleInv, ClosedIsSettled
  <2>5. ASSUME NEW h \in Handlers, at[h] = t, CompleteVendDispatch(h) PROVE Settled(tx'[t])
    BY <1>1, <2>1, <2>5, SettledStays DEF SettleInv, RecordedFirst, CompleteVendDispatch
  <2> QED
    BY <1>1, <2>1, <2>3, <2>4, <2>5, RowMoves
<1> QED
  BY <1>1, <1>2, <1>3, <1>4 DEF SettleInv

LEMMA SettleCorrect == Spec => []SettleInv
<1>1. Init => SettleInv
  <2> SUFFICES ASSUME Init PROVE SettleInv
    OBVIOUS
  <2>1. Stored = {}
    BY DEF Init, Stored
  <2> QED
    BY <2>1, TypeInit DEF Init, SettleInv, AnswerSettles, RecordedFirst, ClosedIsSettled
<1> QED
  BY <1>1, SettleNext, PTL DEF Spec

\* A transaction without outcome or reference can be claimed by the next request
\* with its key, at once or when the lease on it has run out.
CanBeResumed ==
  \A t \in Stored :
    \/ Settled(tx[t])
    \/ Claimable(tx[t])
    \/ tx[t].dispatch = "DISPATCHING" /\ tx[t].lease = "live"

\* Wherever a process dies between the INSERT and the end of its dispatch, and
\* however late another one closes it: what it leaves is settled or can be resumed.
\* This is the part of NotStranded that needs no fairness.
THEOREM CanBeResumedCorrect == Spec => []CanBeResumed
<1>1. SettleInv => CanBeResumed
  <2> SUFFICES ASSUME SettleInv, NEW t \in Stored, ~ Settled(tx[t])
               PROVE  \/ Claimable(tx[t])
                      \/ tx[t].dispatch = "DISPATCHING" /\ tx[t].lease = "live"
    BY DEF CanBeResumed
  <2>1. tx[t].dispatch \in {"READY", "DISPATCHING"}
    BY DEF SettleInv, ClosedIsSettled, TypeInv, TypeOK, Row, DispatchState
  <2> QED
    BY <2>1 DEF Settled, Claimable, LeaseIsFree
<1> QED
  BY <1>1, SettleCorrect, PTL

\* A transaction that has an outcome or a reference keeps one.
SettledForGood == [][\A t \in Stored : Settled(tx[t]) => Settled(tx'[t])]_vars

\* No late answer, resumed dispatch or expired lease takes a transaction back to
\* where nothing is known of it: once enough, NotStranded holds for good.
THEOREM SettledForGoodCorrect == Spec => SettledForGood
<1>1. SettleInv /\ [Next]_vars => \A t \in Stored : Settled(tx[t]) => Settled(tx'[t])
  BY SettledStays DEF SettleInv
<1> QED
  BY <1>1, SettleCorrect, PTL DEF Spec, SettledForGood

=============================================================================
