----------------------- MODULE ProviderRecoveryProofs -----------------------
(***************************************************************************)
(* What ProviderRecovery promises, for every number of transactions,       *)
(* workers, operators, attempts and crashes.                               *)
(*                                                                         *)
(* 1. TypeOK.                                                              *)
(* 2. TokenInv, from which NewerWorkerWins and WorkersKeepTerminal follow: *)
(*    a worker that still owns a row is the one that claimed it last, and  *)
(*    a row that a worker left final has no owner.                         *)
(* 3. TruthInv, from which ResolutionIsTrue follows: whatever final        *)
(*    status is on its way to a row (as an answer a worker or an operator  *)
(*    holds, or as an event in the inbox) is the provider's.               *)
(* 4. From 2 and 3 together, that recovery implements FencedRegister:      *)
(*    what the register calls the owner of a transaction is the worker     *)
(*    whose token is in the row.                                           *)
(***************************************************************************)
EXTENDS ProviderRecovery, TLAPS

-----------------------------------------------------------------------------
(* Rows. *)

\* Recording an outcome keeps a row well-formed and sets the four columns that
\* the vend status decides; it leaves the recovery columns alone.
LEMMA OutcomeColumns ==
  ASSUME NEW row \in Row, NEW v \in VendStatus
  PROVE  /\ WithOutcome(row, v) \in Row
         /\ WithOutcome(row, v).status = NormalizedFromVend(v)
         /\ WithOutcome(row, v).vend = v
         /\ WithOutcome(row, v).refundRequired = NeedsFullRefund(v)
         /\ WithOutcome(row, v).recovery = row.recovery
<1>1. /\ NormalizedFromVend(v) \in TransactionStatus
      /\ NeedsFullRefund(v) \in BOOLEAN
      /\ (NormalizedFromVend(v) # "FULFILLED") \in BOOLEAN
  BY DEF NormalizedFromVend, NeedsFullRefund, VendStatus, TransactionStatus
<1> QED
  BY <1>1 DEF WithOutcome, Row

\* A claim puts its token into the recovery columns, a release takes it out.
LEMMA ClaimedColumns ==
  ASSUME NEW columns \in RecoveryColumns, NEW token \in Nat
  PROVE  /\ ClaimColumns(columns, token) \in RecoveryColumns
         /\ ClaimColumns(columns, token).token = token
<1>1. columns.attempts + 1 \in Nat
  BY DEF RecoveryColumns
<1> QED
  BY <1>1 DEF ClaimColumns, RecoveryColumns, Lease

LEMMA ReleasedColumns ==
  ASSUME NEW columns \in RecoveryColumns, NEW isDue \in BOOLEAN
  PROVE  /\ Released(columns, isDue) \in RecoveryColumns
         /\ Released(columns, isDue).token = 0
BY DEF Released, RecoveryColumns, Lease

\* A row with other recovery columns is a row.
LEMMA RecoveryReplaced ==
  ASSUME NEW row \in Row, NEW columns \in RecoveryColumns
  PROVE  [row EXCEPT !.recovery = columns] \in Row
BY DEF Row

\* What a worker's answer makes of a row.
LEMMA ResolvedRow ==
  ASSUME NEW row \in Row, NEW v \in VendStatus
  PROVE  /\ Resolved(row, v) \in Row
         /\ Resolved(row, v).status = NormalizedFromVend(v)
         /\ Resolved(row, v).refundRequired = NeedsFullRefund(v)
         /\ Resolved(row, v).recovery.token = 0
<1>1. row.recovery \in RecoveryColumns
  BY DEF Row
<1>2. (NormalizedFromVend(v) \in Terminal) \in BOOLEAN
  OBVIOUS
<1>3. /\ Released(row.recovery, NormalizedFromVend(v) \in Terminal) \in RecoveryColumns
      /\ Released(row.recovery, NormalizedFromVend(v) \in Terminal).token = 0
  BY <1>1, <1>2, ReleasedColumns
<1> QED
  BY <1>3, OutcomeColumns DEF Resolved, Row

\* What a manual answer makes of a row: the token is still there.
LEMMA ManuallyResolvedRow ==
  ASSUME NEW row \in Row, NEW v \in VendStatus
  PROVE  /\ ManuallyResolved(row, v) \in Row
         /\ ManuallyResolved(row, v).status = NormalizedFromVend(v)
         /\ ManuallyResolved(row, v).refundRequired = NeedsFullRefund(v)
         /\ ManuallyResolved(row, v).recovery.token = row.recovery.token
<1>1. row.recovery \in RecoveryColumns
  BY DEF Row
<1>2. (NormalizedFromVend(v) \notin Unresolved) \in BOOLEAN
  OBVIOUS
<1> DEFINE columns == [row.recovery EXCEPT !.lease = "none",
                                           !.due = NormalizedFromVend(v) \notin Unresolved]
<1>3. columns \in RecoveryColumns /\ columns.token = row.recovery.token
  BY <1>1, <1>2 DEF RecoveryColumns, Lease
<1>4. ManuallyResolved(row, v) = [WithOutcome(row, v) EXCEPT !.recovery = columns]
  BY <1>1, OutcomeColumns DEF ManuallyResolved, Row
<1> HIDE DEF columns
<1> QED
  BY <1>3, <1>4, OutcomeColumns DEF Row

\* What a webhook makes of a row.
LEMMA NotifiedRow ==
  ASSUME NEW row \in Row, NEW v \in VendStatus, NEW named \in BOOLEAN
  PROVE  LET new == Notified(row, v, named)
         IN  /\ new \in Row
             /\ new.status = NormalizedFromVend(v)
             /\ new.refundRequired = NeedsFullRefund(v)
             /\ new.recovery = row.recovery
<1>1. (WithOutcome(row, v).ref \/ named) \in BOOLEAN
  OBVIOUS
<1> QED
  BY <1>1, OutcomeColumns DEF Notified, Row

-----------------------------------------------------------------------------
(* Types. *)

LEMMA IdleType == \A t \in TxIds : Idle(t) \in Party /\ Idle(t).pc = "idle"
BY DEF Idle, Party, VendStatus

LEMMA PartySteps ==
  ASSUME NEW p \in Party, NEW v \in VendStatus, NEW t \in TxIds, NEW token \in Nat
  PROVE  Answered(p, v) \in Party /\ Failing(p) \in Party /\ Claim(t, token) \in Party
BY DEF Answered, Failing, Claim, Party, VendStatus

LEMMA ReportsType == \A s \in Truth : Reports(s) \subseteq VendStatus
BY WordingAssumption DEF Reports, Truth, VendStatus

LEMMA OpenRowType ==
  ASSUME NEW k \in Keys, NEW c \in Candidates, NEW v \in InFlight \cup {"UNKNOWN"},
         NEW known \in BOOLEAN
  PROVE  LET row == OpenRow(k, c, v, known)
         IN  row \in Row /\ row.status \notin Terminal /\ row.recovery = NoRecovery
<1>1. RoutedRow(k, c) \in Row /\ RoutedRow(k, c).recovery = NoRecovery
  BY DEF RoutedRow, Row, TransactionStatus, VendStatus, DispatchState, Lease,
         RecoveryColumns, NoRecovery
<1>2. v \in VendStatus
  BY WordingAssumption DEF VendStatus
<1>3. /\ WithOutcome(RoutedRow(k, c), v) \in Row
      /\ WithOutcome(RoutedRow(k, c), v).status = NormalizedFromVend(v)
      /\ WithOutcome(RoutedRow(k, c), v).recovery = NoRecovery
  BY <1>1, <1>2, OutcomeColumns
<1>4. NormalizedFromVend(v) \notin Terminal
  BY WordingAssumption DEF NormalizedFromVend, Terminal
<1>5. (IF known THEN "COMPLETED" ELSE "UNKNOWN") \in DispatchState
  BY DEF DispatchState
<1> QED
  BY <1>3, <1>4, <1>5 DEF OpenRow, Row

\* Every transaction starts well-formed, open, and without a recovery claim.
LEMMA RowsAtStart ==
  ASSUME Init
  PROVE  /\ tx \in [TxIds -> Row]
         /\ \A t \in TxIds : tx[t].status \notin Terminal /\ tx[t].recovery = NoRecovery
<1>1. PICK key \in [TxIds -> Keys], candidate \in [TxIds -> Candidates],
           v \in [TxIds -> InFlight \cup {"UNKNOWN"}], known \in [TxIds -> BOOLEAN] :
             tx = [t \in TxIds |-> OpenRow(key[t], candidate[t], v[t], known[t])]
  BY DEF Init
<1>2. \A t \in TxIds :
        LET row == OpenRow(key[t], candidate[t], v[t], known[t])
        IN  row \in Row /\ row.status \notin Terminal /\ row.recovery = NoRecovery
  BY OpenRowType
<1> QED
  BY <1>1, <1>2

LEMMA TypeInit == Init => TypeOK
<1> SUFFICES ASSUME Init PROVE TypeOK
  OBVIOUS
<1>1. tx \in [TxIds -> Row]
  BY RowsAtStart
<1>2. PICK t \in TxIds : worker = [w \in Workers |-> Idle(t)] /\ operator = [o \in Operators |-> Idle(t)]
  BY DEF Init
<1>3. worker \in [Workers -> Party] /\ operator \in [Operators -> Party]
  BY <1>2, IdleType
<1> QED
  BY <1>1, <1>3, BoundsAssumption DEF Init, TypeOK

LEMMA TypeNext == TypeOK /\ [Next]_vars => TypeOK'
<1> SUFFICES ASSUME TypeOK, [Next]_vars PROVE TypeOK'
  OBVIOUS
<1>0. /\ \A w \in Workers : worker[w] \in Party /\ worker[w].at \in TxIds /\ worker[w].answer \in VendStatus
      /\ \A o \in Operators : operator[o] \in Party /\ operator[o].at \in TxIds /\ operator[o].answer \in VendStatus
      /\ \A t \in TxIds : tx[t] \in Row /\ tx[t].recovery \in RecoveryColumns
  BY DEF TypeOK, Party, Row
<1>1. ASSUME NEW w \in Workers, NEW t \in TxIds, ClaimNextTransaction(w, t) PROVE TypeOK'
  <2>1. issued + 1 \in Nat
    BY DEF TypeOK
  <2>2. ClaimColumns(tx[t].recovery, issued + 1) \in RecoveryColumns
    BY <1>0, <2>1, ClaimedColumns
  <2>3. tx' \in [TxIds -> Row]
    BY <1>1, <2>2, SMTT(30) DEF TypeOK, ClaimNextTransaction, Row
  <2>4. Claim(t, issued + 1) \in Party
    BY <1>0, <2>1, PartySteps
  <2> QED
    BY <1>1, <2>1, <2>3, <2>4 DEF TypeOK, ClaimNextTransaction, environment
<1>2. ASSUME NEW w \in Workers, QueryProvider(w) PROVE TypeOK'
  <2>1. PICK v \in VendStatus : worker' = [worker EXCEPT ![w] = Answered(@, v)]
    BY <1>0, <1>2, ReportsType DEF QueryProvider, TypeOK
  <2>2. Answered(worker[w], v) \in Party
    BY <1>0, PartySteps
  <2>3. worker' \in [Workers -> Party]
    BY <2>1, <2>2 DEF TypeOK
  <2> QED
    BY <1>2, <2>3 DEF TypeOK, QueryProvider, environment
<1>3. ASSUME NEW w \in Workers, RecoveryFails(w) PROVE TypeOK'
  <2>1. Failing(worker[w]) \in Party
    BY <1>0, PartySteps
  <2>2. worker' \in [Workers -> Party]
    BY <1>3, <2>1 DEF TypeOK, RecoveryFails
  <2> QED
    BY <1>3, <2>2 DEF TypeOK, RecoveryFails, environment
<1>4. ASSUME NEW w \in Workers, ApplyTransactionResolution(w) PROVE TypeOK'
  <2>1. worker' \in [Workers -> Party]
    BY <1>0, <1>4, IdleType DEF TypeOK, ApplyTransactionResolution
  <2>2. CASE OwnsLease(w) /\ tx' = [tx EXCEPT ![worker[w].at] = Resolved(@, worker[w].answer)]
                          /\ writer' = [writer EXCEPT ![worker[w].at] = "worker"]
                          /\ queried' = queried \cup {worker[w].at}
    <3>0. Resolved(tx[worker[w].at], worker[w].answer) \in Row
      BY <1>0, ResolvedRow
    <3>1. tx' \in [TxIds -> Row]
      BY <1>0, <2>2, <3>0 DEF TypeOK
    <3> QED
      BY <1>0, <1>4, <2>1, <2>2, <3>1 DEF TypeOK, ApplyTransactionResolution, environment
  <2>3. CASE UNCHANGED <<tx, writer, queried>>
    BY <1>4, <2>1, <2>3 DEF TypeOK, ApplyTransactionResolution, environment
  <2> QED
    BY <1>4, <2>2, <2>3 DEF ApplyTransactionResolution
<1>5. ASSUME NEW w \in Workers, RecordTransactionRecoveryFailure(w) PROVE TypeOK'
  <2>1. worker' \in [Workers -> Party]
    BY <1>0, <1>5, IdleType DEF TypeOK, RecordTransactionRecoveryFailure
  <2>2. tx' \in [TxIds -> Row]
    <3>1. Released(tx[worker[w].at].recovery, FALSE) \in RecoveryColumns
      BY <1>0, ReleasedColumns
    <3>2. [tx[worker[w].at] EXCEPT !.recovery = Released(tx[worker[w].at].recovery, FALSE)] \in Row
      <4>1. tx[worker[w].at] \in Row
        BY <1>0
      <4> QED
        BY <4>1, <3>1, RecoveryReplaced
    <3> QED
      BY <1>0, <1>5, <3>2 DEF TypeOK, RecordTransactionRecoveryFailure
  <2> QED
    BY <1>5, <2>1, <2>2 DEF TypeOK, RecordTransactionRecoveryFailure, environment
<1>6. ASSUME NEW w \in Workers, Crash(w) PROVE TypeOK'
  <2>1. worker' \in [Workers -> Party]
    BY <1>0, <1>6, IdleType DEF TypeOK, Crash
  <2>2. crashes' \in 0..MaxCrashes
    BY <1>6, BoundsAssumption DEF TypeOK, Crash
  <2> QED
    BY <1>6, <2>1, <2>2 DEF TypeOK, Crash, environment
<1>7. ASSUME NEW o \in Operators, StartQuery(o) \/ ManualAnswer(o) \/ ManualFails(o) PROVE TypeOK'
  <2>1. CASE StartQuery(o)
    <3>1. \A t \in TxIds : Claim(t, 0) \in Party
      BY DEF Claim, Party, VendStatus
    <3>2. operator' \in [Operators -> Party]
      BY <2>1, <3>1 DEF TypeOK, StartQuery
    <3> QED
      BY <2>1, <3>2 DEF TypeOK, StartQuery, environment
  <2>2. CASE ManualAnswer(o)
    <3>1. PICK v \in VendStatus : operator' = [operator EXCEPT ![o] = Answered(@, v)]
      BY <1>0, <2>2, ReportsType DEF ManualAnswer, TypeOK
    <3>2. Answered(operator[o], v) \in Party
      BY <1>0, PartySteps
    <3>3. operator' \in [Operators -> Party]
      BY <3>1, <3>2 DEF TypeOK
    <3> QED
      BY <2>2, <3>3 DEF TypeOK, ManualAnswer, environment
  <2>3. CASE ManualFails(o)
    <3>1. operator' \in [Operators -> Party]
      BY <1>0, <2>3, IdleType DEF TypeOK, ManualFails
    <3> QED
      BY <2>3, <3>1 DEF TypeOK, ManualFails, environment
  <2> QED
    BY <1>7, <2>1, <2>2, <2>3
<1>8. ASSUME NEW o \in Operators, ApplyProviderResolution(o) PROVE TypeOK'
  <2>1. operator' \in [Operators -> Party]
    BY <1>0, <1>8, IdleType DEF TypeOK, ApplyProviderResolution
  <2>2. tx' \in [TxIds -> Row]
    BY <1>0, <1>8, ManuallyResolvedRow DEF TypeOK, ApplyProviderResolution
  <2> QED
    BY <1>0, <1>8, <2>1, <2>2 DEF TypeOK, ApplyProviderResolution, environment
<1>9. ASSUME NEW t \in TxIds, NEW v \in VendStatus, RecordAndApplyWebhook(t, v) PROVE TypeOK'
  <2>1. tx' \in [TxIds -> Row]
    BY <1>0, <1>9, NotifiedRow DEF TypeOK, RecordAndApplyWebhook
  <2> QED
    BY <1>9, <2>1 DEF TypeOK, RecordAndApplyWebhook
<1>10. ASSUME NEW aged \in SUBSET TxIds, RunRecoveryEscalations(aged) PROVE TypeOK'
  BY <1>10 DEF TypeOK, RunRecoveryEscalations, environment
<1>11. ASSUME NEW t \in TxIds, LeaseExpires(t) \/ BecomesDue(t) PROVE TypeOK'
  <2>1. /\ [tx[t].recovery EXCEPT !.lease = "expired"] \in RecoveryColumns
        /\ [tx[t].recovery EXCEPT !.due = TRUE] \in RecoveryColumns
    BY <1>0, <1>11 DEF RecoveryColumns, Lease
  <2>2. /\ [tx[t] EXCEPT !.recovery.lease = "expired"] \in Row
        /\ [tx[t] EXCEPT !.recovery.due = TRUE] \in Row
    BY <1>0, <1>11, <2>1 DEF Row
  <2>3. tx' \in [TxIds -> Row]
    BY <1>11, <2>2 DEF TypeOK, LeaseExpires, BecomesDue
  <2> QED
    BY <1>11, <2>3 DEF TypeOK, LeaseExpires, BecomesDue, environment
<1>12. ASSUME NEW t \in TxIds, ProviderMoves(t) PROVE TypeOK'
  BY <1>12 DEF TypeOK, ProviderMoves
<1>13. ASSUME NEW t \in TxIds, ProviderNotifies(t) PROVE TypeOK'
  <2>1. truth[t] \in VendStatus
    BY <1>13, WordingAssumption DEF TypeOK, ProviderNotifies, Truth, VendStatus
  <2> QED
    BY <1>13, <2>1 DEF TypeOK, ProviderNotifies
<1>14. ASSUME ConnectorChanges PROVE TypeOK'
  BY <1>14, BoundsAssumption DEF TypeOK, ConnectorChanges
<1>15. CASE UNCHANGED vars
  BY <1>15 DEF TypeOK, vars
<1> QED
  BY <1>1, <1>2, <1>3, <1>4, <1>5, <1>6, <1>7, <1>8, <1>9, <1>10, <1>11, <1>12, <1>13,
     <1>14, <1>15
  DEF Next, WorkerStep, OperatorStep

\* The tables, the workers' claims, the operators' answers and the provider's
\* events stay what they are declared to be.
THEOREM TypeCorrect == Spec => []TypeOK
BY TypeInit, TypeNext, PTL DEF Spec

-----------------------------------------------------------------------------
(* Lease tokens. *)

Busy(w) == worker[w].pc # "idle"

\* Tokens are issued once: a worker under way has one, a row has none later than
\* the last one issued, and a row that carries a worker's token was claimed by it
\* last.  A row that a worker left final carries no token.
TokenInv ==
  /\ \A w \in Workers : worker[w].token <= issued /\ (Busy(w) => worker[w].token > 0)
  /\ \A t \in TxIds : tx[t].recovery.token <= issued
  /\ \A w \in Workers : Busy(w) /\ OwnsLease(w) => claimant[worker[w].at] = w
  /\ \A t \in TxIds :
       writer[t] = "worker" /\ tx[t].status \in Terminal => tx[t].recovery.token = 0

\* The numbers that TokenInv compares.
LEMMA Numbers ==
  ASSUME TypeOK
  PROVE  /\ issued \in Nat
         /\ \A w \in Workers : worker[w].token \in Nat /\ worker[w].at \in TxIds
                              /\ worker[w].answer \in VendStatus
         /\ \A o \in Operators : operator[o].at \in TxIds /\ operator[o].answer \in VendStatus
         /\ \A t \in TxIds : tx[t] \in Row /\ tx[t].recovery \in RecoveryColumns
                             /\ tx[t].recovery.token \in Nat
BY DEF TypeOK, Party, Row, RecoveryColumns

\* Steps that leave every token where it is keep TokenInv, as long as no worker
\* comes to be under way and a final status is written by nobody but workers that
\* give up their token.
LEMMA TokensStay ==
  ASSUME TypeOK, TokenInv, UNCHANGED <<issued, claimant>>,
         \A w \in Workers : /\ worker'[w].token = worker[w].token /\ worker'[w].at = worker[w].at
                            /\ Busy(w)' => Busy(w),
         \A t \in TxIds : /\ tx'[t].recovery.token = tx[t].recovery.token
                          /\ \/ tx'[t].status = tx[t].status /\ writer'[t] = writer[t]
                             \/ writer'[t] # "worker"
  PROVE  TokenInv'
<1>1. \A w \in Workers : worker[w].at \in TxIds
  BY Numbers
<1>2. \A w \in Workers : worker'[w].token <= issued' /\ (Busy(w)' => worker'[w].token > 0)
  BY DEF TokenInv
<1>3. \A t \in TxIds : tx'[t].recovery.token <= issued'
  BY DEF TokenInv
<1>4. ASSUME NEW w \in Workers, Busy(w)', OwnsLease(w)' PROVE claimant'[worker'[w].at] = w
  <2>1. Busy(w) /\ OwnsLease(w)
    BY <1>1, <1>4 DEF OwnsLease
  <2> QED
    BY <1>1, <2>1 DEF TokenInv
<1>5. \A t \in TxIds :
        writer'[t] = "worker" /\ tx'[t].status \in Terminal => tx'[t].recovery.token = 0
  BY DEF TokenInv
<1> QED
  BY <1>2, <1>3, <1>4, <1>5 DEF TokenInv

\* A worker that gives up its claim, and with it the row's token if it owns it.
LEMMA TokenReleased ==
  ASSUME TypeOK, TokenInv, NEW w \in Workers, UNCHANGED <<issued, claimant>>,
         worker' = [worker EXCEPT ![w] = Idle(@.at)],
         \A t \in TxIds : \/ tx'[t].recovery.token = 0
                          \/ /\ tx'[t].recovery.token = tx[t].recovery.token
                             /\ tx'[t].status = tx[t].status /\ writer'[t] = writer[t]
  PROVE  TokenInv'
<1>1. /\ \A x \in Workers : x # w => worker'[x] = worker[x]
      /\ worker'[w].pc = "idle" /\ worker'[w].token = 0
  BY DEF TypeOK, Idle
<1>2. issued \in Nat /\ \A x \in Workers : worker[x].token \in Nat /\ worker[x].at \in TxIds
  BY Numbers
<1>3. \A x \in Workers : worker'[x].token <= issued' /\ (Busy(x)' => worker'[x].token > 0)
  BY <1>1, <1>2 DEF TokenInv, Busy
<1>4. \A t \in TxIds : tx'[t].recovery.token <= issued'
  BY <1>2 DEF TokenInv
<1>5. ASSUME NEW x \in Workers, Busy(x)', OwnsLease(x)' PROVE claimant'[worker'[x].at] = x
  <2>1. x # w /\ worker'[x] = worker[x] /\ Busy(x)
    BY <1>1, <1>5 DEF Busy
  <2>2. tx'[worker[x].at].recovery.token = worker[x].token /\ worker[x].token > 0
    BY <1>5, <2>1 DEF OwnsLease, TokenInv
  <2>3. OwnsLease(x)
    BY <1>2, <2>2 DEF OwnsLease
  <2> QED
    BY <2>1, <2>3 DEF TokenInv
<1>6. \A t \in TxIds :
        writer'[t] = "worker" /\ tx'[t].status \in Terminal => tx'[t].recovery.token = 0
  BY DEF TokenInv
<1> QED
  BY <1>3, <1>4, <1>5, <1>6 DEF TokenInv

LEMMA TokenInit == Init => TokenInv
<1> SUFFICES ASSUME Init PROVE TokenInv
  OBVIOUS
<1>1. /\ \A w \in Workers : worker[w].token = 0 /\ worker[w].pc = "idle"
      /\ issued = 0
  BY DEF Init, Idle
<1>2. \A t \in TxIds : tx[t].status \notin Terminal /\ tx[t].recovery.token = 0
  BY RowsAtStart DEF NoRecovery
<1> QED
  BY <1>1, <1>2 DEF TokenInv, Busy

LEMMA TokenNext == TypeOK /\ TokenInv /\ [Next]_vars => TokenInv'
<1> SUFFICES ASSUME TypeOK, TokenInv, [Next]_vars PROVE TokenInv'
  OBVIOUS
<1>0. /\ issued \in Nat
      /\ \A w \in Workers : worker[w].token \in Nat /\ worker[w].at \in TxIds
                           /\ worker[w].answer \in VendStatus
      /\ \A o \in Operators : operator[o].at \in TxIds /\ operator[o].answer \in VendStatus
      /\ \A t \in TxIds : tx[t] \in Row /\ tx[t].recovery \in RecoveryColumns
                          /\ tx[t].recovery.token \in Nat
  BY Numbers
<1>1. ASSUME NEW w \in Workers, NEW t \in TxIds, ClaimNextTransaction(w, t) PROVE TokenInv'
  <2>1. /\ worker'[w] = Claim(t, issued + 1)
        /\ \A x \in Workers : x # w => worker'[x] = worker[x]
        /\ claimant'[t] = w
        /\ \A s \in TxIds : s # t => tx'[s] = tx[s] /\ claimant'[s] = claimant[s]
        /\ tx'[t] = [tx[t] EXCEPT !.recovery = ClaimColumns(tx[t].recovery, issued + 1)]
        /\ issued' = issued + 1 /\ writer' = writer
    BY <1>1 DEF ClaimNextTransaction, TypeOK
  <2>1a. ClaimColumns(tx[t].recovery, issued + 1).token = issued + 1
    <3>1. issued + 1 \in Nat
      BY <1>0
    <3> QED
      BY <1>0, <3>1, ClaimedColumns
  <2>2. tx'[t].recovery.token = issued + 1 /\ tx'[t].status = tx[t].status
    BY <1>0, <2>1, <2>1a DEF Row
  <2>3. worker'[w].at = t /\ worker'[w].token = issued + 1
    BY <2>1 DEF Claim
  <2>4. tx[t].status \notin Terminal
    BY <1>1 DEF ClaimNextTransaction, Recoverable, Unresolved, Open, Terminal
  <2>5. \A x \in Workers : worker'[x].token <= issued' /\ (Busy(x)' => worker'[x].token > 0)
    BY <1>0, <2>1, <2>3 DEF TokenInv, Busy
  <2>6. ASSUME NEW s \in TxIds PROVE tx'[s].recovery.token <= issued'
    <3>1. issued' = issued + 1 /\ issued \in Nat /\ tx[s].recovery.token \in Nat
          /\ tx[s].recovery.token <= issued
      BY <1>0, <2>1 DEF TokenInv
    <3>2. tx'[s].recovery.token = issued + 1 \/ tx'[s].recovery.token = tx[s].recovery.token
      BY <2>1, <2>2
    <3> QED
      BY <3>1, <3>2
  <2>7. ASSUME NEW x \in Workers, Busy(x)', OwnsLease(x)' PROVE claimant'[worker'[x].at] = x
    <3>1. CASE x = w
      BY <2>1, <2>3, <3>1
    <3>2. CASE x # w
      <4>1. worker'[x] = worker[x] /\ Busy(x) /\ worker[x].token <= issued
        BY <2>1, <2>7, <3>2 DEF Busy, TokenInv
      <4>2. worker[x].at # t
        BY <1>0, <2>2, <2>7, <4>1 DEF OwnsLease
      <4>3. OwnsLease(x)
        BY <1>0, <2>1, <2>7, <4>1, <4>2 DEF OwnsLease
      <4> QED
        BY <1>0, <2>1, <4>1, <4>2, <4>3 DEF TokenInv
    <3> QED
      BY <3>1, <3>2
  <2>8. \A s \in TxIds :
          writer'[s] = "worker" /\ tx'[s].status \in Terminal => tx'[s].recovery.token = 0
    BY <2>1, <2>2, <2>4 DEF TokenInv
  <2> QED
    BY <2>5, <2>6, <2>7, <2>8 DEF TokenInv
<1>2. ASSUME NEW w \in Workers, QueryProvider(w) \/ RecoveryFails(w) PROVE TokenInv'
  <2>1. /\ worker[w].pc # "idle" /\ UNCHANGED <<tx, issued, claimant, writer>>
        /\ \/ \E v \in Reports(truth[worker[w].at]) :
                worker' = [worker EXCEPT ![w] = Answered(@, v)]
           \/ worker' = [worker EXCEPT ![w] = Failing(@)]
    BY <1>2 DEF QueryProvider, RecoveryFails
  <2>1a. worker[w] \in Party /\ worker \in [Workers -> Party]
    BY DEF TypeOK
  <2>1b. /\ \A v : /\ Answered(worker[w], v).token = worker[w].token
                   /\ Answered(worker[w], v).at = worker[w].at
         /\ Failing(worker[w]).token = worker[w].token
         /\ Failing(worker[w]).at = worker[w].at
    BY <2>1a DEF Answered, Failing, Party
  <2>1c. PICK p : /\ worker' = [worker EXCEPT ![w] = p]
                  /\ p.token = worker[w].token /\ p.at = worker[w].at
    BY <2>1, <2>1b
  <2>2. \A x \in Workers : /\ worker'[x].token = worker[x].token /\ worker'[x].at = worker[x].at
                           /\ Busy(x)' => Busy(x)
    BY <2>1, <2>1a, <2>1c DEF Busy
  <2> QED
    BY <2>1, <2>2, TokensStay
<1>3. ASSUME NEW w \in Workers, ApplyTransactionResolution(w) PROVE TokenInv'
  <2>1. \A t \in TxIds : \/ tx'[t].recovery.token = 0
                         \/ /\ tx'[t].recovery.token = tx[t].recovery.token
                            /\ tx'[t].status = tx[t].status /\ writer'[t] = writer[t]
    <3>1. CASE tx' = [tx EXCEPT ![worker[w].at] = Resolved(@, worker[w].answer)]
               /\ writer' = [writer EXCEPT ![worker[w].at] = "worker"]
      <4>1. Resolved(tx[worker[w].at], worker[w].answer).recovery.token = 0
        BY <1>0, ResolvedRow
      <4> QED
        BY <3>1, <4>1 DEF TypeOK
    <3>2. CASE UNCHANGED <<tx, writer>>
      BY <3>2
    <3> QED
      BY <1>3, <3>1, <3>2 DEF ApplyTransactionResolution
  <2> QED
    BY <1>3, <2>1, TokenReleased DEF ApplyTransactionResolution
<1>4. ASSUME NEW w \in Workers, RecordTransactionRecoveryFailure(w) PROVE TokenInv'
  <2>1. \A t \in TxIds : \/ tx'[t].recovery.token = 0
                         \/ /\ tx'[t].recovery.token = tx[t].recovery.token
                            /\ tx'[t].status = tx[t].status /\ writer'[t] = writer[t]
    <3>1. CASE tx' = [tx EXCEPT ![worker[w].at].recovery = Released(@, FALSE)]
      <4>1. Released(tx[worker[w].at].recovery, FALSE).token = 0
        BY <1>0, ReleasedColumns
      <4>2. tx'[worker[w].at].recovery.token = 0
        BY <1>0, <3>1, <4>1 DEF TypeOK, Row
      <4> QED
        BY <1>0, <1>4, <3>1, <4>2 DEF TypeOK, RecordTransactionRecoveryFailure
    <3>2. CASE UNCHANGED tx
      BY <1>4, <3>2 DEF RecordTransactionRecoveryFailure
    <3> QED
      BY <1>4, <3>1, <3>2 DEF RecordTransactionRecoveryFailure
  <2> QED
    BY <1>4, <2>1, TokenReleased DEF RecordTransactionRecoveryFailure
<1>5. ASSUME NEW w \in Workers, Crash(w) PROVE TokenInv'
  BY <1>5, TokenReleased DEF Crash, environment
<1>6. ASSUME NEW o \in Operators, ApplyProviderResolution(o) PROVE TokenInv'
  <2>1. ManuallyResolved(tx[operator[o].at], operator[o].answer).recovery.token
          = tx[operator[o].at].recovery.token
    BY <1>0, ManuallyResolvedRow
  <2>2. \A t \in TxIds : /\ tx'[t].recovery.token = tx[t].recovery.token
                         /\ \/ tx'[t].status = tx[t].status /\ writer'[t] = writer[t]
                            \/ writer'[t] # "worker"
    BY <1>0, <1>6, <2>1 DEF TypeOK, ApplyProviderResolution
  <2> QED
    BY <1>6, <2>2, TokensStay DEF ApplyProviderResolution, Busy
<1>7. ASSUME NEW t \in TxIds, NEW v \in VendStatus, RecordAndApplyWebhook(t, v) PROVE TokenInv'
  <2>1. PICK named \in BOOLEAN : tx' = [tx EXCEPT ![t] = Notified(@, v, named)]
    BY <1>7 DEF RecordAndApplyWebhook
  <2>2. Notified(tx[t], v, named).recovery = tx[t].recovery
    BY <1>0, NotifiedRow
  <2>3. \A s \in TxIds : /\ tx'[s].recovery.token = tx[s].recovery.token
                         /\ \/ tx'[s].status = tx[s].status /\ writer'[s] = writer[s]
                            \/ writer'[s] # "worker"
    BY <1>7, <2>1, <2>2 DEF TypeOK, RecordAndApplyWebhook
  <2> QED
    BY <1>7, <2>3, TokensStay DEF RecordAndApplyWebhook, Busy
<1>8. ASSUME NEW t \in TxIds, LeaseExpires(t) \/ BecomesDue(t) PROVE TokenInv'
  <2>1a. \/ tx' = [tx EXCEPT ![t].recovery.lease = "expired"]
         \/ tx' = [tx EXCEPT ![t].recovery.due = TRUE]
    BY <1>8 DEF LeaseExpires, BecomesDue
  <2>1b. /\ [tx[t].recovery EXCEPT !.lease = "expired"].token = tx[t].recovery.token
         /\ [tx[t].recovery EXCEPT !.due = TRUE].token = tx[t].recovery.token
    BY <1>0 DEF RecoveryColumns
  <2>1c. PICK columns : /\ tx' = [tx EXCEPT ![t] = [tx[t] EXCEPT !.recovery = columns]]
                        /\ columns.token = tx[t].recovery.token
    BY <2>1a, <2>1b
  <2>1. \A s \in TxIds : tx'[s].recovery.token = tx[s].recovery.token /\ tx'[s].status = tx[s].status
    BY <1>0, <2>1c DEF TypeOK, Row
  <2>2. UNCHANGED <<worker, issued, claimant, writer>>
    BY <1>8 DEF LeaseExpires, BecomesDue
  <2> QED
    BY <2>1, <2>2, TokensStay DEF Busy
<1>9. CASE UNCHANGED <<tx, worker, issued, claimant, writer>>
  BY <1>9, TokensStay DEF Busy
<1> QED
  BY <1>1, <1>2, <1>3, <1>4, <1>5, <1>6, <1>7, <1>8, <1>9
  DEF Next, WorkerStep, OperatorStep, StartQuery, ManualAnswer, ManualFails,
      RunRecoveryEscalations, ProviderMoves, ProviderNotifies, ConnectorChanges, vars

LEMMA TokenCorrect == Spec => [](TypeOK /\ TokenInv)
<1>1. Init => TypeOK /\ TokenInv
  BY TypeInit, TokenInit
<1>2. TypeOK /\ TokenInv /\ [Next]_vars => (TypeOK /\ TokenInv)'
  BY TypeNext, TokenNext
<1> QED
  BY <1>1, <1>2, PTL DEF Spec

\* A worker whose row was claimed by another worker since writes nothing.
THEOREM StaleWorkerIsHarmless == Spec => NewerWorkerWins
<1>1. ASSUME TypeOK, TokenInv, NEW w \in Workers, Settles(w), claimant[worker[w].at] # w
      PROVE  UNCHANGED tx
  <2>1. Busy(w)
    BY <1>1 DEF Settles, ApplyTransactionResolution, RecordTransactionRecoveryFailure, Busy
  <2>2. ~ OwnsLease(w)
    BY <1>1, <2>1 DEF TokenInv
  <2> QED
    BY <1>1, <2>2 DEF Settles, ApplyTransactionResolution, RecordTransactionRecoveryFailure
<1>2. TypeOK /\ TokenInv
      => \A w \in Workers : Settles(w) /\ claimant[worker[w].at] # w => UNCHANGED tx
  BY <1>1
<1> QED
  BY <1>2, TokenCorrect, PTL DEF NewerWorkerWins

\* A final status that a worker wrote is changed by operators and webhooks only.
THEOREM FinalStays == Spec => WorkersKeepTerminal
<1> DEFINE Kept(t) == /\ writer[t] = "worker" /\ tx[t].status \in Terminal
                      /\ tx'[t].status # tx[t].status
                      => writer'[t] \in {"operator", "webhook"}
<1>1. ASSUME TypeOK, TokenInv, [Next]_vars, NEW t \in TxIds,
             writer[t] = "worker", tx[t].status \in Terminal, tx'[t].status # tx[t].status
      PROVE  writer'[t] \in {"operator", "webhook"}
  <2>0. tx[t] \in Row /\ tx[t].recovery.token = 0
    BY <1>1, Numbers DEF TokenInv
  <2>1. ASSUME NEW w \in Workers, NEW s \in TxIds, ClaimNextTransaction(w, s) PROVE FALSE
    <3>1. tx'[t] = tx[t] \/ (s = t /\ tx'[t] = [tx[t] EXCEPT !.recovery = ClaimColumns(tx[t].recovery, issued + 1)])
      BY <1>1, <2>1 DEF TypeOK, ClaimNextTransaction
    <3>2. tx'[t].status = tx[t].status
      BY <2>0, <3>1 DEF Row
    <3> QED
      BY <1>1, <3>2
  <2>2. ASSUME NEW w \in Workers, Settles(w) PROVE FALSE
    <3>1. worker[w].token > 0 /\ worker[w].token \in Nat /\ worker[w].at \in TxIds
      BY <1>1, <2>2, Numbers
      DEF TokenInv, Busy, Settles, ApplyTransactionResolution, RecordTransactionRecoveryFailure
    <3>2. tx' # tx
      BY <1>1
    <3>3. OwnsLease(w)
      BY <2>2, <3>2 DEF Settles, ApplyTransactionResolution, RecordTransactionRecoveryFailure
    <3>4. worker[w].at # t
      BY <2>0, <3>1, <3>3 DEF OwnsLease
    <3> QED
      BY <1>1, <2>2, <3>1, <3>4
      DEF TypeOK, Settles, ApplyTransactionResolution, RecordTransactionRecoveryFailure
  <2>3. ASSUME NEW o \in Operators, ApplyProviderResolution(o) PROVE writer'[t] \in {"operator", "webhook"}
    <3>1. tx'[t] # tx[t]
      BY <1>1
    <3> QED
      BY <1>1, <2>3, <3>1 DEF TypeOK, ApplyProviderResolution
  <2>4. ASSUME NEW s \in TxIds, NEW v \in VendStatus, RecordAndApplyWebhook(s, v)
        PROVE  writer'[t] \in {"operator", "webhook"}
    <3>1. tx'[t] # tx[t]
      BY <1>1
    <3> QED
      BY <1>1, <2>4, <3>1 DEF TypeOK, RecordAndApplyWebhook
  <2>5. ASSUME NEW s \in TxIds, LeaseExpires(s) \/ BecomesDue(s) PROVE FALSE
    <3>1. PICK columns : tx' = [tx EXCEPT ![s] = [tx[s] EXCEPT !.recovery = columns]]
      BY <2>5 DEF LeaseExpires, BecomesDue
    <3>2. tx'[t].status = tx[t].status
      BY <1>1, <2>0, <3>1 DEF TypeOK, Row
    <3> QED
      BY <1>1, <3>2
  <2>6. ~ UNCHANGED tx
    BY <1>1
  <2> QED
    BY <1>1, <2>1, <2>2, <2>3, <2>4, <2>5, <2>6
    DEF Next, Settles, WorkerStep, OperatorStep, QueryProvider, RecoveryFails, Crash, StartQuery,
        ManualAnswer, ManualFails, RunRecoveryEscalations, ProviderMoves, ProviderNotifies,
        ConnectorChanges, vars
<1>2. TypeOK /\ TokenInv /\ [Next]_vars => \A t \in TxIds : Kept(t)
  BY <1>1
<1> HIDE DEF Kept
<1>3. Spec => [][\A t \in TxIds : Kept(t)]_vars
  BY <1>2, TokenCorrect, PTL DEF Spec
<1> QED
  BY <1>3 DEF Kept, WorkersKeepTerminal

-----------------------------------------------------------------------------
(* What the provider said. *)

\* A final status v said of t is the one the provider holds.
Sound(t, v) == v \in {"FULFILLED", "FAILED", "CANCELLED"} => truth[t] = v

TruthInv ==
  /\ \A w \in Workers : Sound(worker[w].at, worker[w].answer)
  /\ \A o \in Operators : Sound(operator[o].at, operator[o].answer)
  /\ \A t \in TxIds, v \in VendStatus : <<t, v>> \in inbox => Sound(t, v)
  /\ ResolutionIsTrue

\* The row follows the provider.
RowIsTrue(t, row) ==
  row.status \in Terminal => truth[t] = row.status /\ (row.refundRequired <=> truth[t] # "FULFILLED")

\* A row that takes over something sound follows the provider.
LEMMA SoundRow ==
  ASSUME NEW t, NEW v \in VendStatus, Sound(t, v), NEW row,
         row.status = NormalizedFromVend(v), row.refundRequired = NeedsFullRefund(v)
  PROVE  RowIsTrue(t, row)
BY DEF RowIsTrue, Sound, NormalizedFromVend, NeedsFullRefund, Terminal, VendStatus

\* An adapter reports a final status only if the provider is there.
LEMMA SoundReports ==
  ASSUME TypeOK, NEW t \in TxIds, NEW v \in Reports(truth[t])
  PROVE  Sound(t, v) /\ v \in VendStatus
BY ReportsType, WordingAssumption DEF TypeOK, Reports, Sound, Truth

LEMMA TruthInit == Init => TruthInv
<1> SUFFICES ASSUME Init PROVE TruthInv
  OBVIOUS
<1>1. /\ \A w \in Workers : worker[w].answer = "UNKNOWN"
      /\ \A o \in Operators : operator[o].answer = "UNKNOWN"
      /\ inbox = {}
  BY DEF Init, Idle
<1>2. \A t \in TxIds : tx[t].status \notin Terminal
  BY RowsAtStart
<1> QED
  BY <1>1, <1>2 DEF TruthInv, Sound, ResolutionIsTrue

LEMMA TruthNext == TypeOK /\ TruthInv /\ [Next]_vars => TruthInv'
<1> SUFFICES ASSUME TypeOK, TruthInv, [Next]_vars PROVE TruthInv'
  OBVIOUS
<1>0. /\ \A w \in Workers : worker[w].at \in TxIds /\ worker[w].answer \in VendStatus
      /\ \A o \in Operators : operator[o].at \in TxIds /\ operator[o].answer \in VendStatus
      /\ \A t \in TxIds : tx[t] \in Row /\ tx[t].recovery \in RecoveryColumns
  BY Numbers
<1>1. \A t \in TxIds, v \in VendStatus : truth' = truth /\ Sound(t, v) => Sound(t, v)'
  BY DEF Sound
<1>2. ASSUME truth' = truth,
             \A w \in Workers : \/ worker'[w].answer = "UNKNOWN"
                                \/ worker'[w] = worker[w]
                                \/ Sound(worker'[w].at, worker'[w].answer),
             \A o \in Operators : \/ operator'[o].answer = "UNKNOWN"
                                  \/ operator'[o] = operator[o]
                                  \/ Sound(operator'[o].at, operator'[o].answer),
             \A t \in TxIds, v \in VendStatus :
               <<t, v>> \in inbox' => <<t, v>> \in inbox \/ Sound(t, v),
             \A t \in TxIds : \/ /\ tx'[t].status = tx[t].status
                                /\ tx'[t].refundRequired = tx[t].refundRequired
                             \/ RowIsTrue(t, tx'[t])
      PROVE  TruthInv'
  <2>1. \A w \in Workers : Sound(worker[w].at, worker[w].answer)'
    BY <1>2 DEF TruthInv, Sound
  <2>2. \A o \in Operators : Sound(operator[o].at, operator[o].answer)'
    BY <1>2 DEF TruthInv, Sound
  <2>3. \A t \in TxIds, v \in VendStatus : <<t, v>> \in inbox' => Sound(t, v)'
    BY <1>2 DEF TruthInv, Sound
  <2>4. ResolutionIsTrue'
    BY <1>2 DEF TruthInv, ResolutionIsTrue, RowIsTrue
  <2> QED
    BY <2>1, <2>2, <2>3, <2>4 DEF TruthInv
<1>3. ASSUME NEW w \in Workers, NEW t \in TxIds, ClaimNextTransaction(w, t) PROVE TruthInv'
  <2>1. /\ UNCHANGED <<truth, operator, inbox>>
        /\ \A x \in Workers : worker'[x] = worker[x] \/ worker'[x].answer = "UNKNOWN"
    BY <1>3 DEF ClaimNextTransaction, environment, Claim, TypeOK
  <2>2. tx' = [tx EXCEPT ![t] = [tx[t] EXCEPT !.recovery = ClaimColumns(tx[t].recovery, issued + 1)]]
    BY <1>3 DEF ClaimNextTransaction
  <2>3. \A s \in TxIds : /\ tx'[s].status = tx[s].status
                         /\ tx'[s].refundRequired = tx[s].refundRequired
    BY <1>0, <2>2 DEF TypeOK, Row
  <2> QED
    BY <1>2, <2>1, <2>3
<1>4. ASSUME NEW w \in Workers, QueryProvider(w) PROVE TruthInv'
  <2>1. PICK v \in Reports(truth[worker[w].at]) : worker' = [worker EXCEPT ![w] = Answered(@, v)]
    BY <1>4 DEF QueryProvider
  <2>2. Answered(worker[w], v).answer = v /\ Answered(worker[w], v).at = worker[w].at
    BY DEF Answered, TypeOK, Party
  <2>3. \A x \in Workers : worker'[x] = worker[x] \/ Sound(worker'[x].at, worker'[x].answer)
    BY <1>0, <2>1, <2>2, SoundReports DEF TypeOK
  <2> QED
    BY <1>2, <1>4, <2>3 DEF QueryProvider, environment
<1>5. ASSUME NEW w \in Workers, RecoveryFails(w) \/ Crash(w) PROVE TruthInv'
  <2>1. Failing(worker[w]).answer = "UNKNOWN" /\ Idle(worker[w].at).answer = "UNKNOWN"
    BY DEF Failing, Idle, TypeOK, Party
  <2>2. \A x \in Workers : worker'[x] = worker[x] \/ worker'[x].answer = "UNKNOWN"
    BY <1>5, <2>1 DEF RecoveryFails, Crash, TypeOK
  <2>3. UNCHANGED <<tx, truth, operator, inbox>>
    BY <1>5 DEF RecoveryFails, Crash, environment
  <2> QED
    BY <1>2, <2>2, <2>3
<1>6. ASSUME NEW w \in Workers, ApplyTransactionResolution(w) PROVE TruthInv'
  <2>1. /\ UNCHANGED <<truth, operator, inbox>>
        /\ \A x \in Workers : worker'[x] = worker[x] \/ worker'[x].answer = "UNKNOWN"
    BY <1>6 DEF ApplyTransactionResolution, environment, Idle, TypeOK
  <2>2. CASE tx' = [tx EXCEPT ![worker[w].at] = Resolved(@, worker[w].answer)]
    <3>1. RowIsTrue(worker[w].at, Resolved(tx[worker[w].at], worker[w].answer))
      BY <1>0, ResolvedRow, SoundRow DEF TruthInv
    <3>2. \A t \in TxIds : tx'[t] = tx[t] \/ RowIsTrue(t, tx'[t])
      BY <1>0, <2>2, <3>1 DEF TypeOK
    <3> QED
      BY <1>2, <2>1, <3>2
  <2>3. CASE UNCHANGED tx
    BY <1>2, <2>1, <2>3
  <2> QED
    BY <1>6, <2>2, <2>3 DEF ApplyTransactionResolution
<1>7. ASSUME NEW w \in Workers, RecordTransactionRecoveryFailure(w) PROVE TruthInv'
  <2>1. /\ UNCHANGED <<truth, operator, inbox>>
        /\ \A x \in Workers : worker'[x] = worker[x] \/ worker'[x].answer = "UNKNOWN"
    BY <1>7 DEF RecordTransactionRecoveryFailure, environment, Idle, TypeOK
  <2> DEFINE t == worker[w].at
  <2>2. PICK columns : \/ tx' = [tx EXCEPT ![t] = [tx[t] EXCEPT !.recovery = columns]]
                      \/ UNCHANGED tx
    BY <1>0, <1>7 DEF RecordTransactionRecoveryFailure
  <2> HIDE DEF t
  <2>3. \A s \in TxIds : /\ tx'[s].status = tx[s].status
                         /\ tx'[s].refundRequired = tx[s].refundRequired
    BY <1>0, <2>2 DEF TypeOK, Row
  <2> QED
    BY <1>2, <2>1, <2>3
<1>8. ASSUME NEW o \in Operators, StartQuery(o) \/ ManualFails(o) PROVE TruthInv'
  <2>1. \A p \in Operators : operator'[p] = operator[p] \/ operator'[p].answer = "UNKNOWN"
    BY <1>8 DEF StartQuery, ManualFails, Claim, Idle, TypeOK
  <2>2. UNCHANGED <<tx, truth, worker, inbox>>
    BY <1>8 DEF StartQuery, ManualFails, environment
  <2> QED
    BY <1>2, <2>1, <2>2
<1>9. ASSUME NEW o \in Operators, ManualAnswer(o) PROVE TruthInv'
  <2>1. PICK v \in Reports(truth[operator[o].at]) : operator' = [operator EXCEPT ![o] = Answered(@, v)]
    BY <1>9 DEF ManualAnswer
  <2>2. Answered(operator[o], v).answer = v /\ Answered(operator[o], v).at = operator[o].at
    BY DEF Answered, TypeOK, Party
  <2>3. \A p \in Operators : operator'[p] = operator[p] \/ Sound(operator'[p].at, operator'[p].answer)
    BY <1>0, <2>1, <2>2, SoundReports DEF TypeOK
  <2> QED
    BY <1>2, <1>9, <2>3 DEF ManualAnswer, environment
<1>10. ASSUME NEW o \in Operators, ApplyProviderResolution(o) PROVE TruthInv'
  <2>1. /\ UNCHANGED <<truth, worker, inbox>>
        /\ \A p \in Operators : operator'[p] = operator[p] \/ operator'[p].answer = "UNKNOWN"
    BY <1>10 DEF ApplyProviderResolution, environment, Idle, TypeOK
  <2>2. RowIsTrue(operator[o].at, ManuallyResolved(tx[operator[o].at], operator[o].answer))
    BY <1>0, ManuallyResolvedRow, SoundRow DEF TruthInv
  <2>3. \A t \in TxIds : tx'[t] = tx[t] \/ RowIsTrue(t, tx'[t])
    BY <1>0, <1>10, <2>2 DEF TypeOK, ApplyProviderResolution
  <2> QED
    BY <1>2, <2>1, <2>3
<1>11. ASSUME NEW t \in TxIds, NEW v \in VendStatus, RecordAndApplyWebhook(t, v) PROVE TruthInv'
  <2>1. PICK named \in BOOLEAN : tx' = [tx EXCEPT ![t] = Notified(@, v, named)]
    BY <1>11 DEF RecordAndApplyWebhook
  <2>2. Sound(t, v)
    BY <1>11 DEF RecordAndApplyWebhook, TruthInv
  <2>3. RowIsTrue(t, Notified(tx[t], v, named))
    BY <1>0, <2>2, NotifiedRow, SoundRow
  <2>4. \A s \in TxIds : tx'[s] = tx[s] \/ RowIsTrue(s, tx'[s])
    BY <2>1, <2>3 DEF TypeOK
  <2>5. inbox' \subseteq inbox /\ UNCHANGED <<truth, worker, operator>>
    BY <1>11 DEF RecordAndApplyWebhook
  <2> QED
    BY <1>2, <2>4, <2>5
<1>12. ASSUME NEW t \in TxIds, LeaseExpires(t) \/ BecomesDue(t) PROVE TruthInv'
  <2>1. PICK columns : tx' = [tx EXCEPT ![t] = [tx[t] EXCEPT !.recovery = columns]]
    BY <1>12 DEF LeaseExpires, BecomesDue
  <2>2. \A s \in TxIds : /\ tx'[s].status = tx[s].status
                         /\ tx'[s].refundRequired = tx[s].refundRequired
    BY <1>0, <2>1 DEF TypeOK, Row
  <2>3. UNCHANGED <<truth, worker, operator, inbox>>
    BY <1>12 DEF LeaseExpires, BecomesDue, environment
  <2> QED
    BY <1>2, <2>2, <2>3
<1>13. ASSUME NEW t \in TxIds, ProviderMoves(t) PROVE TruthInv'
  <2>1. truth[t] \notin Final /\ UNCHANGED <<tx, worker, operator, inbox>>
        /\ \A s \in TxIds : s # t => truth'[s] = truth[s]
    BY <1>13 DEF ProviderMoves, TypeOK
  <2>2. truth[t] \in {"NONE", "ACCEPTED"}
    BY <2>1 DEF TypeOK, Truth
  <2>3. \A s \in TxIds, v \in VendStatus : Sound(s, v) => Sound(s, v)'
    BY <2>1, <2>2 DEF Sound
  <2>4. ResolutionIsTrue'
    <3>1. tx[t].status \notin Terminal
      BY <2>2 DEF TruthInv, ResolutionIsTrue, Terminal
    <3> QED
      BY <2>1, <3>1 DEF TruthInv, ResolutionIsTrue
  <2>5. /\ \A w \in Workers : Sound(worker[w].at, worker[w].answer)'
        /\ \A o \in Operators : Sound(operator[o].at, operator[o].answer)'
        /\ \A s \in TxIds, v \in VendStatus : <<s, v>> \in inbox' => Sound(s, v)'
    <3>1. \A w \in Workers : Sound(worker[w].at, worker[w].answer)'
      BY <1>0, <2>1, <2>2 DEF TruthInv, Sound
    <3>2. \A o \in Operators : Sound(operator[o].at, operator[o].answer)'
      BY <1>0, <2>1, <2>2 DEF TruthInv, Sound
    <3> QED
      BY <2>1, <2>3, <3>1, <3>2 DEF TruthInv
  <2> QED
    BY <2>4, <2>5 DEF TruthInv
<1>14. ASSUME NEW t \in TxIds, ProviderNotifies(t) PROVE TruthInv'
  <2>1. inbox' = inbox \cup {<<t, truth[t]>>} /\ UNCHANGED <<tx, truth, worker, operator>>
    BY <1>14 DEF ProviderNotifies
  <2>2. \A s \in TxIds, v \in VendStatus : <<s, v>> \in inbox' => <<s, v>> \in inbox \/ Sound(s, v)
    BY <2>1 DEF Sound
  <2> QED
    BY <1>2, <2>1, <2>2
<1>15. CASE UNCHANGED <<tx, truth, worker, operator, inbox>>
  BY <1>2, <1>15
<1> QED
  BY <1>3, <1>4, <1>5, <1>6, <1>7, <1>8, <1>9, <1>10, <1>11, <1>12, <1>13, <1>14, <1>15
  DEF Next, WorkerStep, OperatorStep, RunRecoveryEscalations, ConnectorChanges, environment, vars

\* A final status in the table is the provider's, whoever wrote it and however
\* late, and the row asks for a refund exactly if nothing was delivered.
THEOREM ResolutionCorrect == Spec => []ResolutionIsTrue
<1>1. Init => TypeOK /\ TruthInv
  BY TypeInit, TruthInit
<1>2. TypeOK /\ TruthInv /\ [Next]_vars => (TypeOK /\ TruthInv)'
  BY TypeNext, TruthNext
<1>3. TypeOK /\ TruthInv => ResolutionIsTrue
  BY DEF TruthInv
<1> QED
  BY <1>1, <1>2, <1>3, PTL DEF Spec

-----------------------------------------------------------------------------
(* The register under a fence. *)

FencedInv == TypeOK /\ TokenInv /\ TruthInv

LEMMA FencedCorrect == Spec => []FencedInv
<1>1. Init => FencedInv
  BY TypeInit, TokenInit, TruthInit DEF FencedInv
<1>2. FencedInv /\ [Next]_vars => FencedInv'
  BY TypeNext, TokenNext, TruthNext DEF FencedInv
<1> QED
  BY <1>1, <1>2, PTL DEF Spec

\* How the register sees a row with status s, one with a token, and a worker.
SaidOf(s) == IF s \in Terminal THEN s ELSE "open"
OwnerOf(token, w) == IF token = 0 THEN Nobody ELSE w
HandOf(p) == IF p.pc = "idle" THEN {} ELSE {p.at}

\* The register follows the row that is written.
LEMMA RowSeen ==
  ASSUME TypeOK, NEW t \in TxIds, NEW row, tx' = [tx EXCEPT ![t] = row]
  PROVE  /\ Said' = [Said EXCEPT ![t] = SaidOf(row.status)]
         /\ row.status = tx[t].status => Said' = Said
         /\ UNCHANGED claimant => Owner' = [Owner EXCEPT ![t] = OwnerOf(row.recovery.token, claimant[t])]
         /\ UNCHANGED claimant /\ row.recovery.token = tx[t].recovery.token => Owner' = Owner
<1>1. \A s \in TxIds : tx'[s] = IF s = t THEN row ELSE tx[s]
  BY DEF TypeOK
<1>2. /\ Said' = [Said EXCEPT ![t] = SaidOf(row.status)]
      /\ row.status = tx[t].status => Said' = Said
  <2>1. Said = [s \in TxIds |-> SaidOf(tx[s].status)]
    BY DEF Said, SaidOf
  <2>2. Said' = [s \in TxIds |-> SaidOf(tx'[s].status)]
    BY DEF Said, SaidOf
  <2>3. Said' = [s \in TxIds |-> IF s = t THEN SaidOf(row.status) ELSE SaidOf(tx[s].status)]
    BY <1>1, <2>2
  <2> QED
    BY <2>1, <2>3
<1>3. ASSUME UNCHANGED claimant
      PROVE  /\ Owner' = [Owner EXCEPT ![t] = OwnerOf(row.recovery.token, claimant[t])]
             /\ row.recovery.token = tx[t].recovery.token => Owner' = Owner
  BY <1>1, <1>3 DEF Owner, OwnerOf
<1> QED
  BY <1>2, <1>3

\* ... and the worker that takes a step.
LEMMA HandSeen ==
  ASSUME TypeOK, NEW w \in Workers, NEW p, worker' = [worker EXCEPT ![w] = p]
  PROVE  /\ Hand[w] = HandOf(worker[w])
         /\ Hand' = [Hand EXCEPT ![w] = HandOf(p)]
         /\ HandOf(p) = HandOf(worker[w]) => Hand' = Hand
<1>1. \A x \in Workers : worker'[x] = IF x = w THEN p ELSE worker[x]
  BY DEF TypeOK
<1> QED
  BY <1>1 DEF Hand, HandOf

\* What is said because the provider said so, or what is no end, may be said.
LEMMA SayingIsSound ==
  ASSUME TypeOK, NEW t \in TxIds, NEW v \in VendStatus, Sound(t, v)
  PROVE  /\ SaidOf(NormalizedFromVend(v)) \in {"open"} \cup Final
         /\ \/ SaidOf(NormalizedFromVend(v)) = "open"
            \/ truth[t] = SaidOf(NormalizedFromVend(v))
<1>1. truth[t] \in {"NONE", "ACCEPTED"} \cup Final
  BY DEF TypeOK, Truth
<1> QED
  BY <1>1 DEF SaidOf, NormalizedFromVend, Terminal, VendStatus, Sound

\* A worker that owns the row's lease is the owner the register knows.
LEMMA LeaseIsFence ==
  ASSUME TypeOK, TokenInv, NEW w \in Workers, Busy(w), OwnsLease(w)
  PROVE  Owner[worker[w].at] = w
<1>1. worker[w].token > 0 /\ worker[w].token \in Nat /\ worker[w].at \in TxIds
  BY Numbers DEF TokenInv
<1>2. claimant[worker[w].at] = w
  BY DEF TokenInv
<1> QED
  BY <1>1, <1>2 DEF Owner, OwnsLease

\* A step that writes neither a status, a token nor what a worker has in hand is
\* none of the register's.
LEMMA SameFence ==
  ASSUME TypeOK, UNCHANGED <<truth, claimant>>,
         \A t \in TxIds : /\ tx'[t].status = tx[t].status
                          /\ tx'[t].recovery.token = tx[t].recovery.token,
         \A w \in Workers : HandOf(worker'[w]) = HandOf(worker[w])
  PROVE  UNCHANGED <<truth, Said, Owner, Hand>>
<1>1. Said' = Said /\ Owner' = Owner
  BY DEF Said, Owner
<1>2. Hand' = Hand
  BY DEF Hand, HandOf
<1> QED
  BY <1>1, <1>2

\* Every step on the tables is one of the register's, or none.
LEMMA FencedNext ==
  FencedInv /\ [Next]_vars => [Fenced!Next]_<<truth, Said, Owner, Hand>>
<1> SUFFICES ASSUME FencedInv, [Next]_vars
             PROVE  [Fenced!Next]_<<truth, Said, Owner, Hand>>
  OBVIOUS
<1>0. TypeOK /\ TokenInv /\ TruthInv
  BY DEF FencedInv
<1>1. /\ \A w \in Workers : worker[w].at \in TxIds /\ worker[w].answer \in VendStatus
      /\ \A o \in Operators : operator[o].at \in TxIds /\ operator[o].answer \in VendStatus
      /\ \A t \in TxIds : tx[t] \in Row /\ tx[t].recovery \in RecoveryColumns
      /\ issued \in Nat
  BY <1>0, Numbers
<1>2. ASSUME NEW w \in Workers, NEW t \in TxIds, ClaimNextTransaction(w, t)
      PROVE  Fenced!Claim(w, t)
  <2>1. tx[t].status \notin Terminal
    BY <1>2 DEF ClaimNextTransaction, Recoverable, Unresolved, Open, Terminal
  <2>2. PICK row : /\ tx' = [tx EXCEPT ![t] = row]
                   /\ row.status = tx[t].status
                   /\ row.recovery.token = issued + 1
    <3> DEFINE columns == ClaimColumns(tx[t].recovery, issued + 1)
               row == [tx[t] EXCEPT !.recovery = columns]
    <3>1. tx' = [tx EXCEPT ![t] = row]
      BY <1>2 DEF ClaimNextTransaction
    <3>2. columns.token = issued + 1
      BY <1>1, ClaimedColumns
    <3> HIDE DEF columns
    <3>3. row.status = tx[t].status /\ row.recovery.token = issued + 1
      BY <1>1, <3>2 DEF Row
    <3> HIDE DEF row
    <3> QED
      BY <3>1, <3>3
  <2>3. Said' = Said /\ Said[t] = "open"
    BY <1>0, <2>1, <2>2, RowSeen DEF Said
  <2>4. Owner' = [Owner EXCEPT ![t] = w]
    <3>1. \A s \in TxIds : tx'[s] = IF s = t THEN row ELSE tx[s]
      BY <1>0, <2>2 DEF TypeOK
    <3>2. \A s \in TxIds : claimant'[s] = IF s = t THEN w ELSE claimant[s]
      BY <1>0, <1>2 DEF TypeOK, ClaimNextTransaction
    <3>3. issued + 1 # 0
      BY <1>1
    <3>4. Owner' = [s \in TxIds |-> IF tx'[s].recovery.token = 0 THEN Nobody ELSE claimant'[s]]
      BY DEF Owner
    <3>5. \A s \in TxIds : (IF tx'[s].recovery.token = 0 THEN Nobody ELSE claimant'[s])
                             = IF s = t THEN w ELSE Owner[s]
      BY <2>2, <3>1, <3>2, <3>3 DEF Owner
    <3>6. Owner' = [s \in TxIds |-> IF s = t THEN w ELSE Owner[s]]
      BY <3>4, <3>5
    <3>7. Owner = [s \in TxIds |-> Owner[s]]
      BY DEF Owner
    <3> HIDE DEF Owner
    <3> QED
      BY <3>6, <3>7
  <2>5. Hand[w] = {} /\ Hand' = [Hand EXCEPT ![w] = {t}]
    <3>1. worker' = [worker EXCEPT ![w] = Claim(t, issued + 1)] /\ worker[w].pc = "idle"
      BY <1>2 DEF ClaimNextTransaction
    <3>2. HandOf(Claim(t, issued + 1)) = {t} /\ HandOf(worker[w]) = {}
      BY <3>1 DEF HandOf, Claim
    <3> QED
      BY <1>0, <3>1, <3>2, HandSeen
  <2>6. UNCHANGED truth
    BY <1>2 DEF ClaimNextTransaction, environment
  <2> QED
    BY <2>3, <2>4, <2>5, <2>6 DEF Fenced!Claim
<1>3. ASSUME NEW w \in Workers, QueryProvider(w) \/ RecoveryFails(w)
      PROVE  UNCHANGED <<truth, Said, Owner, Hand>>
  <2>1. PICK p : /\ worker' = [worker EXCEPT ![w] = p]
                 /\ p.pc # "idle" /\ p.at = worker[w].at /\ worker[w].pc # "idle"
    <3>1. \A v : /\ Answered(worker[w], v).pc # "idle"
                 /\ Answered(worker[w], v).at = worker[w].at
      BY <1>0 DEF Answered, TypeOK, Party
    <3>2. Failing(worker[w]).pc # "idle" /\ Failing(worker[w]).at = worker[w].at
      BY <1>0 DEF Failing, TypeOK, Party
    <3> QED
      BY <1>3, <3>1, <3>2 DEF QueryProvider, RecoveryFails
  <2>2. HandOf(p) = HandOf(worker[w])
    BY <2>1 DEF HandOf
  <2>3. Hand' = Hand
    BY <1>0, <2>1, <2>2, HandSeen
  <2>4. UNCHANGED <<truth, tx, claimant>>
    BY <1>3 DEF QueryProvider, RecoveryFails, environment
  <2> QED
    BY <2>3, <2>4 DEF Said, Owner
<1>4. ASSUME NEW w \in Workers, Busy(w), worker' = [worker EXCEPT ![w] = Idle(worker[w].at)]
      PROVE  /\ Hand[w] = {worker[w].at}
             /\ Hand' = [Hand EXCEPT ![w] = {}]
  <2>1. HandOf(worker[w]) = {worker[w].at} /\ HandOf(Idle(worker[w].at)) = {}
    BY <1>4 DEF HandOf, Busy, Idle
  <2> QED
    BY <1>0, <1>4, <2>1, HandSeen
<1>5. ASSUME NEW w \in Workers, ApplyTransactionResolution(w)
      PROVE  \E v \in {"open"} \cup Final :
               Fenced!Resolve(w, worker[w].at, v) \/ Fenced!Leave(w, worker[w].at)
  <2> DEFINE t == worker[w].at
             v == SaidOf(NormalizedFromVend(worker[w].answer))
  <2>1. /\ Hand[w] = {t}
        /\ Hand' = [Hand EXCEPT ![w] = {}]
        /\ UNCHANGED <<truth, claimant>>
        /\ Busy(w)
    BY <1>4, <1>5 DEF ApplyTransactionResolution, Busy, environment
  <2>2. /\ v \in {"open"} \cup Final
        /\ v = "open" \/ truth[t] = v
    BY <1>0, <1>1, SayingIsSound DEF TruthInv
  <2>3. CASE OwnsLease(w) /\ tx' = [tx EXCEPT ![t] = Resolved(tx[t], worker[w].answer)]
    <3>1. /\ Resolved(tx[t], worker[w].answer).status = NormalizedFromVend(worker[w].answer)
          /\ Resolved(tx[t], worker[w].answer).recovery.token = 0
      BY <1>1, ResolvedRow
    <3>2. /\ Said' = [Said EXCEPT ![t] = v]
          /\ Owner' = [Owner EXCEPT ![t] = Nobody]
      <4> DEFINE row == Resolved(tx[t], worker[w].answer)
      <4>1. t \in TxIds /\ tx' = [tx EXCEPT ![t] = row] /\ UNCHANGED claimant
        BY <1>1, <2>1, <2>3
      <4>2. SaidOf(row.status) = v /\ OwnerOf(row.recovery.token, claimant[t]) = Nobody
        BY <3>1 DEF OwnerOf
      <4> HIDE DEF row, t, v
      <4> QED
        BY <1>0, <4>1, <4>2, RowSeen
    <3>3. Owner[t] = w
      BY <1>0, <2>1, <2>3, LeaseIsFence
    <3> HIDE DEF t, v
    <3>4. Fenced!Resolve(w, t, v)
      BY <2>1, <2>2, <3>2, <3>3 DEF Fenced!Resolve, Fenced!Say
    <3> QED
      BY <2>2, <3>4 DEF t
  <2>4. CASE UNCHANGED tx
    <3>1. Fenced!Leave(w, t)
      BY <2>1, <2>4 DEF Fenced!Leave, Said, Owner
    <3> QED
      BY <3>1
  <2> QED
    BY <1>5, <2>3, <2>4 DEF ApplyTransactionResolution
<1>6. ASSUME NEW w \in Workers, RecordTransactionRecoveryFailure(w)
      PROVE  Fenced!Leave(w, worker[w].at)
  <2> DEFINE t == worker[w].at
             columns == Released(tx[t].recovery, FALSE)
  <2>1. /\ Hand[w] = {t}
        /\ Hand' = [Hand EXCEPT ![w] = {}]
        /\ UNCHANGED <<truth, claimant>>
        /\ Busy(w)
    BY <1>4, <1>6 DEF RecordTransactionRecoveryFailure, Busy, environment
  <2>2. CASE OwnsLease(w) /\ tx' = [tx EXCEPT ![t] = [tx[t] EXCEPT !.recovery = columns]]
    <3> DEFINE row == [tx[t] EXCEPT !.recovery = columns]
    <3>1. columns.token = 0
      BY <1>1, ReleasedColumns
    <3>2. row.status = tx[t].status /\ row.recovery.token = 0
      BY <1>1, <3>1 DEF Row
    <3>3. /\ Said' = Said
          /\ Owner' = [Owner EXCEPT ![t] = Nobody]
      BY <1>0, <1>1, <2>1, <2>2, <3>2, RowSeen DEF OwnerOf
    <3>4. Owner[t] = w
      BY <1>0, <2>1, <2>2, LeaseIsFence
    <3> HIDE DEF t
    <3> QED
      BY <2>1, <3>3, <3>4 DEF Fenced!Leave, t
  <2>3. CASE UNCHANGED tx
    BY <2>1, <2>3 DEF Fenced!Leave, Said, Owner
  <2> QED
    BY <1>6, <2>2, <2>3 DEF RecordTransactionRecoveryFailure
<1>7. ASSUME NEW w \in Workers, Crash(w)
      PROVE  Fenced!Leave(w, worker[w].at)
  <2>1. /\ Hand[w] = {worker[w].at}
        /\ Hand' = [Hand EXCEPT ![w] = {}]
        /\ UNCHANGED <<truth, claimant, tx>>
    BY <1>4, <1>7 DEF Crash, Busy, environment
  <2> QED
    BY <2>1 DEF Fenced!Leave, Said, Owner
<1>8. ASSUME NEW t \in TxIds, NEW v \in VendStatus, Sound(t, v), NEW row,
             tx' = [tx EXCEPT ![t] = row],
             row.status = NormalizedFromVend(v),
             row.recovery.token = tx[t].recovery.token,
             UNCHANGED <<truth, worker, claimant>>
      PROVE  \E u \in {"open"} \cup Final : Fenced!Publish(t, u)
  <2> DEFINE u == SaidOf(NormalizedFromVend(v))
  <2>1. Said' = [Said EXCEPT ![t] = u] /\ Owner' = Owner
    <3>1. SaidOf(row.status) = u /\ UNCHANGED claimant
      BY <1>8
    <3> HIDE DEF u
    <3> QED
      BY <1>0, <1>8, <3>1, RowSeen
  <2>2. Hand' = Hand
    BY <1>8 DEF Hand
  <2>3. u \in {"open"} \cup Final /\ (u = "open" \/ truth[t] = u)
    BY <1>0, <1>8, SayingIsSound
  <2> HIDE DEF u
  <2> QED
    BY <1>8, <2>1, <2>2, <2>3 DEF Fenced!Publish, Fenced!Say
<1>9. ASSUME NEW o \in Operators, ApplyProviderResolution(o)
      PROVE  \E u \in {"open"} \cup Final : Fenced!Publish(operator[o].at, u)
  <2> DEFINE row == ManuallyResolved(tx[operator[o].at], operator[o].answer)
  <2>1. /\ row.status = NormalizedFromVend(operator[o].answer)
        /\ row.recovery.token = tx[operator[o].at].recovery.token
    BY <1>1, ManuallyResolvedRow
  <2>2. /\ tx' = [tx EXCEPT ![operator[o].at] = row]
        /\ UNCHANGED <<truth, worker, claimant>>
    BY <1>9 DEF ApplyProviderResolution, environment
  <2>3. Sound(operator[o].at, operator[o].answer)
    BY <1>0 DEF TruthInv
  <2> HIDE DEF row
  <2> QED
    BY <1>1, <1>8, <2>1, <2>2, <2>3
<1>10. ASSUME NEW t \in TxIds, NEW v \in VendStatus, RecordAndApplyWebhook(t, v)
       PROVE  \E u \in {"open"} \cup Final : Fenced!Publish(t, u)
  <2>1. PICK named \in BOOLEAN : tx' = [tx EXCEPT ![t] = Notified(tx[t], v, named)]
    BY <1>10 DEF RecordAndApplyWebhook
  <2>2. /\ Notified(tx[t], v, named).status = NormalizedFromVend(v)
        /\ Notified(tx[t], v, named).recovery.token = tx[t].recovery.token
    BY <1>1, NotifiedRow
  <2>3. Sound(t, v) /\ UNCHANGED <<truth, worker, claimant>>
    BY <1>0, <1>10 DEF RecordAndApplyWebhook, TruthInv
  <2> QED
    BY <1>8, <2>1, <2>2, <2>3
<1>11. ASSUME NEW t \in TxIds, LeaseExpires(t) \/ BecomesDue(t)
       PROVE  UNCHANGED <<truth, Said, Owner, Hand>>
  <2>1. PICK columns : /\ tx' = [tx EXCEPT ![t] = [tx[t] EXCEPT !.recovery = columns]]
                       /\ columns.token = tx[t].recovery.token
    <3>1. /\ [tx[t].recovery EXCEPT !.lease = "expired"].token = tx[t].recovery.token
          /\ [tx[t].recovery EXCEPT !.due = TRUE].token = tx[t].recovery.token
      BY <1>1 DEF RecoveryColumns
    <3> QED
      BY <1>11, <3>1 DEF LeaseExpires, BecomesDue
  <2>2. \A s \in TxIds : /\ tx'[s].status = tx[s].status
                         /\ tx'[s].recovery.token = tx[s].recovery.token
    BY <1>0, <1>1, <2>1 DEF TypeOK, Row
  <2>3. UNCHANGED <<truth, worker, claimant>>
    BY <1>11 DEF LeaseExpires, BecomesDue, environment
  <2> QED
    BY <1>0, <2>2, <2>3, SameFence
<1>12. ASSUME NEW t \in TxIds, ProviderMoves(t) PROVE Fenced!Move(t)
  BY <1>12 DEF ProviderMoves, Truth, Fenced!Move, Said, Owner, Hand
<1>13. CASE UNCHANGED <<tx, truth, worker, claimant>>
  BY <1>13 DEF Said, Owner, Hand
<1>14. \/ UNCHANGED <<tx, truth, worker, claimant>>
       \/ \E w \in Workers, t \in TxIds : ClaimNextTransaction(w, t)
       \/ \E w \in Workers : \/ QueryProvider(w) \/ RecoveryFails(w) \/ Crash(w)
                             \/ ApplyTransactionResolution(w) \/ RecordTransactionRecoveryFailure(w)
       \/ \E o \in Operators : ApplyProviderResolution(o)
       \/ \E t \in TxIds, v \in VendStatus : RecordAndApplyWebhook(t, v)
       \/ \E t \in TxIds : LeaseExpires(t) \/ BecomesDue(t) \/ ProviderMoves(t)
  BY DEF Next, WorkerStep, OperatorStep, StartQuery, ManualAnswer, ManualFails,
     RunRecoveryEscalations, ProviderNotifies, ConnectorChanges, environment, vars
<1> QED
  BY <1>1, <1>2, <1>3, <1>5, <1>6, <1>7, <1>9, <1>10, <1>11, <1>12, <1>13, <1>14
  DEF Fenced!Next

\* For any number of workers, rows and operators: recovery implements the register,
\* in which a worker speaks only as the owner and what is said to be the end of a
\* vend is so.
THEOREM WritersAreFencedCorrect == Spec => WritersAreFenced
<1>1. Init => Fenced!Init
  <2> SUFFICES ASSUME Init PROVE Fenced!Init
    OBVIOUS
  <2>1. \A t \in TxIds : tx[t].status \notin Terminal /\ tx[t].recovery.token = 0
    BY RowsAtStart DEF NoRecovery
  <2>2. \A w \in Workers : worker[w].pc = "idle"
    BY DEF Init, Idle
  <2>3. truth \in [TxIds -> {"NONE", "ACCEPTED"} \cup Final]
    BY DEF Init, Truth
  <2> QED
    BY <2>1, <2>2, <2>3 DEF Fenced!Init, Said, Owner, Hand
<1>2. FencedInv /\ [Next]_vars => [Fenced!Next]_<<truth, Said, Owner, Hand>>
  BY FencedNext
<1> QED
  BY <1>1, <1>2, FencedCorrect, PTL DEF Spec, WritersAreFenced, Fenced!Spec

=============================================================================
