--------------------------- MODULE Reconciliation ---------------------------
(***************************************************************************)
(* Reconciliation beside settlement: exceptions for transactions that are  *)
(* paid and not fulfilled, whose refund is outstanding, or that are        *)
(* fulfilled and not settled.                                              *)
(*                                                                         *)
(* A call inserts the exceptions it finds by three statements of one       *)
(* database transaction, and closes those whose condition no longer holds  *)
(* by one statement of another.  The two conditions are written twice, in  *)
(* two files.  At most one open exception exists of a type for a           *)
(* transaction: a statement that meets one does nothing, and one that      *)
(* meets one not yet committed waits for it.                               *)
(*                                                                         *)
(* payment_status is 'SUCCESS' of every transaction; a day is the unit of  *)
(* graceMinutes as well; all transactions were created on day 0.           *)
(***************************************************************************)
EXTENDS Settlement

CONSTANTS
  Calls,       \* requests that run a reconciliation
  Graces,      \* days of grace they may ask for
  Principals,  \* who may ask: of the transactions' tenant, and platform administrator
  MaxStarts    \* bound: calls and synchronisations that are started

Principal == [owner : BOOLEAN, isPlatformAdmin : BOOLEAN]

ASSUME ReconciliationAssumption ==
  /\ Graces \subseteq Nat
  /\ Principals \subseteq Principal
  /\ MaxStarts \in Nat

VARIABLES
  open,  \* open rows of reconciliation_exceptions
  call   \* each call

vars == <<settlementVars, open, call>>

\* In the order of the statements.
Types == <<"PAID_NOT_FULFILLED", "REFUND_PENDING_TOO_LONG", "FULFILLED_NOT_SETTLED">>
Type == {Types[i] : i \in 1..3}
Exception == Transactions \X Type

\* at: the statement under way.  selected: what its SELECT has found.  inserted: written
\* and not yet committed.  found: history, what the call has found of the transactions
\* that have not changed since.
Call ==
  [pc : {"idle", "select", "insert", "commit", "resolve", "over"}, principal : Principal,
   grace : Graces \cup {0}, at : 1..3, selected : SUBSET Exception, inserted : SUBSET Exception,
   found : SUBSET Exception]

NewCall ==
  [pc |-> "idle", principal |-> [owner |-> TRUE, isPlatformAdmin |-> FALSE], grace |-> 0,
   at |-> 1, selected |-> {}, inserted |-> {}, found |-> {}]

TypeOK ==
  /\ SettlementTypeOK
  /\ open \subseteq Exception
  /\ call \in [Calls -> Call]

-----------------------------------------------------------------------------
(* The two conditions. *)

Quiet(row) == row.touched < now

Outstanding(row) ==
  row.refundRequired /\ row.refundStatus \in {"NULL", "PENDING", "UNKNOWN", "REQUESTED", "PARTIAL", "FAILED"}

Unsettled(row) ==
  row.vend = "FULFILLED" /\ row.status # "REFUNDED" /\ ~ row.blocked /\ ~ row.settled

\* runReconciliation
Exposed(row, type, grace) ==
  CASE type = "PAID_NOT_FULFILLED" ->
         row.vend # "FULFILLED" /\ row.status # "REFUNDED" /\ now > grace
    [] type = "REFUND_PENDING_TOO_LONG" -> Outstanding(row) /\ Quiet(row)
    [] type = "FULFILLED_NOT_SETTLED" -> Unsettled(row) /\ Quiet(row)

\* Mutant of StillExposed: a refund that failed is no longer pending.
FailureClears(row, type, grace) ==
  Exposed(row, type, grace) /\ ~ (type = "REFUND_PENDING_TOO_LONG" /\ row.refundStatus = "FAILED")

\* resolveClearedReconciliationExceptions
StillExposed(row, type, grace) ==
  \/ type = "PAID_NOT_FULFILLED"
       /\ row.vend # "FULFILLED" /\ row.status # "REFUNDED" /\ now > grace
  \/ type = "REFUND_PENDING_TOO_LONG"
       /\ row.refundRequired
       /\ row.refundStatus \in {"NULL", "PENDING", "UNKNOWN", "REQUESTED", "PARTIAL", "FAILED"}
       /\ Quiet(row)
  \/ type = "FULFILLED_NOT_SETTLED"
       /\ row.vend = "FULFILLED" /\ row.status # "REFUNDED" /\ ~ row.blocked /\ ~ row.settled
       /\ Quiet(row)

-----------------------------------------------------------------------------
(* A call. *)

Started == Cardinality({c \in Calls : call[c].pc # "idle"} \cup {h \in Syncs : sync[h].pc # "idle"})

\* Row level security: a platform administrator sees every tenant.
Sees(c) == call[c].principal.isPlatformAdmin \/ call[c].principal.owner

StartReconciliation(c, principal, grace) ==
  /\ call[c].pc = "idle"
  /\ Started < MaxStarts
  /\ call' = [call EXCEPT ![c] = [NewCall EXCEPT !.pc = "select", !.principal = principal,
                                                 !.grace = grace]]
  /\ UNCHANGED <<settlementVars, open>>

SelectExposed(c) ==
  LET type == Types[call[c].at]
      exposed == {t \in Transactions : Sees(c) /\ Exposed(transaction[t], type, call[c].grace)}
  IN  /\ call[c].pc = "select"
      /\ call' = [call EXCEPT ![c].pc = "insert", ![c].selected = exposed \X {type},
                              ![c].found = @ \cup (exposed \X {type})]
      /\ UNCHANGED <<settlementVars, open>>

Others(c) == UNION {call[d].inserted : d \in Calls \ {c}}

\* Mutant of MayInsert: a row that is not committed is as good as one that is.
WithoutWaiting(c) == TRUE

MayInsert(c) == call[c].selected \cap Others(c) = {}

\* ON CONFLICT DO NOTHING
InsertExceptions(c) ==
  /\ call[c].pc = "insert"
  /\ MayInsert(c)
  /\ call' = [call EXCEPT
       ![c].inserted = @ \cup (call[c].selected \ (open \cup Others(c))), ![c].selected = {},
       ![c].pc = IF call[c].at = 3 THEN "commit" ELSE "select",
       ![c].at = IF @ = 3 THEN 1 ELSE @ + 1]
  /\ UNCHANGED <<settlementVars, open>>

CommitReconciliation(c) ==
  /\ call[c].pc = "commit"
  /\ open' = open \cup call[c].inserted
  /\ call' = [call EXCEPT ![c].pc = "resolve", ![c].inserted = {}]
  /\ UNCHANGED settlementVars

Ended(c) == [NewCall EXCEPT !.pc = "over", !.grace = call[c].grace, !.found = call[c].found]

\* Only those of the caller's own tenant.
ResolveCleared(c) ==
  /\ call[c].pc = "resolve"
  /\ open' = {e \in open :
       call[c].principal.owner => StillExposed(transaction[e[1]], e[2], call[c].grace)}
  /\ call' = [call EXCEPT ![c] = Ended(c)]
  /\ UNCHANGED settlementVars

\* An error, a deadlock, or the end of the process.
AbandonCall(c) ==
  /\ call[c].pc \notin {"idle", "over"}
  /\ call' = [call EXCEPT ![c] = Ended(c)]
  /\ UNCHANGED <<settlementVars, open>>

-----------------------------------------------------------------------------

Init ==
  /\ SettlementInit
  /\ open = {}
  /\ call = [c \in Calls |-> NewCall]

\* What a call has found of a transaction that changes is forgotten.
SettlementStep ==
  /\ \/ OthersStep
     \/ \E h \in Syncs : SyncStep(h)
     \/ /\ Started < MaxStarts
        /\ \E h \in Syncs, report \in Reports : FetchProviderSettlements(h, report)
  /\ UNCHANGED open
  /\ call' = [c \in Calls |->
       [call[c] EXCEPT !.found = {e \in call[c].found : transaction'[e[1]] = transaction[e[1]]}]]

\* now() is the time at which a database transaction began: no day passes within one.
Day ==
  /\ \A c \in Calls : call[c].pc \notin {"select", "insert", "commit"}
  /\ \A h \in Syncs : sync[h].pc \notin {"match", "link", "settle"}
  /\ DayPasses
  /\ UNCHANGED <<open, call>>

CallStep(c) ==
  \/ \E principal \in Principals, grace \in Graces : StartReconciliation(c, principal, grace)
  \/ SelectExposed(c) \/ InsertExceptions(c) \/ CommitReconciliation(c)
  \/ ResolveCleared(c) \/ AbandonCall(c)

Next == SettlementStep \/ Day \/ \E c \in Calls : CallStep(c)

Spec == Init /\ [][Next]_vars

-----------------------------------------------------------------------------
(* Properties. *)

\* A longer grace than the one the exception was found with.
Forgiving(c, d, e) == e[2] = "PAID_NOT_FULFILLED" /\ call[c].grace > call[d].grace

\* A call closes what another has found only if the transaction has changed since, or the
\* call allows a longer grace: the condition that closes never disagrees with the one
\* that opens, whichever statements run in between.
ClosedOnlyOnChange ==
  [][\A c, d \in Calls : \A e \in (open \ open') \cap call[d].found :
       call[c].pc = "resolve" /\ call'[c].pc = "over" => Forgiving(c, d, e)]_vars

\* When a call has committed, what it found of a transaction that has not changed since
\* is open, though another call had the row and gave it up, or came between; a call that
\* allows a longer grace may have closed it.
NothingMissed ==
  [][\A c \in Calls : call[c].pc = "commit" /\ call'[c].pc = "resolve" =>
       \A e \in call[c].found : e \in open' \/ \E d \in Calls : Forgiving(d, c, e)]_vars

=============================================================================
