----------------------------- MODULE Settlement -----------------------------
(***************************************************************************)
(* The settlements a provider reports, and the transactions they settle.   *)
(*                                                                         *)
(* A synchronisation asks the provider for its settlements, stores them in *)
(* one database transaction, and matches the references they list with the *)
(* tenant's transactions in another: for every reference it looks for the  *)
(* only eligible transaction, links it, and settles it when the stored     *)
(* settlement is complete, by an UPDATE that looks at nothing but the id.  *)
(* Refunds, the provider's events and other synchronisations write the     *)
(* same rows in between, as far as the row locks let them: a link locks    *)
(* its transaction against requestRefund's SELECT FOR UPDATE (the foreign  *)
(* key, FOR KEY SHARE), an UPDATE locks it against every writer.           *)
(*                                                                         *)
(* One tenant, provider, connector and currency: every query fixes them.   *)
(* Who else writes transactions is here by what it writes: Refunds and     *)
(* ProviderRecovery have the details.  A transaction has at most one       *)
(* refund.                                                                 *)
(***************************************************************************)
EXTENDS CanonicalModels, FiniteSets

CONSTANTS
  Transactions,   \* transactions the provider has given a reference
  References,     \* the provider's references
  ReferenceOf,    \* transactions.provider_transaction_id
  Settlements,    \* the provider's settlement ids
  Reports,        \* what the provider may answer, settlement id by settlement id
  Syncs,          \* requests that synchronise settlements
  Outcomes,       \* bound: what providers answer about refunds
  MaxTime,        \* bound: days that pass
  Nothing         \* no transaction, no settlement

Line == [complete : BOOLEAN, references : SUBSET References]

ASSUME SettlementAssumption ==
  /\ ReferenceOf \in [Transactions -> References]
  /\ \A report \in Reports : \E S \in SUBSET Settlements : report \in [S -> Line]
  /\ Outcomes \subseteq {"pending", "unknown", "failed", "part", "whole"}
  /\ MaxTime \in Nat
  /\ Nothing \notin Transactions \cup Settlements

VARIABLES
  now,          \* the clock, in days
  transaction,  \* transactions
  refund,       \* what has become of each transaction's refund
  settlement,   \* provider_settlements.provider_status: is it a complete one
  links,        \* settlement_transaction_links
  sync,         \* each synchronisation
  caught,       \* history: transactions put on hold while a synchronisation was at them
  mixed         \* history: synchronisations whose settlements another one overwrote

settlementVars == <<now, transaction, refund, settlement, links, sync, caught, mixed>>

\* settled: settlement_status = 'SETTLED'.  touched: the day of updated_at.
Transaction ==
  [status : TransactionStatus, vend : VendStatus, refundRequired : BOOLEAN, blocked : BOOLEAN,
   refundStatus : {"NULL", "REQUESTED", "PENDING", "UNKNOWN", "FAILED", "PARTIAL", "COMPLETED"},
   settled : BOOLEAN, touched : Nat]

Refund == {"none", "requested", "pending", "unknown", "failed", "part", "whole"}

\* lines: settlements still to be matched.  line, complete, todo: the one under way, its
\* status when it was read, and the references left.  chosen: the transaction at hand.
\* linked, settling: what is written and not yet committed.
Sync ==
  [pc : {"idle", "upsert", "match", "link", "settle", "over"},
   report : Reports \cup {<<>>}, lines : SUBSET Settlements, line : Settlements \cup {Nothing},
   complete : BOOLEAN, todo : SUBSET References, chosen : Transactions \cup {Nothing},
   linked : SUBSET (Settlements \X Transactions), settling : SUBSET Transactions]

NewSync ==
  [pc |-> "idle", report |-> <<>>, lines |-> {}, line |-> Nothing, complete |-> FALSE,
   todo |-> {}, chosen |-> Nothing, linked |-> {}, settling |-> {}]

SettlementTypeOK ==
  /\ now \in 0..MaxTime
  /\ transaction \in [Transactions -> Transaction]
  /\ refund \in [Transactions -> Refund]
  /\ settlement \in [Settlements -> {"absent", "open", "complete"}]
  /\ links \subseteq Settlements \X Transactions
  /\ sync \in [Syncs -> Sync]
  /\ caught \subseteq Transactions
  /\ mixed \subseteq Syncs

-----------------------------------------------------------------------------
(* Row locks. *)

\* An UPDATE of a synchronisation under way.
Written(t) == \E h \in Syncs : t \in sync[h].settling

\* Its foreign key.
Referenced(t) == \E h \in Syncs, s \in Settlements : <<s, t>> \in sync[h].linked

-----------------------------------------------------------------------------
(* Those who write transactions. *)

At(h, t) == sync[h].chosen = t

Touch(t, row) ==
  /\ ~ Written(t)
  /\ transaction' = [transaction EXCEPT ![t] = [row EXCEPT !.touched = now]]
  /\ caught' = IF row.blocked /\ ~ transaction[t].blocked /\ (\E h \in Syncs : At(h, t))
               THEN caught \cup {t} ELSE caught

\* The provider reports the outcome of the vend, once or again.  An event repeated while
\* the refund of a delivered vend has failed puts the transaction on hold again.
ReportVend(t, v) ==
  LET row == transaction[t]
  IN  /\ v = row.vend \/ row.vend = "UNKNOWN"
      /\ Touch(t, IF row.status \in {"REFUND_PENDING", "REFUNDED"}
                  THEN [row EXCEPT !.vend = v, !.blocked = row.status = "REFUND_PENDING"]
                  ELSE WithOutcome(row, v))
      /\ UNCHANGED <<now, refund, settlement, links, sync, mixed>>

\* requestRefund; synchronisations between their SELECT and their first lock miss it.
RequestRefund(t) ==
  /\ refund[t] = "none"
  /\ transaction[t].vend \in {"FULFILLED", "FAILED", "CANCELLED"}
  /\ transaction[t].status \notin {"UNKNOWN", "TIMED_OUT"}
  /\ ~ Referenced(t)
  /\ Touch(t, [transaction[t] EXCEPT !.refundStatus = "REQUESTED", !.refundRequired = TRUE,
                                     !.status = "REFUND_PENDING", !.blocked = TRUE])
  /\ refund' = [refund EXCEPT ![t] = "requested"]
  /\ UNCHANGED <<now, settlement, links, sync, mixed>>

\* Mutant of Recalculated: the outcome is stored as it came.
OutcomeAsStatus(row, outcome) == [row EXCEPT !.refundStatus = outcome]

\* The parent's columns from the outcome of its only refund.
Recalculated(row, outcome) ==
  LET owed == NeedsFullRefund(row.vend)
      open == outcome \in {"pending", "unknown"}
      required == outcome # "whole" /\ (owed \/ open \/ outcome = "failed")
  IN  [row EXCEPT
         !.refundStatus = CASE outcome = "pending" -> "PENDING"
                            [] outcome = "unknown" -> "UNKNOWN"
                            [] outcome = "failed" -> "FAILED"
                            [] outcome = "part" -> "PARTIAL"
                            [] outcome = "whole" -> "COMPLETED",
         !.status = IF outcome = "whole" THEN "REFUNDED"
                    ELSE IF required THEN "REFUND_PENDING"
                    ELSE IF row.vend = "FULFILLED" THEN "FULFILLED" ELSE row.status,
         !.refundRequired = required,
         !.blocked = outcome # "whole" /\ (owed \/ open)]

RecordRefundResult(t, outcome) ==
  /\ refund[t] \in {"requested", "pending", "unknown"}
  /\ refund' = [refund EXCEPT ![t] = outcome]
  /\ Touch(t, Recalculated(transaction[t], outcome))
  /\ UNCHANGED <<now, settlement, links, sync, mixed>>

DayPasses ==
  /\ now < MaxTime
  /\ now' = now + 1
  /\ UNCHANGED <<transaction, refund, settlement, links, sync, caught, mixed>>

-----------------------------------------------------------------------------
(* The synchronisation. *)

\* fetchProviderSettlements
FetchProviderSettlements(h, report) ==
  /\ sync[h].pc = "idle"
  /\ sync' = [sync EXCEPT ![h] = [NewSync EXCEPT !.pc = "upsert", !.report = report]]
  /\ UNCHANGED <<now, transaction, refund, settlement, links, caught, mixed>>

\* upsertSettlementsTenantSafe.  A settlement without references is not matched.
UpsertSettlements(h) ==
  LET report == sync[h].report
      Overwritten(g) == g # h /\ sync[g].lines \cap DOMAIN report # {}
  IN  /\ sync[h].pc = "upsert"
      /\ settlement' = [s \in Settlements |->
           IF s \notin DOMAIN report THEN settlement[s]
           ELSE IF report[s].complete THEN "complete" ELSE "open"]
      /\ sync' = [sync EXCEPT ![h].pc = "match",
                              ![h].lines = {s \in DOMAIN report : report[s].references # {}}]
      /\ mixed' = mixed \cup {g \in Syncs : Overwritten(g)}
      /\ UNCHANGED <<now, transaction, refund, links, caught>>

\* Mutant of Complete: any status settles.
AnyStatus(s) == settlement[s] # "absent"

Complete(s) == settlement[s] = "complete"

ReadSettlement(h, s) ==
  /\ sync[h].pc = "match"
  /\ sync[h].todo = {}
  /\ s \in sync[h].lines
  /\ sync' = [sync EXCEPT ![h].lines = @ \ {s}, ![h].line = s, ![h].complete = Complete(s),
                          ![h].todo = sync[h].report[s].references]
  /\ UNCHANGED <<now, transaction, refund, settlement, links, caught, mixed>>

\* Mutant of Eligible: transactions on hold too.
EvenIfHeld(t) == transaction[t].vend = "FULFILLED"

Eligible(t) == transaction[t].vend = "FULFILLED" /\ ~ transaction[t].blocked

\* Only one transaction may match.
MatchReference(h, reference) ==
  LET matches == {t \in Transactions : ReferenceOf[t] = reference /\ Eligible(t)}
  IN  /\ sync[h].pc = "match"
      /\ reference \in sync[h].todo
      /\ \/ /\ Cardinality(matches) # 1
            /\ sync' = [sync EXCEPT ![h].todo = @ \ {reference}]
         \/ \E t \in Transactions :
              /\ matches = {t}
              /\ sync' = [sync EXCEPT ![h].todo = @ \ {reference}, ![h].chosen = t,
                                      ![h].pc = "link"]
      /\ UNCHANGED <<now, transaction, refund, settlement, links, caught, mixed>>

\* ON CONFLICT DO NOTHING: a link that is there locks nothing, and one that another
\* synchronisation has written is waited for.
LinkTransaction(h) ==
  LET link == <<sync[h].line, sync[h].chosen>>
  IN  /\ sync[h].pc = "link"
      /\ \A g \in Syncs \ {h} : link \notin sync[g].linked
      /\ sync' = [sync EXCEPT
           ![h].linked = IF link \in links THEN @ ELSE @ \cup {link},
           ![h].pc = IF sync[h].complete THEN "settle" ELSE "match",
           ![h].chosen = IF sync[h].complete THEN @ ELSE Nothing]
      /\ UNCHANGED <<now, transaction, refund, settlement, links, caught, mixed>>

\* The row is locked from here on, so that what the UPDATE makes of it can be left to the
\* commit.
SettleTransaction(h) ==
  /\ sync[h].pc = "settle"
  /\ \A g \in Syncs \ {h} : sync[h].chosen \notin sync[g].settling
  /\ sync' = [sync EXCEPT ![h].settling = @ \cup {sync[h].chosen}, ![h].chosen = Nothing,
                          ![h].pc = "match"]
  /\ UNCHANGED <<now, transaction, refund, settlement, links, caught, mixed>>

\* Mutant of SettledRow: whatever the status was.
StatusSettled(row) == [row EXCEPT !.settled = TRUE, !.status = "SETTLED", !.touched = now]

SettledRow(row) ==
  [row EXCEPT !.settled = TRUE, !.touched = now,
              !.status = IF row.status = "FULFILLED" THEN "SETTLED" ELSE row.status]

CommitMatches(h) ==
  /\ sync[h].pc = "match"
  /\ sync[h].todo = {} /\ sync[h].lines = {}
  /\ transaction' = [t \in Transactions |->
       IF t \in sync[h].settling THEN SettledRow(transaction[t]) ELSE transaction[t]]
  /\ links' = links \cup sync[h].linked
  /\ sync' = [sync EXCEPT ![h] = [NewSync EXCEPT !.pc = "over", !.report = sync[h].report]]
  /\ UNCHANGED <<now, refund, settlement, caught, mixed>>

\* An error, a deadlock, or the end of the process; what is not committed is undone.
AbandonSync(h) ==
  /\ sync[h].pc \notin {"idle", "over"}
  /\ sync' = [sync EXCEPT ![h] = [NewSync EXCEPT !.pc = "over", !.report = sync[h].report]]
  /\ UNCHANGED <<now, transaction, refund, settlement, links, caught, mixed>>

-----------------------------------------------------------------------------

\* Vends whose outcome is unknown.
SettlementInit ==
  /\ now = 0
  /\ transaction = [t \in Transactions |->
       [status |-> "UNKNOWN", vend |-> "UNKNOWN", refundRequired |-> FALSE, blocked |-> TRUE,
        refundStatus |-> "NULL", settled |-> FALSE, touched |-> 0]]
  /\ refund = [t \in Transactions |-> "none"]
  /\ settlement = [s \in Settlements |-> "absent"]
  /\ links = {}
  /\ sync = [h \in Syncs |-> NewSync]
  /\ caught = {}
  /\ mixed = {}

OthersStep ==
  \E t \in Transactions :
    \/ \E v \in {"FULFILLED", "FAILED"} : ReportVend(t, v)
    \/ RequestRefund(t)
    \/ \E outcome \in Outcomes : RecordRefundResult(t, outcome)

SyncStep(h) ==
  \/ UpsertSettlements(h)
  \/ \E s \in Settlements : ReadSettlement(h, s)
  \/ \E reference \in References : MatchReference(h, reference)
  \/ LinkTransaction(h) \/ SettleTransaction(h) \/ CommitMatches(h) \/ AbandonSync(h)

-----------------------------------------------------------------------------
(* Properties. *)

\* A transaction is settled only through a settlement that a synchronisation found to
\* list its reference and to be complete: by what that synchronisation was told itself,
\* or, if another one stored something else about the same settlement before it read the
\* status, by what the two were told.
SettledAsReported ==
  \A t \in Transactions : transaction[t].settled =>
    \E h, g \in Syncs :
      /\ g = h \/ h \in mixed
      /\ \E s \in DOMAIN sync[h].report \cap DOMAIN sync[g].report :
           /\ <<s, t>> \in links
           /\ ReferenceOf[t] \in sync[h].report[s].references
           /\ sync[g].report[s].complete

\* normalized_status says SETTLED only of a delivered transaction that nothing holds and no
\* refund is due for, although the UPDATE that says so does not look at the hold.
SettledIsFree ==
  \A t \in Transactions : transaction[t].status = "SETTLED" =>
    /\ transaction[t].settled
    /\ transaction[t].vend = "FULFILLED"
    /\ ~ transaction[t].blocked
    /\ ~ transaction[t].refundRequired

\* The first settlement of a transaction never meets a hold, unless the hold came after the
\* SELECT of a synchronisation: by a refund requested before its first lock, or by an event
\* of the provider before its UPDATE.
HeldIsNotSettled ==
  [][\A t \in Transactions :
       ~ transaction[t].settled /\ transaction'[t].settled /\ t \notin caught =>
         ~ transaction[t].blocked]_settlementVars

=============================================================================
