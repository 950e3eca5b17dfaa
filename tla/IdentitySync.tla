--------------------------- MODULE IdentitySync ---------------------------
(***************************************************************************)
(* syncCustomerIdentity and syncIdentityProviderCapabilities: the messages *)
(* of the identity sources, late, repeated, contradictory and concurrent,  *)
(* merged into the tables.                                                 *)
(*                                                                         *)
(* Both functions are one database transaction at READ COMMITTED with      *)
(* several statements per item, and here each statement is an action: take *)
(* an advisory lock for the item's row, SELECT the row, decide, INSERT ...  *)
(* ON CONFLICT DO UPDATE.  What a transaction wrote is seen by itself only *)
(* until it commits.  Locks are held to its end, and a transaction that    *)
(* takes several of them takes them in the order of the message.           *)
(*                                                                         *)
(* PostgreSQL is external: advisory locks are reentrant, an upsert waits   *)
(* for a transaction that wrote the same row, the end of a transaction or  *)
(* of its connection releases everything, and of transactions that wait    *)
(* for each other one is rolled back.  That two lock names may share a     *)
(* hash (hashtext) only makes more of them wait.                           *)
(***************************************************************************)
EXTENDS IdentityModels

CONSTANTS
  Handlers,  \* requests being served
  Nobody     \* the holder of a lock that is free

VARIABLES
  stored,   \* customers and identity_provider_capabilities, as committed
  holder,   \* who holds the advisory lock of each row
  session   \* what each handler's transaction is doing

vars == <<stored, holder, session>>

\* The promise to be kept.
Register == INSTANCE IdentityRegister WITH register <- stored

ASSUME NobodyAssumption == Nobody \notin Handlers

\* message: the request; at: the item at hand; before: what the SELECT found;
\* touched: the rows the transaction has written so far; written: what is in them now.
Session == [pc : {"idle", "lock", "read", "decide", "commit"},
            message : Messages \cup {<<>>}, at : Nat, before : Row,
            touched : SUBSET Keys, written : [Keys -> Row]]

NoRow == [time |-> 0, data |-> NoCoverage]

NoSession == [pc |-> "idle", message |-> <<>>, at |-> 0, before |-> NoRow,
              touched |-> {}, written |-> [k \in Keys |-> NoRow]]

TypeOK ==
  /\ stored \in [Keys -> Row]
  /\ holder \in [Keys -> Handlers \cup {Nobody}]
  /\ session \in [Handlers -> Session]

Init ==
  /\ stored \in FirstRows
  /\ holder = [k \in Keys |-> Nobody]
  /\ session = [h \in Handlers |-> NoSession]

-----------------------------------------------------------------------------
Item(h) == session[h].message[session[h].at]

\* A row as the transaction of h sees it.
Visible(h, key) ==
  IF key \in session[h].touched THEN session[h].written[key] ELSE stored[key]

\* A transaction ends: its session is over and its locks are free.
Over(h) ==
  /\ session' = [session EXCEPT ![h] = NoSession]
  /\ holder' = [k \in Keys |-> IF holder[k] = h THEN Nobody ELSE holder[k]]

\* Mutant of Rollback: the connection goes back to the pool as it is.
ReleaseOnly(h) == session' = [session EXCEPT ![h] = NoSession] /\ UNCHANGED <<stored, holder>>

\* withTenantContext rolls back what a thrown error leaves.
Rollback(h) == Over(h) /\ UNCHANGED stored

\* Mutant of Proceed: a transaction for each item.
ProceedItemwise(h, touched, written) ==
  /\ LET next == session[h].at + 1
     IN session' = [session EXCEPT
          ![h] = [@ EXCEPT !.pc = IF next <= Len(session[h].message) THEN "lock" ELSE "commit",
                           !.at = next, !.before = NoRow]]
  /\ stored' = [k \in Keys |-> IF k \in touched THEN written[k] ELSE stored[k]]
  /\ holder' = [k \in Keys |-> IF holder[k] = h THEN Nobody ELSE holder[k]]

\* From the item at hand to the next one, or to the end of the message.
Proceed(h, touched, written) ==
  /\ LET next == session[h].at + 1
     IN session' = [session EXCEPT
          ![h] = [@ EXCEPT !.pc = IF next <= Len(session[h].message) THEN "lock" ELSE "commit",
                           !.at = next, !.before = NoRow,
                           !.touched = touched, !.written = written]]
  /\ UNCHANGED <<stored, holder>>

\* Mutant of Skip: return instead of continue.
EndEarly(h) ==
  /\ session' = [session EXCEPT ![h].pc = "commit"]
  /\ UNCHANGED <<stored, holder>>

\* The same with nothing to write.
Skip(h) == Proceed(h, session[h].touched, session[h].written)

-----------------------------------------------------------------------------
\* A request arrives; the source may send the same again at any time.  A message without
\* items has nothing to do.
Receive(h, m) ==
  /\ session[h].pc = "idle"
  /\ session' = [session EXCEPT
       ![h] = [NoSession EXCEPT !.pc = IF m = <<>> THEN "commit" ELSE "lock",
                                !.message = m, !.at = 1]]
  /\ UNCHANGED <<stored, holder>>

\* Mutant of LockIsFree: no advisory lock.
NoLock(h, key) == TRUE

LockIsFree(h, key) == holder[key] \in {h, Nobody}

Lock(h) ==
  /\ session[h].pc = "lock"
  /\ LockIsFree(h, Item(h).key)
  /\ holder' = [holder EXCEPT ![Item(h).key] = h]
  /\ session' = [session EXCEPT ![h].pc = "read"]
  /\ UNCHANGED stored

Read(h) ==
  /\ session[h].pc = "read"
  /\ session' = [session EXCEPT ![h].pc = "decide", ![h].before = Visible(h, Item(h).key)]
  /\ UNCHANGED <<stored, holder>>

\* What the row is to become, merged with what the SELECT found.
Wanted(h) == Effective(session[h].before, Item(h))

\* Mutant of Unevidenced: the stored row is validated, not the merged one.
StoredUnevidenced(h) == ~ Valid(Item(h).key, session[h].before)

Unevidenced(h) == ~ Valid(Item(h).key, Wanted(h))

\* A row that says what is wanted already is left alone; one that is newer, or of the
\* same time and different, is an error.
Settle(h, row) ==
  IF row = Wanted(h) THEN Skip(h) ELSE Rollback(h)

\* Nobody else has written the row and not committed yet.
RowFree(h, key) == \A g \in Handlers \ {h} : key \notin session[g].touched

\* The upsert looks at the time in the table once more (WHERE ... > ...) and, if nothing
\* was written, so does the statement after it.
Upsert(h) ==
  LET key == Item(h).key
  IN /\ RowFree(h, key)
     /\ IF Item(h).time > Visible(h, key).time
        THEN Proceed(h, session[h].touched \cup {key},
                     [session[h].written EXCEPT ![key] = Wanted(h)])
        ELSE Settle(h, Visible(h, key))

Decide(h) ==
  /\ session[h].pc = "decide"
  /\ IF Unevidenced(h) THEN Rollback(h)
     ELSE IF Item(h).time <= session[h].before.time THEN Settle(h, session[h].before)
     ELSE Upsert(h)

Commit(h) ==
  /\ session[h].pc = "commit"
  /\ stored' = [k \in Keys |-> Visible(h, k)]
  /\ Over(h)

-----------------------------------------------------------------------------
\* The database (external).

\* The connection is lost, or the process dies.
Abort(h) == session[h].pc # "idle" /\ Rollback(h)

WaitsFor(h, g) == g # h /\ session[h].pc = "lock" /\ holder[Item(h).key] = g

\* Of transactions that wait for each other in a circle, one fails.
Deadlocked(h) ==
  \E circle \in SUBSET Handlers :
    /\ h \in circle
    /\ \A g \in circle : /\ \E f \in circle : WaitsFor(g, f)
                         /\ \E f \in circle : WaitsFor(f, g)

BreakDeadlock(h) == Deadlocked(h) /\ Rollback(h)

-----------------------------------------------------------------------------
Step(h) == Read(h) \/ Decide(h) \/ Commit(h) \/ BreakDeadlock(h)

Next ==
  \E h \in Handlers :
    \/ \E m \in Messages : Receive(h, m)
    \/ Lock(h)
    \/ Step(h)
    \/ Abort(h)

Spec == Init /\ [][Next]_vars

\* Statements are executed, and deadlocks found.  Those who wait for a lock stand in a
\* queue, so that nobody is passed over for ever.
FairSpec ==
  Spec /\ \A h \in Handlers : WF_vars(Step(h)) /\ SF_vars(Lock(h))

-----------------------------------------------------------------------------
(* Properties. *)

\* However messages are delayed, repeated and interleaved, a row only moves forward in
\* source time, each time by one message merged with the row as it is; and a message with
\* several items is stored as a whole or not at all (docs/customer-identity-operations.md:
\* stale source events, concurrent partial projections, conflicting timestamps).
RowsMoveForward == Register!Spec

\* What was read is still there when it is merged and written, although other
\* transactions commit in between: that is what the advisory lock is for.
ReadIsCurrent ==
  \A h \in Handlers :
    session[h].pc = "decide" => session[h].before = Visible(h, Item(h).key)

\* No customer is VERIFIED without an authoritative reference, has a configured identity
\* without a document, or a consent without its evidence, although messages are partial
\* and may clear the evidence of what an earlier one claimed.
ClaimsAreEvidenced == \A c \in References : Valid(c, stored[c])

\* A source that is told 200 need not send again: nothing in its message is news to the
\* tables, also when an item of it had been stored before.
AnsweredIsStored ==
  [][\A h \in Handlers :
       Commit(h) =>
         \A i \in 1..Len(session[h].message) :
           Reflects(stored'[session[h].message[i].key], session[h].message[i])]_vars

\* Every request comes to an end, also when two messages name the same providers in
\* different orders and their transactions wait for each other.
RequestsEnd == \A h \in Handlers : session[h].pc # "idle" ~> session[h].pc = "idle"

=============================================================================
