------------------------ MODULE IdentitySyncProofs ------------------------
(***************************************************************************)
(* IdentitySync implements IdentityRegister, for every number of requests, *)
(* customers, providers and messages; and LocksInv, which says who may wait *)
(* for whom, and who may be part of a deadlock.                            *)
(***************************************************************************)
EXTENDS IdentitySync, TLAPS

-----------------------------------------------------------------------------
(* The inductive invariant. *)

\* Where a handler stands in its message, and the locks it holds: those of the items it
\* has done, and of the one it is at once it is past the lock.
Placed(h) ==
  /\ session[h].pc = "idle" => session[h] = NoSession
  /\ session[h].pc \in {"lock", "read", "decide"}
       => session[h].at \in 1..Len(session[h].message)
  /\ session[h].pc = "commit" => session[h].at > Len(session[h].message)
  /\ session[h].pc \in {"read", "decide"} => holder[Item(h).key] = h
  /\ session[h].pc = "decide" => session[h].before = Visible(h, Item(h).key)

\* What is done of a message is no news to the transaction.
Done(h) ==
  \A i \in 1..Len(session[h].message) :
    i < session[h].at
      => /\ holder[session[h].message[i].key] = h
         /\ Reflects(Visible(h, session[h].message[i].key), session[h].message[i])

\* What is written is what one newer item makes of the committed row, under its lock.
Drafted(h) ==
  \A k \in session[h].touched :
    /\ holder[k] = h
    /\ Valid(k, session[h].written[k])
    /\ \E i \in 1..Len(session[h].message) :
         /\ i < session[h].at
         /\ session[h].message[i].key = k
         /\ session[h].message[i].time > stored[k].time
         /\ session[h].written[k] = Effective(stored[k], session[h].message[i])

SyncInv == \A h \in Handlers : Placed(h) /\ Done(h) /\ Drafted(h)

-----------------------------------------------------------------------------
(* Rows and items. *)

\* A customer's row holds a projection, a provider's row a capability.
RowOf(key) == [time : Nat, data : IF key \in References THEN Projection ELSE Coverage]

\* TypeOK, and every row is a row of its key.
TypeInv ==
  /\ TypeOK
  /\ \A k \in Keys : stored[k] \in RowOf(k)
  /\ \A h \in Handlers : \A k \in session[h].touched : session[h].written[k] \in RowOf(k)

ItemSet == CustomerEvent \cup CapabilityItem

LEMMA ItemFacts ==
  ASSUME NEW item \in ItemSet
  PROVE  /\ item.key \in Keys
         /\ item.time \in Nat \ {0}
         /\ item.key \in References => item \in CustomerEvent
         /\ item.key \notin References => item \in CapabilityItem
BY KeysAssumption DEF ItemSet, CustomerEvent, CapabilityItem, Keys

\* A message has items, and one about a customer has no other.
LEMMA MessageFacts ==
  ASSUME NEW m \in Messages \cup {<<>>}
  PROVE  /\ Len(m) \in Nat
         /\ \A i \in 1..Len(m) : /\ m[i] \in ItemSet
                                 /\ m[i].key \in References => Len(m) = 1
<1>1. CASE m = <<>>
  BY <1>1
<1>2. CASE m \in Snapshots
  <2>1. m \in Seq(CapabilityItem)
    BY <1>2, MessagesAssumption
  <2>2. Len(m) \in Nat /\ \A i \in 1..Len(m) : m[i] \in CapabilityItem
    BY <2>1
  <2>3. \A item \in CapabilityItem : item \in ItemSet /\ item.key \notin References
    BY KeysAssumption DEF ItemSet, CapabilityItem
  <2> QED
    BY <2>2, <2>3
<1>3. ASSUME NEW e \in CustomerEvents, m = <<e>>
      PROVE  /\ Len(m) = 1
             /\ \A i \in 1..Len(m) : m[i] \in ItemSet
  BY <1>3, MessagesAssumption DEF ItemSet
<1> QED
  BY <1>1, <1>2, <1>3 DEF Messages

\* Merging: the result is a row of the same key, and merging it again changes nothing.
LEMMA EffectiveFacts ==
  ASSUME NEW item \in ItemSet, NEW row \in RowOf(item.key)
  PROVE  /\ Effective(row, item) \in RowOf(item.key)
         /\ Effective(row, item).time = item.time
         /\ Effective(Effective(row, item), item) = Effective(row, item)
         /\ item.key \notin References => \A other : Effective(other, item) = Effective(row, item)
<1>1. CASE item.key \in References
  <2>1. item \in CustomerEvent
    BY <1>1, ItemFacts
  <2>2. row.data \in Projection
    BY <1>1 DEF RowOf
  <2>3. Merged(row.data, item) \in Projection
    BY <2>1, <2>2 DEF Merged, Projection, CustomerEvent
  <2>4. Merged(Merged(row.data, item), item) = Merged(row.data, item)
    BY <2>1, <2>2 DEF Merged, Projection, CustomerEvent
  <2> QED
    BY <1>1, <2>1, <2>3, <2>4, ItemFacts DEF Effective, RowOf
<1>2. CASE item.key \notin References
  <2>1. item \in CapabilityItem
    BY <1>2, ItemFacts
  <2> QED
    BY <1>2, <2>1 DEF Effective, RowOf, CapabilityItem, Coverage
<1> QED
  BY <1>1, <1>2

LEMMA RowsOfKeys ==
  ASSUME NEW k, NEW row \in RowOf(k)
  PROVE  row \in Row /\ row.time \in Nat
BY DEF RowOf, Row

-----------------------------------------------------------------------------
(* What a handler knows. *)

LEMMA SessionFacts ==
  ASSUME TypeInv, NEW h \in Handlers
  PROVE  /\ session[h] \in Session
         /\ session[h].pc \in {"idle", "lock", "read", "decide", "commit"}
         /\ session[h].message \in Messages \cup {<<>>}
         /\ session[h].at \in Nat
         /\ session[h].before \in Row
         /\ session[h].touched \in SUBSET Keys
         /\ session[h].written \in [Keys -> Row]
         /\ \A k \in Keys : Visible(h, k) \in RowOf(k)
         /\ \A k \in Keys : stored[k] \in RowOf(k) /\ holder[k] \in Handlers \cup {Nobody}
<1>1. session[h] \in Session
  BY DEF TypeInv, TypeOK
<1>2. \A k \in Keys : Visible(h, k) \in RowOf(k)
  BY DEF TypeInv, Visible
<1>3. \A k \in Keys : stored[k] \in RowOf(k) /\ holder[k] \in Handlers \cup {Nobody}
  BY DEF TypeInv, TypeOK
<1> QED
  BY <1>1, <1>2, <1>3 DEF Session

\* At an item: it is one of the message, and its key is a key.
LEMMA AtItem ==
  ASSUME TypeInv, NEW h \in Handlers, Placed(h), session[h].pc \in {"lock", "read", "decide"}
  PROVE  /\ session[h].at \in 1..Len(session[h].message)
         /\ Item(h) = session[h].message[session[h].at]
         /\ Item(h) \in ItemSet
         /\ Item(h).key \in Keys
         /\ Item(h).time \in Nat \ {0}
         /\ session[h].pc = "decide" => session[h].before \in RowOf(Item(h).key)
         /\ session[h].pc = "decide" => session[h].before = Visible(h, Item(h).key)
         /\ session[h].pc # "lock" => holder[Item(h).key] = h
<1>1. session[h].at \in 1..Len(session[h].message)
  BY DEF Placed
<1>2. Item(h) = session[h].message[session[h].at] /\ Item(h) \in ItemSet
  BY <1>1, SessionFacts, MessageFacts DEF Item
<1>3. Item(h).key \in Keys /\ Item(h).time \in Nat \ {0}
  BY <1>2, ItemFacts
<1>4. session[h].pc = "decide" => session[h].before = Visible(h, Item(h).key)
  BY DEF Placed
<1>5. session[h].pc # "lock" => holder[Item(h).key] = h
  BY DEF Placed
<1> QED
  BY <1>1, <1>2, <1>3, <1>4, <1>5, SessionFacts

-----------------------------------------------------------------------------
(* Types. *)

LEMMA NoSessionType == NoSession \in Session
BY DEF NoSession, Session, NoRow, Row, Coverage, NoCoverage

LEMMA TypeInit == Init => TypeInv
<1> SUFFICES ASSUME Init PROVE TypeInv
  OBVIOUS
<1>1. \A c \in Contacts \cup {Null} : NoIdentity(c) \in Projection
  BY DEF NoIdentity, Projection, Fields, Values, IdentityStatus
<1>2. NoCoverage \in Coverage
  BY DEF NoCoverage, Coverage
<1>3. stored \in [Keys -> Row] /\ \A k \in Keys : stored[k] \in RowOf(k)
  <2>1. PICK known \in [References -> Contacts \cup {Null}] :
          stored = [k \in Keys |-> [time |-> 0, data |-> IF k \in References
                                                         THEN NoIdentity(known[k])
                                                         ELSE NoCoverage]]
    BY DEF Init, FirstRows
  <2>2. \A k \in Keys : stored[k] \in RowOf(k)
    BY <1>1, <1>2, <2>1 DEF RowOf
  <2> QED
    BY <2>1, <2>2, RowsOfKeys
<1>4. holder \in [Keys -> Handlers \cup {Nobody}] /\ session \in [Handlers -> Session]
  BY NoSessionType DEF Init
<1>5. \A h \in Handlers : session[h].touched = {}
  BY DEF Init, NoSession
<1> QED
  BY <1>3, <1>4, <1>5 DEF TypeInv, TypeOK

\* One session changes.
LEMMA SessionMoves ==
  ASSUME TypeInv, NEW h \in Handlers, NEW a \in Session,
         session' = [session EXCEPT ![h] = a],
         \A k \in a.touched : a.written[k] \in RowOf(k),
         holder' \in [Keys -> Handlers \cup {Nobody}],
         stored' \in [Keys -> Row], \A k \in Keys : stored'[k] \in RowOf(k)
  PROVE  TypeInv' /\ session'[h] = a /\ \A g \in Handlers : g # h => session'[g] = session[g]
<1>1. session' \in [Handlers -> Session]
  BY DEF TypeInv, TypeOK
<1>2. session'[h] = a /\ \A g \in Handlers : g # h => session'[g] = session[g]
  BY DEF TypeInv, TypeOK
<1> QED
  BY <1>1, <1>2 DEF TypeInv, TypeOK

\* The same, and the tables and the locks do not.
LEMMA SessionMovesAlone ==
  ASSUME TypeInv, NEW h \in Handlers, NEW a \in Session,
         session' = [session EXCEPT ![h] = a],
         \A k \in a.touched : a.written[k] \in RowOf(k),
         UNCHANGED <<stored, holder>>
  PROVE  TypeInv' /\ session'[h] = a /\ \A g \in Handlers : g # h => session'[g] = session[g]
<1>1. /\ holder' \in [Keys -> Handlers \cup {Nobody}]
      /\ stored' \in [Keys -> Row]
      /\ \A k \in Keys : stored'[k] \in RowOf(k)
  BY DEF TypeInv, TypeOK
<1> QED
  BY <1>1, SessionMoves

\* What is true of a handler stays true if its session stays, and its locks, and the rows
\* they are for.
LEMMA OthersKept ==
  ASSUME TypeInv, NEW g \in Handlers, Placed(g), Done(g), Drafted(g),
         session'[g] = session[g],
         \A k \in Keys : holder[k] = g => holder'[k] = g /\ stored'[k] = stored[k]
  PROVE  Placed(g)' /\ Done(g)' /\ Drafted(g)'
<1>1. \A k \in Keys : holder[k] = g => Visible(g, k)' = Visible(g, k)
  BY DEF Visible
<1>2. Item(g)' = Item(g)
  BY DEF Item
<1>3. Placed(g)'
  <2>1. CASE session[g].pc \in {"lock", "read", "decide"}
    <3>1. Item(g).key \in Keys
      BY <2>1, AtItem
    <3> QED
      BY <1>1, <1>2, <2>1, <3>1 DEF Placed
  <2>2. CASE session[g].pc \notin {"lock", "read", "decide"}
    BY <2>2 DEF Placed
  <2> QED
    BY <2>1, <2>2
<1>4. Done(g)'
  <2> SUFFICES ASSUME NEW i \in 1..Len(session[g].message), i < session[g].at
               PROVE  /\ holder'[session[g].message[i].key] = g
                      /\ Reflects(Visible(g, session[g].message[i].key)', session[g].message[i])
    BY DEF Done
  <2>1. session[g].message[i].key \in Keys
    BY SessionFacts, MessageFacts, ItemFacts
  <2> QED
    BY <1>1, <2>1 DEF Done
<1>5. Drafted(g)'
  <2>1. session[g].touched \in SUBSET Keys
    BY SessionFacts
  <2> QED
    BY <2>1 DEF Drafted
<1> QED
  BY <1>3, <1>4, <1>5

-----------------------------------------------------------------------------
(* One step. *)

Inv == TypeInv /\ SyncInv

\* The others are kept: it is enough to look at the handler that moves.
LEMMA OneMoves ==
  ASSUME Inv, TypeInv', NEW h \in Handlers,
         \A g \in Handlers \ {h} :
           /\ session'[g] = session[g]
           /\ \A k \in Keys : holder[k] = g => holder'[k] = g /\ stored'[k] = stored[k],
         Placed(h)', Done(h)', Drafted(h)'
  PROVE  Inv'
<1>1. ASSUME NEW g \in Handlers \ {h} PROVE Placed(g)' /\ Done(g)' /\ Drafted(g)'
  BY <1>1, OthersKept DEF Inv, SyncInv
<1> QED
  BY <1>1 DEF Inv, SyncInv

LEMMA InvInit == Init => Inv
<1> SUFFICES ASSUME Init PROVE Inv
  OBVIOUS
<1>1. ASSUME NEW h \in Handlers PROVE Placed(h) /\ Done(h) /\ Drafted(h)
  <2>1. session[h] = NoSession
    BY DEF Init
  <2> QED
    BY <2>1 DEF NoSession, Placed, Done, Drafted
<1> QED
  BY <1>1, TypeInit DEF Inv, SyncInv

LEMMA ReceiveKeeps ==
  ASSUME Inv, NEW h \in Handlers, NEW m \in Messages, Receive(h, m)
  PROVE  Inv'
<1> DEFINE a == [NoSession EXCEPT !.pc = IF m = <<>> THEN "commit" ELSE "lock",
                                  !.message = m, !.at = 1]
<1>1. /\ a \in Session
      /\ a.pc = IF m = <<>> THEN "commit" ELSE "lock"
      /\ a.message = m /\ a.at = 1 /\ a.touched = {}
  BY NoSessionType DEF Session, NoSession
<1>2. session' = [session EXCEPT ![h] = a] /\ UNCHANGED <<stored, holder>>
  BY DEF Receive
<1>3. TypeInv' /\ session'[h] = a /\ \A g \in Handlers : g # h => session'[g] = session[g]
  BY <1>1, <1>2, SessionMovesAlone DEF Inv
<1>4. Placed(h)'
  <2>1. Len(m) \in Nat /\ (m # <<>> => 1 \in 1..Len(m)) /\ (m = <<>> => Len(m) = 0)
    <3>1. Len(m) \in Nat
      BY MessageFacts
    <3>2. m \in Seq(CapabilityItem) \/ \E e \in CustomerEvents : m = <<e>>
      BY MessagesAssumption DEF Messages
    <3> QED
      BY <3>1, <3>2
  <2> QED
    BY <1>1, <1>3, <2>1 DEF Placed
<1>5. Done(h)' /\ Drafted(h)'
  BY <1>1, <1>3 DEF Done, Drafted
<1> QED
  BY <1>2, <1>3, <1>4, <1>5, OneMoves DEF Inv

LEMMA LockKeeps ==
  ASSUME Inv, NEW h \in Handlers, Lock(h)
  PROVE  Inv'
<1> DEFINE a == [session[h] EXCEPT !.pc = "read"]
           key == Item(h).key
<1>1. /\ a \in Session
      /\ a.pc = "read" /\ a.message = session[h].message /\ a.at = session[h].at
      /\ a.touched = session[h].touched /\ a.written = session[h].written
  BY SessionFacts DEF Session, Inv
<1>2. session' = [session EXCEPT ![h] = a]
  BY DEF Lock
<1>3. /\ key \in Keys
      /\ holder[key] \in {h, Nobody}
      /\ holder' = [holder EXCEPT ![key] = h]
      /\ UNCHANGED stored
      /\ session[h].at \in 1..Len(session[h].message)
  BY AtItem DEF Lock, LockIsFree, Inv, SyncInv
<1>4. /\ holder' \in [Keys -> Handlers \cup {Nobody}]
      /\ holder'[key] = h
      /\ \A k \in Keys : holder[k] # Nobody => holder'[k] = holder[k]
  BY <1>3 DEF Inv, TypeInv, TypeOK
<1>5. TypeInv' /\ session'[h] = a /\ \A g \in Handlers : g # h => session'[g] = session[g]
  <2>1. stored' \in [Keys -> Row] /\ \A k \in Keys : stored'[k] \in RowOf(k)
    BY <1>3 DEF Inv, TypeInv, TypeOK
  <2>2. \A k \in a.touched : a.written[k] \in RowOf(k)
    BY <1>1 DEF Inv, TypeInv
  <2> QED
    BY <1>1, <1>2, <1>4, <2>1, <2>2, SessionMoves DEF Inv
<1>6. \A k : Visible(h, k)' = Visible(h, k)
  BY <1>1, <1>3, <1>5 DEF Visible
<1>7. Placed(h)'
  BY <1>1, <1>3, <1>4, <1>5 DEF Placed, Item
<1>8. Done(h)'
  <2> SUFFICES ASSUME NEW i \in 1..Len(session[h].message), i < session[h].at,
                      NEW k, k = session[h].message[i].key
               PROVE  holder'[k] = h /\ Reflects(Visible(h, k)', session[h].message[i])
    BY <1>1, <1>5 DEF Done
  <2>1. k \in Keys
    BY SessionFacts, MessageFacts, ItemFacts DEF Inv
  <2>2. holder[k] = h /\ Reflects(Visible(h, k), session[h].message[i])
    BY DEF Done, Inv, SyncInv
  <2> QED
    BY <1>4, <1>6, <2>1, <2>2, NobodyAssumption
<1>9. Drafted(h)'
  <2>1. session[h].touched \in SUBSET Keys
    BY SessionFacts DEF Inv
  <2> QED
    BY <1>1, <1>3, <1>4, <1>5, <2>1, NobodyAssumption DEF Drafted, Inv, SyncInv
<1> QED
  BY <1>3, <1>4, <1>5, <1>7, <1>8, <1>9, NobodyAssumption, OneMoves

LEMMA ReadKeeps ==
  ASSUME Inv, NEW h \in Handlers, Read(h)
  PROVE  Inv'
<1> DEFINE a == [session[h] EXCEPT !.pc = "decide", !.before = Visible(h, Item(h).key)]
<1>1. /\ session[h].at \in 1..Len(session[h].message)
      /\ Item(h).key \in Keys
      /\ holder[Item(h).key] = h
  BY AtItem DEF Read, Inv, SyncInv
<1>2. Visible(h, Item(h).key) \in Row
  BY <1>1, SessionFacts, RowsOfKeys DEF Inv
<1>3. /\ a \in Session
      /\ a.pc = "decide" /\ a.message = session[h].message /\ a.at = session[h].at
      /\ a.touched = session[h].touched /\ a.written = session[h].written
      /\ a.before = Visible(h, Item(h).key)
  BY <1>2, SessionFacts DEF Session, Inv
<1>4. session' = [session EXCEPT ![h] = a] /\ UNCHANGED <<stored, holder>>
  BY DEF Read
<1>5. TypeInv' /\ session'[h] = a /\ \A g \in Handlers : g # h => session'[g] = session[g]
  <2>1. \A k \in a.touched : a.written[k] \in RowOf(k)
    BY <1>3 DEF Inv, TypeInv
  <2> QED
    BY <1>3, <1>4, <2>1, SessionMovesAlone DEF Inv
<1>6. \A k : Visible(h, k)' = Visible(h, k)
  BY <1>3, <1>4, <1>5 DEF Visible
<1>7. Placed(h)'
  BY <1>1, <1>3, <1>4, <1>5 DEF Placed, Item, Visible
<1>8. Done(h)'
  BY <1>3, <1>4, <1>5, <1>6 DEF Done, Inv, SyncInv
<1>9. Drafted(h)'
  BY <1>3, <1>4, <1>5 DEF Drafted, Inv, SyncInv
<1> QED
  BY <1>4, <1>5, <1>7, <1>8, <1>9, OneMoves

\* The end of a transaction, whether or not it has written the rows it holds.
LEMMA OverKeeps ==
  ASSUME Inv, NEW h \in Handlers, Over(h),
         stored' \in [Keys -> Row], \A k \in Keys : stored'[k] \in RowOf(k),
         \A k \in Keys : holder[k] # h => stored'[k] = stored[k]
  PROVE  Inv'
<1>1. holder' \in [Keys -> Handlers \cup {Nobody}] /\ \A k \in Keys : holder[k] # h => holder'[k] = holder[k]
  BY DEF Over, Inv, TypeInv, TypeOK
<1>2. /\ TypeInv' /\ session'[h] = NoSession
      /\ \A g \in Handlers : g # h => session'[g] = session[g]
  <2>1. session' = [session EXCEPT ![h] = NoSession] /\ NoSession.touched = {}
    BY DEF Over, NoSession
  <2> QED
    BY <1>1, <2>1, NoSessionType, SessionMoves DEF Inv
<1>3. Placed(h)' /\ Done(h)' /\ Drafted(h)'
  BY <1>2 DEF NoSession, Placed, Done, Drafted
<1> QED
  BY <1>1, <1>2, <1>3, OneMoves

LEMMA RollbackKeeps ==
  ASSUME Inv, NEW h \in Handlers, Rollback(h)
  PROVE  Inv'
<1>1. Over(h) /\ stored' = stored
  BY DEF Rollback
<1>2. stored' \in [Keys -> Row] /\ \A k \in Keys : stored'[k] \in RowOf(k)
  BY <1>1 DEF Inv, TypeInv, TypeOK
<1> QED
  BY <1>1, <1>2, OverKeeps

\* On to the next item, with one more of them done.
LEMMA ProceedKeeps ==
  ASSUME Inv, NEW h \in Handlers, session[h].pc = "decide",
         NEW touched \in SUBSET Keys, NEW written \in [Keys -> Row],
         Proceed(h, touched, written),
         \A k \in touched :
           /\ written[k] \in RowOf(k)
           /\ holder[k] = h
           /\ Valid(k, written[k])
           /\ \E i \in 1..Len(session[h].message) :
                /\ i <= session[h].at
                /\ session[h].message[i].key = k
                /\ session[h].message[i].time > stored[k].time
                /\ written[k] = Effective(stored[k], session[h].message[i]),
         \A i \in 1..Len(session[h].message), k \in Keys :
           i <= session[h].at /\ k = session[h].message[i].key
             => Reflects(IF k \in touched THEN written[k] ELSE stored[k], session[h].message[i])
  PROVE  Inv'
<1> DEFINE next == session[h].at + 1
           pc == IF next <= Len(session[h].message) THEN "lock" ELSE "commit"
           a == [session[h] EXCEPT !.pc = pc, !.at = next, !.before = NoRow,
                                   !.touched = touched, !.written = written]
<1>1. /\ session[h].at \in 1..Len(session[h].message)
      /\ Len(session[h].message) \in Nat
      /\ holder[Item(h).key] = h
  BY AtItem, SessionFacts, MessageFacts DEF Inv, SyncInv
<1>2. next \in Nat /\ next >= 1 /\ \A i \in Nat : i < next <=> i <= session[h].at
  BY <1>1
<1>3. NoRow \in Row
  BY DEF NoRow, Row, Coverage, NoCoverage
<1>4. /\ a \in Session
      /\ a.pc = pc /\ a.message = session[h].message /\ a.at = next
      /\ a.touched = touched /\ a.written = written
  <2>1. pc \in {"lock", "commit"}
    OBVIOUS
  <2>2. session[h] \in Session
    BY SessionFacts DEF Inv
  <2> HIDE DEF pc, next
  <2> QED
    BY <1>2, <1>3, <2>1, <2>2 DEF Session
<1>5. session' = [session EXCEPT ![h] = a] /\ UNCHANGED <<stored, holder>>
  BY DEF Proceed
<1>6. TypeInv' /\ session'[h] = a /\ \A g \in Handlers : g # h => session'[g] = session[g]
  <2>1. \A k \in a.touched : a.written[k] \in RowOf(k)
    BY <1>4
  <2> HIDE DEF a
  <2> QED
    BY <1>4, <1>5, <2>1, SessionMovesAlone DEF Inv
<1> HIDE DEF a
<1>7. Placed(h)'
  BY <1>1, <1>2, <1>4, <1>6 DEF Placed
<1>8. Done(h)'
  <2> SUFFICES ASSUME NEW i \in 1..Len(session[h].message), i <= session[h].at,
                      NEW k, k = session[h].message[i].key
               PROVE  holder'[k] = h /\ Reflects(Visible(h, k)', session[h].message[i])
    BY <1>1, <1>2, <1>4, <1>6 DEF Done
  <2>1. k \in Keys
    BY SessionFacts, MessageFacts, ItemFacts DEF Inv
  <2>2. holder[k] = h
    <3>1. CASE i = session[h].at
      BY <1>1, <3>1 DEF Item
    <3>2. CASE i < session[h].at
      BY <3>2 DEF Done, Inv, SyncInv
    <3> QED
      BY <1>1, <3>1, <3>2
  <2>3. Visible(h, k)' = IF k \in touched THEN written[k] ELSE stored[k]
    BY <1>4, <1>5, <1>6 DEF Visible
  <2> QED
    BY <1>5, <2>1, <2>2, <2>3
<1>9. Drafted(h)'
  <2> SUFFICES ASSUME NEW k \in touched
               PROVE  /\ holder'[k] = h
                      /\ Valid(k, written[k])
                      /\ \E i \in 1..Len(session[h].message) :
                           /\ i < next
                           /\ session[h].message[i].key = k
                           /\ session[h].message[i].time > stored'[k].time
                           /\ written[k] = Effective(stored'[k], session[h].message[i])
    BY <1>4, <1>6 DEF Drafted
  <2> QED
    BY <1>1, <1>2, <1>5
<1> QED
  BY <1>5, <1>6, <1>7, <1>8, <1>9, OneMoves

\* An item that says what the row says.
LEMMA SkipKeeps ==
  ASSUME Inv, NEW h \in Handlers, session[h].pc = "decide",
         Visible(h, Item(h).key) = Wanted(h), Skip(h)
  PROVE  Inv'
<1>1. /\ session[h].at \in 1..Len(session[h].message)
      /\ Item(h) = session[h].message[session[h].at]
      /\ Item(h) \in ItemSet
      /\ session[h].before \in RowOf(Item(h).key)
      /\ session[h].before = Visible(h, Item(h).key)
  BY AtItem DEF Inv, SyncInv
<1>2. Reflects(Visible(h, Item(h).key), Item(h))
  BY <1>1, EffectiveFacts DEF Wanted, Reflects
<1>3. session[h].touched \in SUBSET Keys /\ session[h].written \in [Keys -> Row]
  BY SessionFacts DEF Inv
<1>4. ASSUME NEW k \in session[h].touched
      PROVE  /\ session[h].written[k] \in RowOf(k)
             /\ holder[k] = h
             /\ Valid(k, session[h].written[k])
             /\ \E i \in 1..Len(session[h].message) :
                  /\ i <= session[h].at
                  /\ session[h].message[i].key = k
                  /\ session[h].message[i].time > stored[k].time
                  /\ session[h].written[k] = Effective(stored[k], session[h].message[i])
  <2>1. session[h].written[k] \in RowOf(k)
    BY DEF Inv, TypeInv
  <2>2. PICK i \in 1..Len(session[h].message) :
          /\ i < session[h].at
          /\ session[h].message[i].key = k
          /\ session[h].message[i].time > stored[k].time
          /\ session[h].written[k] = Effective(stored[k], session[h].message[i])
    BY DEF Drafted, Inv, SyncInv
  <2>3. i <= session[h].at
    BY <1>1, <2>2
  <2> QED
    BY <2>1, <2>2, <2>3 DEF Drafted, Inv, SyncInv
<1>5. ASSUME NEW i \in 1..Len(session[h].message), NEW k \in Keys,
             i <= session[h].at, k = session[h].message[i].key
      PROVE  Reflects(Visible(h, k), session[h].message[i])
  <2>1. CASE i = session[h].at
    BY <1>1, <1>2, <1>5, <2>1
  <2>2. CASE i < session[h].at
    BY <1>5, <2>2 DEF Done, Inv, SyncInv
  <2> QED
    BY <1>1, <1>5, <2>1, <2>2
<1> QED
  BY <1>3, <1>4, <1>5, ProceedKeeps DEF Skip, Visible

\* Positions in a list, where the context is too large for arithmetic.  A list in which
\* one position lies before another has more than one item.
LEMMA OneIsShort ==
  \A i, at, n \in Nat : i >= 1 /\ i < at /\ at <= n => n # 1
  OBVIOUS

LEMMA SameIsEarly == \A n \in Nat : \A at \in 1..n : at <= at
  OBVIOUS

LEMMA BeforeIsEarly == \A n \in Nat : \A i, at \in 1..n : i < at => i <= at
  OBVIOUS

LEMMA EarlyIsBeforeOrSame ==
  \A n \in Nat : \A i, at \in 1..n : i <= at => i = at \/ i < at
  OBVIOUS

\* A newer item is newer than what was committed and than all items of its key before it.
\* A row written before by the same transaction is a provider's, whose items do not look
\* at the row.
LEMMA NewerItem ==
  ASSUME Inv, NEW h \in Handlers, session[h].pc = "decide",
         NEW key, key = Item(h).key, Item(h).time > Visible(h, key).time
  PROVE  /\ Item(h).time > stored[key].time
         /\ Wanted(h) = Effective(stored[key], Item(h))
         /\ \A i \in 1..Len(session[h].message) :
              i < session[h].at /\ session[h].message[i].key = key
                => Item(h).time > session[h].message[i].time
<1>1. /\ session[h].at \in 1..Len(session[h].message)
      /\ Len(session[h].message) \in Nat
      /\ Item(h) \in ItemSet
      /\ key \in Keys
      /\ session[h].before \in RowOf(key)
      /\ session[h].before = Visible(h, key)
  BY AtItem, SessionFacts, MessageFacts DEF Inv, SyncInv
<1>2. Item(h).time \in Nat
  BY AtItem DEF Inv, SyncInv
<1>3. stored[key].time \in Nat /\ Visible(h, key).time \in Nat
  BY <1>1, SessionFacts, RowsOfKeys DEF Inv
<1>4. ASSUME NEW i \in 1..Len(session[h].message), i < session[h].at,
             session[h].message[i].key = key
      PROVE  Item(h).time > session[h].message[i].time
  <2>1. Reflects(Visible(h, key), session[h].message[i])
    BY <1>4 DEF Done, Inv, SyncInv
  <2>2. session[h].message[i].time \in Nat
    BY SessionFacts, MessageFacts, ItemFacts DEF Inv
  <2>3. Visible(h, key).time >= session[h].message[i].time
    BY <1>3, <2>1, <2>2 DEF Reflects
  <2> QED
    BY <1>2, <1>3, <2>2, <2>3
<1>5. CASE key \notin session[h].touched
  BY <1>1, <1>4, <1>5 DEF Visible, Wanted
<1>6. CASE key \in session[h].touched
  <2>1. PICK i \in 1..Len(session[h].message) :
          /\ i < session[h].at
          /\ session[h].message[i].key = key
          /\ session[h].message[i].time > stored[key].time
          /\ session[h].written[key] = Effective(stored[key], session[h].message[i])
    BY <1>6 DEF Drafted, Inv, SyncInv
  <2>2. session[h].message[i] \in ItemSet /\ session[h].message[i].time \in Nat
    BY SessionFacts, MessageFacts, ItemFacts DEF Inv
  <2>3. key \notin References
    <3>1. Len(session[h].message) # 1
      <4>1. /\ session[h].at \in Nat /\ Len(session[h].message) \in Nat
            /\ session[h].at <= Len(session[h].message)
        BY <1>1
      <4>2. i \in Nat /\ i >= 1 /\ i < session[h].at
        BY <1>1, <2>1
      <4> QED
        BY <4>1, <4>2, OneIsShort
    <3> QED
      BY <2>1, <3>1, SessionFacts, MessageFacts DEF Inv
  <2>4. Item(h).time > session[h].message[i].time
    BY <1>4, <2>1
  <2>5. Item(h).time > stored[key].time
    BY <1>2, <1>3, <2>1, <2>2, <2>4
  <2>6. Wanted(h) = Effective(stored[key], Item(h))
    BY <1>1, <2>3, EffectiveFacts DEF Wanted
  <2> QED
    BY <1>4, <2>5, <2>6
<1> QED
  BY <1>5, <1>6

\* The newer item is written.
LEMMA WriteKeeps ==
  ASSUME Inv, NEW h \in Handlers, session[h].pc = "decide",
         NEW key, key = Item(h).key,
         ~ Unevidenced(h), Item(h).time > Visible(h, key).time,
         Proceed(h, session[h].touched \cup {key}, [session[h].written EXCEPT ![key] = Wanted(h)])
  PROVE  Inv'
<1> DEFINE m == session[h].message
           touched == session[h].touched \cup {key}
           written == [session[h].written EXCEPT ![key] = Wanted(h)]
<1>1. /\ session[h].at \in 1..Len(m)
      /\ Len(m) \in Nat
      /\ Item(h) = m[session[h].at]
      /\ Item(h) \in ItemSet
      /\ key \in Keys
      /\ Item(h).time \in Nat
      /\ session[h].before \in RowOf(key)
      /\ session[h].before = Visible(h, key)
      /\ holder[key] = h
  BY AtItem, SessionFacts, MessageFacts DEF Inv, SyncInv
<1>2. /\ Wanted(h) \in RowOf(key)
      /\ Wanted(h).time = Item(h).time
      /\ Effective(Wanted(h), Item(h)) = Wanted(h)
      /\ key \notin References => Effective(stored[key], Item(h)) = Wanted(h)
  BY <1>1, EffectiveFacts DEF Wanted
<1>3. Valid(key, Wanted(h))
  BY DEF Unevidenced
<1>4. /\ session[h].touched \in SUBSET Keys
      /\ session[h].written \in [Keys -> Row]
      /\ stored[key].time \in Nat
      /\ Visible(h, key).time \in Nat
      /\ Wanted(h) \in Row
  BY <1>1, <1>2, SessionFacts, RowsOfKeys DEF Inv
<1>5. /\ touched \in SUBSET Keys
      /\ written \in [Keys -> Row]
      /\ written[key] = Wanted(h)
      /\ \A k \in Keys : k # key => written[k] = session[h].written[k]
  BY <1>1, <1>4
<1>6. /\ Item(h).time > stored[key].time
      /\ Wanted(h) = Effective(stored[key], Item(h))
  BY NewerItem
<1>7. ASSUME NEW k \in touched
      PROVE  /\ written[k] \in RowOf(k)
             /\ holder[k] = h
             /\ Valid(k, written[k])
             /\ \E i \in 1..Len(m) : /\ i <= session[h].at
                                     /\ m[i].key = k
                                     /\ m[i].time > stored[k].time
                                     /\ written[k] = Effective(stored[k], m[i])
  <2>1. CASE k = key
    <3>1. m[session[h].at].key = k /\ m[session[h].at].time > stored[k].time
      BY <1>1, <1>6, <2>1
    <3>2. written[k] = Effective(stored[k], m[session[h].at])
      BY <1>1, <1>5, <1>6, <2>1
    <3>3. written[k] \in RowOf(k) /\ holder[k] = h /\ Valid(k, written[k])
      BY <1>1, <1>2, <1>3, <1>5, <2>1
    <3>4. session[h].at \in 1..Len(m) /\ session[h].at <= session[h].at
      BY <1>1, SameIsEarly
    <3> HIDE DEF m, touched, written
    <3> QED
      BY <3>1, <3>2, <3>3, <3>4
  <2>2. CASE k # key
    <3>1. k \in session[h].touched /\ k \in Keys /\ written[k] = session[h].written[k]
      BY <1>4, <1>5, <2>2
    <3>2. PICK i \in 1..Len(m) : /\ i < session[h].at
                                 /\ m[i].key = k
                                 /\ m[i].time > stored[k].time
                                 /\ session[h].written[k] = Effective(stored[k], m[i])
      BY <3>1 DEF Drafted, Inv, SyncInv
    <3>3. i <= session[h].at
      BY <1>1, <3>2, BeforeIsEarly
    <3>4. session[h].written[k] \in RowOf(k) /\ holder[k] = h /\ Valid(k, session[h].written[k])
      BY <3>1 DEF Drafted, Inv, SyncInv, TypeInv
    <3> HIDE DEF written
    <3> QED
      BY <3>1, <3>2, <3>3, <3>4
  <2> QED
    BY <2>1, <2>2
<1>8. ASSUME NEW i \in 1..Len(m), NEW k \in Keys, i <= session[h].at, k = m[i].key
      PROVE  Reflects(IF k \in touched THEN written[k] ELSE stored[k], m[i])
  <2>1. CASE i = session[h].at
    <3>1. k = key /\ m[i] = Item(h)
      BY <1>1, <1>8, <2>1
    <3> QED
      BY <1>2, <1>5, <3>1 DEF Reflects
  <2>2. CASE i < session[h].at
    <3>1. Reflects(Visible(h, k), m[i])
      BY <1>8, <2>2 DEF Done, Inv, SyncInv
    <3>2. CASE k = key
      <4>1. Item(h).time > m[i].time
        BY <1>8, <2>2, <3>2, NewerItem
      <4>2. written[k] = Wanted(h) /\ k \in touched
        BY <1>5, <3>2
      <4> HIDE DEF m, touched, written
      <4> QED
        BY <1>2, <4>1, <4>2 DEF Reflects
    <3>3. CASE k # key
      BY <1>5, <3>1, <3>3 DEF Visible
    <3> QED
      BY <3>2, <3>3
  <2>3. i = session[h].at \/ i < session[h].at
    BY <1>1, <1>8, EarlyIsBeforeOrSame
  <2> HIDE DEF m, touched, written
  <2> QED
    BY <2>1, <2>2, <2>3
<1> QED
  BY <1>5, <1>7, <1>8, ProceedKeeps

LEMMA DecideKeeps ==
  ASSUME Inv, NEW h \in Handlers, Decide(h)
  PROVE  Inv'
<1>1. CASE Rollback(h)
  BY <1>1, RollbackKeeps
<1>2. session[h].pc = "decide" /\ session[h].before = Visible(h, Item(h).key)
  BY AtItem DEF Decide, Inv, SyncInv
<1>3. ASSUME NEW row, row = Visible(h, Item(h).key), Settle(h, row) PROVE Inv'
  BY <1>2, <1>3, SkipKeeps, RollbackKeeps DEF Settle
<1>4. CASE ~ Unevidenced(h) /\ Upsert(h)
  BY <1>2, <1>3, <1>4, WriteKeeps DEF Upsert
<1> QED
  BY <1>1, <1>2, <1>3, <1>4 DEF Decide

LEMMA CommitKeeps ==
  ASSUME Inv, NEW h \in Handlers, Commit(h)
  PROVE  Inv' /\ Register!Store(session[h].message)
<1> DEFINE m == session[h].message
<1>1. stored' = [k \in Keys |-> Visible(h, k)] /\ Over(h)
  BY DEF Commit
<1>2. /\ session[h].touched \in SUBSET Keys
      /\ Len(m) \in Nat
      /\ session[h].at \in Nat /\ session[h].at > Len(m)
      /\ \A i \in 1..Len(m) : m[i].key \in Keys
  BY SessionFacts, MessageFacts, ItemFacts DEF Inv, SyncInv, Placed, Commit
<1>3. Inv'
  <2>1. stored' \in [Keys -> Row] /\ \A k \in Keys : stored'[k] \in RowOf(k)
    BY <1>1, SessionFacts, RowsOfKeys DEF Inv
  <2>2. \A k \in Keys : holder[k] # h => stored'[k] = stored[k]
    BY <1>1 DEF Visible, Drafted, Inv, SyncInv
  <2> QED
    BY <1>1, <2>1, <2>2, OverKeeps
<1>4. ASSUME NEW k \in Keys PROVE Register!TakesUp(m, k)
  <2>1. CASE k \notin session[h].touched
    BY <1>1, <2>1 DEF Register!TakesUp, Visible
  <2>2. CASE k \in session[h].touched
    <3>1. stored'[k] = session[h].written[k]
      BY <1>1, <2>2 DEF Visible
    <3>2. PICK i \in 1..Len(m) : /\ m[i].key = k
                                 /\ m[i].time > stored[k].time
                                 /\ session[h].written[k] = Effective(stored[k], m[i])
      BY <2>2 DEF Drafted, Inv, SyncInv
    <3>3. Valid(k, session[h].written[k])
      BY <2>2 DEF Drafted, Inv, SyncInv
    <3>4. Register!Effective(stored[k], m[i]) = Effective(stored[k], m[i])
      BY DEF Register!Effective, Register!Merged, Register!Fields, Register!Omitted,
             Effective, Merged, Fields, Omitted
    <3>5. Register!Valid(k, stored'[k]) = Valid(k, stored'[k])
      BY DEF Register!Valid, Register!Evidenced, Register!Null, Valid, Evidenced, Null
    <3> QED
      BY <3>1, <3>2, <3>3, <3>4, <3>5 DEF Register!TakesUp
  <2> QED
    BY <2>1, <2>2
<1>5. ASSUME NEW i \in 1..Len(m) PROVE Reflects(stored'[m[i].key], m[i])
  <2>1. i < session[h].at
    BY <1>2
  <2>2. Reflects(Visible(h, m[i].key), m[i])
    BY <2>1 DEF Done, Inv, SyncInv
  <2> QED
    BY <1>1, <1>2, <2>2
<1>6. ASSUME NEW i \in 1..Len(m) PROVE Register!Reflects(stored'[m[i].key], m[i])
  BY <1>5
  DEF Register!Reflects, Register!Effective, Register!Merged, Register!Fields, Register!Omitted,
      Reflects, Effective, Merged, Fields, Omitted
<1>7. DOMAIN stored' = Register!Keys
  BY <1>1 DEF Keys, Register!Keys
<1> QED
  BY <1>3, <1>4, <1>6, <1>7 DEF Register!Store, Keys, Register!Keys

-----------------------------------------------------------------------------
(* The theorems. *)

LEMMA InvNext == Inv /\ [Next]_vars => Inv'
<1> SUFFICES ASSUME Inv, [Next]_vars PROVE Inv'
  OBVIOUS
<1>1. ASSUME NEW h \in Handlers, NEW m \in Messages, Receive(h, m) PROVE Inv'
  BY <1>1, ReceiveKeeps
<1>2. ASSUME NEW h \in Handlers, Lock(h) PROVE Inv'
  BY <1>2, LockKeeps
<1>3. ASSUME NEW h \in Handlers, Step(h) PROVE Inv'
  BY <1>3, ReadKeeps, DecideKeeps, CommitKeeps, RollbackKeeps DEF Step, BreakDeadlock
<1>4. ASSUME NEW h \in Handlers, Abort(h) PROVE Inv'
  BY <1>4, RollbackKeeps DEF Abort
<1>5. CASE UNCHANGED vars
  <2>1. UNCHANGED <<stored, holder, session>>
    BY <1>5 DEF vars
  <2>2. TypeInv'
    BY <2>1 DEF Inv, TypeInv, TypeOK
  <2>3. ASSUME NEW h \in Handlers PROVE Placed(h)' /\ Done(h)' /\ Drafted(h)'
    BY <2>1, OthersKept DEF Inv, SyncInv
  <2> QED
    BY <2>2, <2>3 DEF Inv, SyncInv
<1> QED
  BY <1>1, <1>2, <1>3, <1>4, <1>5 DEF Next

\* Only a commit changes the tables, and stores a message.
LEMMA StoredNext == Inv /\ [Next]_vars => UNCHANGED stored \/ Register!Next
<1> SUFFICES ASSUME Inv, [Next]_vars PROVE UNCHANGED stored \/ Register!Next
  OBVIOUS
<1>1. ASSUME NEW h \in Handlers, Commit(h) PROVE UNCHANGED stored \/ Register!Next
  <2>1. Register!Store(session[h].message)
    BY <1>1, CommitKeeps
  <2>2. CASE session[h].message \in Messages
    BY <2>1, <2>2 DEF Register!Next, Register!Messages, Messages
  <2>3. CASE session[h].message = <<>>
    <3>1. \A k \in Keys : stored'[k] = stored[k]
      BY <2>1, <2>3 DEF Register!Store, Register!TakesUp, Keys, Register!Keys
    <3>2. stored' \in [Keys -> Row] /\ stored \in [Keys -> Row]
      BY <1>1, CommitKeeps DEF Inv, TypeInv, TypeOK
    <3> QED
      BY <3>1, <3>2
  <2> QED
    BY <2>2, <2>3, SessionFacts DEF Inv
<1>2. ASSUME NEW h \in Handlers, Decide(h) PROVE UNCHANGED stored
  BY <1>2 DEF Decide, Upsert, Settle, Skip, Proceed, Rollback
<1>3. ASSUME NEW h \in Handlers, Read(h) \/ BreakDeadlock(h) \/ Lock(h) \/ Abort(h)
      PROVE  UNCHANGED stored
  BY <1>3 DEF Read, BreakDeadlock, Lock, Abort, Rollback
<1>4. ASSUME NEW h \in Handlers, NEW m \in Messages, Receive(h, m) PROVE UNCHANGED stored
  BY <1>4 DEF Receive
<1> QED
  BY <1>1, <1>2, <1>3, <1>4 DEF Next, Step, vars

LEMMA Invariance == Spec => []Inv
<1>1. Init => Inv
  BY InvInit
<1>2. Inv /\ [Next]_vars => Inv'
  BY InvNext
<1> QED
  BY <1>1, <1>2, PTL DEF Spec

\* The tables, the locks and the transactions stay what they are declared to be.
THEOREM TypeCorrect == Spec => []TypeOK
<1>1. Inv => TypeOK
  BY DEF Inv, TypeInv
<1> QED
  BY <1>1, Invariance, PTL

\* What a transaction has read under its advisory lock stays current until it has written.
THEOREM ReadIsCurrentCorrect == Spec => []ReadIsCurrent
<1>1. Inv => ReadIsCurrent
  BY DEF Inv, SyncInv, Placed, ReadIsCurrent
<1> QED
  BY <1>1, Invariance, PTL

\* The synchronisation implements the register: rows move forward, by whole messages.
THEOREM RowsMoveForwardCorrect == Spec => RowsMoveForward
<1>1. Init => Register!Init
  BY DEF Init, Register!Init, FirstRows, NoIdentity, NoCoverage, Keys, Fields, Null,
         Register!FirstRows, Register!NoIdentity, Register!NoCoverage, Register!Keys,
         Register!Fields, Register!Null
<1>2. Inv /\ [Next]_vars => [Register!Next]_stored
  BY StoredNext
<1> QED
  BY <1>1, <1>2, Invariance, PTL DEF Spec, RowsMoveForward, Register!Spec

\* Whatever a request that is answered had to say is in the tables, or older than them.
THEOREM AnsweredIsStoredCorrect == Spec => AnsweredIsStored
<1>1. Inv /\ [Next]_vars =>
        [\A h \in Handlers :
           Commit(h) =>
             \A i \in 1..Len(session[h].message) :
               Reflects(stored'[session[h].message[i].key], session[h].message[i])]_vars
  <2> SUFFICES ASSUME Inv, NEW h \in Handlers, Commit(h),
                      NEW i \in 1..Len(session[h].message)
               PROVE  Reflects(stored'[session[h].message[i].key], session[h].message[i])
    OBVIOUS
  <2>1. Register!Reflects(stored'[session[h].message[i].key], session[h].message[i])
    BY CommitKeeps DEF Register!Store
  <2> QED
    BY <2>1
    DEF Register!Reflects, Register!Effective, Register!Merged, Register!Fields,
        Register!Omitted, Reflects, Effective, Merged, Fields, Omitted
<1> QED
  BY <1>1, Invariance, PTL DEF Spec, AnsweredIsStored

\* No status, document or consent is stored without what it stands on.
THEOREM ClaimsAreEvidencedCorrect == Spec => []ClaimsAreEvidenced
<1>1. Init => ClaimsAreEvidenced
  BY DEF Init, FirstRows, ClaimsAreEvidenced, Valid, Evidenced, NoIdentity, Fields, Null, Keys
<1>2. ClaimsAreEvidenced /\ Inv /\ [Next]_vars => ClaimsAreEvidenced'
  <2> SUFFICES ASSUME ClaimsAreEvidenced, Inv, [Next]_vars, NEW c \in References
               PROVE  Valid(c, stored'[c])
    BY DEF ClaimsAreEvidenced
  <2>1. CASE UNCHANGED stored
    BY <2>1 DEF ClaimsAreEvidenced
  <2>2. ASSUME NEW m, Register!Store(m) PROVE Valid(c, stored'[c])
    <3>1. Register!TakesUp(m, c)
      BY <2>2 DEF Register!Store, Register!Keys
    <3>2. stored'[c] = stored[c] \/ Register!Valid(c, stored'[c])
      BY <3>1 DEF Register!TakesUp
    <3> QED
      BY <3>2
      DEF ClaimsAreEvidenced, Register!Valid, Register!Evidenced, Register!Null, Valid,
          Evidenced, Null
  <2> QED
    BY <2>1, <2>2, StoredNext DEF Register!Next
<1> QED
  BY <1>1, <1>2, Invariance, PTL DEF Spec

-----------------------------------------------------------------------------
(* Who waits for whom: what RequestsEnd comes to without fairness.           *)

\* A handler holds the locks of the items it has passed, and no others; one whose
\* transaction is over holds none.
OwnLocks(h) ==
  \A k \in Keys :
    holder[k] = h
      => /\ session[h].pc # "idle"
         /\ \E i \in 1..Len(session[h].message) :
              /\ session[h].message[i].key = k
              /\ \/ i < session[h].at
                 \/ i = session[h].at /\ session[h].pc \in {"read", "decide"}

LocksInv == Inv /\ \A h \in Handlers : OwnLocks(h)

\* Locks that others take or give back are no concern of a handler.
LEMMA OwnLocksKept ==
  ASSUME NEW g \in Handlers, OwnLocks(g), session'[g] = session[g],
         \A k \in Keys : holder'[k] = g => holder[k] = g
  PROVE  OwnLocks(g)'
BY DEF OwnLocks

\* The end of a transaction leaves no lock behind.
LEMMA OverFrees ==
  ASSUME LocksInv, NEW h \in Handlers, Over(h)
  PROVE  \A g \in Handlers : OwnLocks(g)'
<1>1. \A k \in Keys : holder'[k] = IF holder[k] = h THEN Nobody ELSE holder[k]
  BY DEF Over
<1>2. OwnLocks(h)'
  BY <1>1, NobodyAssumption DEF OwnLocks
<1>3. ASSUME NEW g \in Handlers, g # h PROVE OwnLocks(g)'
  <2>1. session'[g] = session[g]
    BY <1>3 DEF Over, LocksInv, Inv, TypeInv, TypeOK
  <2>2. \A k \in Keys : holder'[k] = g => holder[k] = g
    BY <1>1, <1>3, NobodyAssumption
  <2> QED
    BY <2>1, <2>2, OwnLocksKept DEF LocksInv
<1> QED
  BY <1>2, <1>3

\* A step of one session that moves on in its message and takes no lock.
LEMMA MovesOn ==
  ASSUME LocksInv, NEW h \in Handlers, NEW a, session' = [session EXCEPT ![h] = a],
         UNCHANGED holder,
         a.message = session[h].message, a.pc # "idle",
         \/ a.at = session[h].at /\ a.pc \in {"read", "decide"}
         \/ a.at = session[h].at + 1
  PROVE  \A g \in Handlers : OwnLocks(g)'
<1>1. /\ session'[h] = a
      /\ \A g \in Handlers : g # h => session'[g] = session[g]
  BY DEF LocksInv, Inv, TypeInv, TypeOK
<1>2. OwnLocks(h)'
  <2> SUFFICES ASSUME NEW k \in Keys, holder[k] = h
               PROVE  \E i \in 1..Len(a.message) :
                        /\ a.message[i].key = k
                        /\ i < a.at \/ (i = a.at /\ a.pc \in {"read", "decide"})
    BY <1>1 DEF OwnLocks
  <2>1. session[h].at \in Nat
    BY SessionFacts DEF LocksInv, Inv
  <2>2. PICK i \in 1..Len(session[h].message) :
          /\ session[h].message[i].key = k
          /\ i < session[h].at \/ i = session[h].at
    BY DEF LocksInv, OwnLocks
  <2>3. Len(session[h].message) \in Nat /\ i \in Nat
    BY SessionFacts, MessageFacts DEF LocksInv, Inv
  <2>4. i < a.at \/ (i = a.at /\ a.pc \in {"read", "decide"})
    BY <2>1, <2>2, <2>3
  <2> QED
    BY <2>2, <2>4
<1>3. ASSUME NEW g \in Handlers, g # h PROVE OwnLocks(g)'
  BY <1>1, <1>3, OwnLocksKept DEF LocksInv
<1> QED
  BY <1>2, <1>3

LEMMA LocksNext == LocksInv /\ [Next]_vars => LocksInv'
<1> SUFFICES ASSUME LocksInv, [Next]_vars PROVE LocksInv'
  OBVIOUS
<1>0. Inv /\ Inv' /\ TypeInv
  BY InvNext DEF LocksInv, Inv
<1>1. ASSUME NEW h \in Handlers, NEW m \in Messages, Receive(h, m)
      PROVE  \A g \in Handlers : OwnLocks(g)'
  <2>1. \A k \in Keys : holder[k] # h
    BY <1>1 DEF LocksInv, OwnLocks, Receive
  <2>2. \A g \in Handlers : g # h => session'[g] = session[g]
    BY <1>0, <1>1 DEF Receive, TypeInv, TypeOK
  <2>3. UNCHANGED holder
    BY <1>1 DEF Receive
  <2>4. OwnLocks(h)'
    BY <2>1, <2>3 DEF OwnLocks
  <2> QED
    BY <2>2, <2>3, <2>4, OwnLocksKept DEF LocksInv
<1>2. ASSUME NEW h \in Handlers, Lock(h)
      PROVE  \A g \in Handlers : OwnLocks(g)'
  <2> DEFINE a == [session[h] EXCEPT !.pc = "read"]
  <2>0. session[h] \in Session /\ Placed(h) /\ session[h].pc = "lock"
    BY <1>0, <1>2, SessionFacts DEF Lock, Inv, SyncInv
  <2>1. /\ a.pc = "read" /\ a.message = session[h].message /\ a.at = session[h].at
        /\ session'[h] = a
        /\ \A g \in Handlers : g # h => session'[g] = session[g]
    BY <1>0, <1>2, <2>0 DEF Lock, TypeInv, TypeOK, Session
  <2>2. /\ session[h].at \in 1..Len(session[h].message)
        /\ Item(h) = session[h].message[session[h].at]
        /\ Item(h).key \in Keys
    BY <1>0, <2>0, AtItem
  <2>3. \A k \in Keys : holder'[k] = IF k = Item(h).key THEN h ELSE holder[k]
    BY <1>0, <1>2 DEF Lock, TypeInv, TypeOK
  <2> HIDE DEF a
  <2>4. OwnLocks(h)'
    <3> SUFFICES ASSUME NEW k \in Keys, holder'[k] = h
                 PROVE  \E i \in 1..Len(session[h].message) :
                          /\ session[h].message[i].key = k
                          /\ i < session[h].at \/ i = session[h].at
      BY <2>1 DEF OwnLocks
    <3>1. CASE k = Item(h).key
      BY <2>2, <3>1
    <3>2. CASE k # Item(h).key
      BY <2>3, <3>2 DEF LocksInv, OwnLocks
    <3> QED
      BY <3>1, <3>2
  <2>5. ASSUME NEW g \in Handlers, g # h PROVE OwnLocks(g)'
    BY <2>1, <2>3, <2>5, OwnLocksKept DEF LocksInv
  <2> QED
    BY <2>4, <2>5
<1>3. ASSUME NEW h \in Handlers, Read(h)
      PROVE  \A g \in Handlers : OwnLocks(g)'
  <2> DEFINE a == [session[h] EXCEPT !.pc = "decide", !.before = Visible(h, Item(h).key)]
  <2>1. session[h] \in Session
    BY <1>0, SessionFacts
  <2>2. /\ session' = [session EXCEPT ![h] = a] /\ UNCHANGED holder
        /\ a.pc = "decide" /\ a.message = session[h].message /\ a.at = session[h].at
    BY <1>3, <2>1 DEF Read, Session
  <2> HIDE DEF a
  <2> QED
    BY <2>2, MovesOn
<1>4. ASSUME NEW h \in Handlers, NEW touched, NEW written, Proceed(h, touched, written)
      PROVE  \A g \in Handlers : OwnLocks(g)'
  <2> DEFINE n == session[h].at + 1
             a == [session[h] EXCEPT
                     !.pc = IF n <= Len(session[h].message) THEN "lock" ELSE "commit",
                     !.at = n, !.before = NoRow, !.touched = touched, !.written = written]
  <2>1. session[h] \in Session
    BY <1>0, SessionFacts
  <2>2. /\ session' = [session EXCEPT ![h] = a] /\ UNCHANGED holder
        /\ a.pc # "idle" /\ a.message = session[h].message /\ a.at = session[h].at + 1
    BY <1>4, <2>1 DEF Proceed, Session
  <2> HIDE DEF a, n
  <2> QED
    BY <2>2, MovesOn
<1>5. ASSUME NEW h \in Handlers, Over(h)
      PROVE  \A g \in Handlers : OwnLocks(g)'
  BY <1>5, OverFrees
<1>6. ASSUME NEW h \in Handlers, Decide(h)
      PROVE  \A g \in Handlers : OwnLocks(g)'
  BY <1>4, <1>5, <1>6 DEF Decide, Upsert, Settle, Skip, Rollback
<1>7. CASE UNCHANGED vars
  <2>1. UNCHANGED <<holder, session>>
    BY <1>7 DEF vars
  <2> QED
    BY <1>0, <2>1, OwnLocksKept DEF LocksInv
<1>8. ASSUME NEW h \in Handlers, Commit(h) \/ BreakDeadlock(h) \/ Abort(h)
      PROVE  \A g \in Handlers : OwnLocks(g)'
  BY <1>5, <1>8 DEF Commit, BreakDeadlock, Abort, Rollback
<1> QED
  BY <1>0, <1>1, <1>2, <1>3, <1>6, <1>7, <1>8 DEF Next, Step, LocksInv

LEMMA LocksCorrect == Spec => []LocksInv
<1>1. Init => LocksInv
  <2> SUFFICES ASSUME Init PROVE LocksInv
    OBVIOUS
  <2>1. \A k \in Keys, h \in Handlers : holder[k] # h
    BY NobodyAssumption DEF Init
  <2> QED
    BY <2>1, InvInit DEF LocksInv, OwnLocks
<1> QED
  BY <1>1, LocksNext, PTL DEF Spec

\* Whoever waits for an advisory lock waits for a transaction under way, and nobody
\* waits for a row.
WaitsAreForOthers ==
  \A h \in Handlers :
    /\ session[h].pc = "lock"
         => \/ LockIsFree(h, Item(h).key)
            \/ \E g \in Handlers : WaitsFor(h, g) /\ session[g].pc # "idle"
    /\ session[h].pc = "decide" => RowFree(h, Item(h).key)

\* A lock is never left behind by a transaction that is over, and the upsert never
\* meets a row that another transaction has written and not committed: the advisory
\* locks are all that requests wait for.
THEOREM WaitsAreForOthersCorrect == Spec => []WaitsAreForOthers
<1>1. ASSUME LocksInv, NEW h \in Handlers, session[h].pc = "lock",
             ~ LockIsFree(h, Item(h).key)
      PROVE  \E g \in Handlers : WaitsFor(h, g) /\ session[g].pc # "idle"
  <2>1. Item(h).key \in Keys
    BY <1>1, AtItem DEF LocksInv, Inv, SyncInv
  <2>2. PICK g \in Handlers : g # h /\ holder[Item(h).key] = g
    BY <1>1, <2>1 DEF LockIsFree, LocksInv, Inv, TypeInv, TypeOK
  <2>3. WaitsFor(h, g)
    BY <1>1, <2>2 DEF WaitsFor
  <2>4. session[g].pc # "idle"
    BY <1>1, <2>1, <2>2 DEF LocksInv, OwnLocks
  <2> QED
    BY <2>3, <2>4
<1>2. ASSUME LocksInv, NEW h \in Handlers, session[h].pc = "decide"
      PROVE  RowFree(h, Item(h).key)
  <2>1. holder[Item(h).key] = h
    BY <1>2, AtItem DEF LocksInv, Inv, SyncInv
  <2>2. \A g \in Handlers : \A k \in session[g].touched : holder[k] = g
    BY <1>2 DEF LocksInv, Inv, SyncInv, Drafted
  <2> QED
    BY <2>1, <2>2 DEF RowFree
<1>3. LocksInv => WaitsAreForOthers
  BY <1>1, <1>2 DEF WaitsAreForOthers
<1> QED
  BY <1>3, LocksCorrect, PTL

\* Who waits in a circle has the lock of an earlier item of a list.
OnlyListsDeadlock ==
  \A h \in Handlers : Deadlocked(h) => session[h].at > 1 /\ Item(h).key \in Providers

\* A message about a customer takes one lock and so is never the one that PostgreSQL
\* rolls back to end a deadlock, however many lists it races with.
THEOREM OnlyListsDeadlockCorrect == Spec => []OnlyListsDeadlock
<1>1. ASSUME LocksInv, NEW h \in Handlers, Deadlocked(h)
      PROVE  session[h].at > 1 /\ Item(h).key \in Providers
  <2>1. PICK circle \in SUBSET Handlers :
          /\ h \in circle
          /\ \A g \in circle : /\ \E f \in circle : WaitsFor(g, f)
                               /\ \E f \in circle : WaitsFor(f, g)
    BY <1>1 DEF Deadlocked
  <2>2. session[h].pc = "lock"
    BY <2>1 DEF WaitsFor
  <2>3. PICK f \in Handlers : session[f].pc = "lock" /\ holder[Item(f).key] = h
    BY <2>1 DEF WaitsFor
  <2>4. Item(f).key \in Keys
    BY <1>1, <2>3, AtItem DEF LocksInv, Inv, SyncInv
  <2>5. PICK i \in 1..Len(session[h].message) : i < session[h].at
    BY <1>1, <2>2, <2>3, <2>4 DEF LocksInv, OwnLocks
  <2>6. /\ session[h].at \in 1..Len(session[h].message)
        /\ Item(h) = session[h].message[session[h].at]
        /\ Item(h).key \in Keys
    BY <1>1, <2>2, AtItem DEF LocksInv, Inv, SyncInv
  <2>7. /\ Len(session[h].message) \in Nat
        /\ \A j \in 1..Len(session[h].message) :
             session[h].message[j].key \in References => Len(session[h].message) = 1
    BY <1>1, SessionFacts, MessageFacts DEF LocksInv, Inv
  <2>8. session[h].at > 1
    BY <2>5, <2>6, <2>7
  <2>9. Item(h).key \notin References
    BY <2>6, <2>7, <2>8
  <2> QED
    BY <2>6, <2>8, <2>9 DEF Keys
<1>2. LocksInv => OnlyListsDeadlock
  BY <1>1 DEF OnlyListsDeadlock
<1> QED
  BY <1>2, LocksCorrect, PTL

=============================================================================
