-------------------------- MODULE MCIdentitySync --------------------------
(***************************************************************************)
(* A small instance of IdentitySync: one customer and two providers.  The  *)
(* customer's events are partial: two of them have the same time and say   *)
(* different things, one claims a configured identity whose document only  *)
(* another one brings, and one clears it.  A consent comes with its        *)
(* evidence, as the route demands.  The messages about providers repeat    *)
(* each other in opposite orders, with news in one of their items only, and*)
(* contradict each other.                                                  *)
(***************************************************************************)
EXTENDS IdentitySync

Event(time, status, changes) ==
  [key |-> "c1", time |-> time, status |-> status,
   fields |-> [f \in Fields |->
                 IF f \in DOMAIN changes THEN changes[f] ELSE Omitted]]

Verified == Event(1, "VERIFIED", [evidence |-> "present", document |-> "present"])
Renamed == Event(2, "VERIFIED", [contact |-> "phone", configured |-> "present"])
Cleared == Event(2, "VERIFIED", [evidence |-> Null])
Failed == Event(3, "VERIFICATION_FAILED", [evidence |-> Null, accepted |-> "present",
                                           consent |-> "present"])
Reverified == Event(4, "VERIFIED", [document |-> Null])

Events == {Verified, Renamed, Cleared, Failed, Reverified}

Snapshot(key, time, data) == [key |-> key, time |-> time, data |-> [capability |-> data]]

ProviderMessages ==
  {<<Snapshot("p1", 1, "sync")>>,
   <<Snapshot("p1", 1, "sync"), Snapshot("p2", 2, "async")>>,
   <<Snapshot("p2", 2, "sync"), Snapshot("p2", 3, "async"), Snapshot("p1", 3, "async")>>}

=============================================================================
