------------------------ MODULE CertificationRegister ------------------------
(***************************************************************************)
(* What certification promises, seen from outside: a run examines the      *)
(* configuration in force at one moment, passes only if that is fit, and   *)
(* gets one verdict; and the one moment at which a second person certifies *)
(* it, with its provider, finds the same configuration in force.  Reads    *)
(* that a change came between are hazy: such a run may have examined what  *)
(* never was in force, and such an approval may not have noticed.          *)
(* Requests, checks, hashes, locks and capability rows do not appear.      *)
(***************************************************************************)
CONSTANTS Runs, Users, Configurations, Fit, None

VARIABLES
  inForce,    \* the configuration of the connector
  certified,  \* whether its provider is certified
  verdict,    \* what each run came to
  maker,      \* who asked for it
  examined,   \* the configuration it looked at
  approver,   \* who certified it
  hazy        \* runs and approvals that had the configuration change under them

files == <<verdict, maker, examined, approver>>

Init ==
  /\ inForce \in Configurations
  /\ certified = FALSE
  /\ verdict = [r \in Runs |-> "NONE"]
  /\ maker = [r \in Runs |-> None]
  /\ examined = [r \in Runs |-> None]
  /\ approver = [r \in Runs |-> None]
  /\ hazy = {}

Change ==
  /\ inForce' \in Configurations \ {inForce}
  /\ hazy \subseteq hazy'
  /\ UNCHANGED <<certified, files>>

\* An approval that starts again starts clear.
Refresh(u) ==
  /\ hazy' = hazy \ {u}
  /\ UNCHANGED <<inForce, certified, files>>

MayExamine(r) == IF r \in hazy THEN Configurations ELSE {inForce}

Open(r, u) ==
  /\ verdict[r] = "NONE"
  /\ verdict' = [verdict EXCEPT ![r] = "RUNNING"]
  /\ maker' = [maker EXCEPT ![r] = u]
  /\ \E c \in MayExamine(r) : examined' = [examined EXCEPT ![r] = c]
  /\ UNCHANGED <<inForce, certified, approver, hazy>>

\* Once, and in favour of what is fit only.
Judge(r, v) ==
  /\ verdict[r] = "RUNNING"
  /\ v = "PASSED" => examined[r] \in Fit
  /\ verdict' = [verdict EXCEPT ![r] = v]
  /\ UNCHANGED <<inForce, certified, maker, examined, approver, hazy>>

\* By another person, and what was examined; the run and the provider at once.
Certify(r, u) ==
  /\ verdict[r] = "PASSED"
  /\ maker[r] # u
  /\ examined[r] = inForce \/ r \in hazy \/ u \in hazy
  /\ verdict' = [verdict EXCEPT ![r] = "CERTIFIED"]
  /\ approver' = [approver EXCEPT ![r] = u]
  /\ certified' = TRUE
  /\ UNCHANGED <<inForce, maker, examined, hazy>>

Next ==
  \/ Change
  \/ \E u \in Users : Refresh(u)
  \/ \E r \in Runs :
       \/ \E v \in {"PASSED", "FAILED"} : Judge(r, v)
       \/ \E u \in Users : Open(r, u) \/ Certify(r, u)

Spec == Init /\ [][Next]_<<inForce, certified, files, hazy>>

=============================================================================
