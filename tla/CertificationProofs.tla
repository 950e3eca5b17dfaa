------------------------- MODULE CertificationProofs -------------------------
(***************************************************************************)
(* The properties of Certification for any number of runs, users, editors  *)
(* and capabilities, and any connector that was created disabled; at the   *)
(* end, that it implements CertificationRegister.                          *)
(***************************************************************************)
EXTENDS Certification, TLAPS

-----------------------------------------------------------------------------
(* The checks. *)

\* Nothing failed only if everything passed.
Thorough(checks) ==
  \/ \E code \in CheckCodes : checks[code] = "FAIL"
  \/ \A code \in CheckCodes : checks[code] = "PASS"

LEMMA PassIfType == \A condition \in BOOLEAN : PassIf(condition) \in {"PASS", "FAIL"}
BY DEF PassIf

\* Whatever keeps the provider from being asked fails a check; if nothing does, the
\* provider's health is the only check that is skipped.
LEMMA PreflightFacts ==
  ASSUME NEW status, NEW c \in Connector, NEW declared \in SUBSET Capabilities,
         NEW p, p = Preflight(status, c, declared)
  PROVE  /\ p \in [CheckCodes -> Verdict]
         /\ p["health"] = "SKIP"
         /\ CanProbe(c) => \A code \in CheckCodes \ {"health"} : p[code] \in {"PASS", "FAIL"}
         /\ ~ CanProbe(c) => Thorough(p)
<1>1. ASSUME NEW code \in CheckCodes
      PROVE  p[code] \in Verdict
  BY <1>1 DEF CheckCodes, Preflight, PassIf, Verdict
<1>2. p["health"] = "SKIP"
  BY DEF CheckCodes, Preflight
<1>3. ASSUME CanProbe(c), NEW code \in CheckCodes \ {"health"}
      PROVE  p[code] \in {"PASS", "FAIL"}
  BY <1>3 DEF CheckCodes, Preflight, PassIf, CanProbe, Adapted
<1>4. ~ CanProbe(c) => Thorough(p)
  <2>1. ~ Adapted(c) => p["executable"] = "FAIL"
    BY DEF CheckCodes, Preflight
  <2>2. ~ c.https => p["https"] = "FAIL"
    BY DEF CheckCodes, Preflight, PassIf
  <2>3. ~ c.credentials => p["credentials"] = "FAIL"
    BY DEF CheckCodes, Preflight, PassIf
  <2> QED
    BY <2>1, <2>2, <2>3 DEF CanProbe, Thorough, CheckCodes
<1> QED
  BY <1>1, <1>2, <1>3, <1>4 DEF Preflight

LEMMA HealthFacts ==
  ASSUME NEW p \in [CheckCodes -> Verdict], NEW verdict \in {"PASS", "FAIL"},
         \A code \in CheckCodes \ {"health"} : p[code] \in {"PASS", "FAIL"}
  PROVE  /\ [p EXCEPT !["health"] = verdict] \in [CheckCodes -> Verdict]
         /\ Thorough([p EXCEPT !["health"] = verdict])
BY DEF Thorough, Verdict, CheckCodes

-----------------------------------------------------------------------------
(* Types. *)

\* TypeOK, and a request that has started has a user and a configuration.
TypeInv ==
  /\ TypeOK
  /\ \A r \in Runs : request[r].pc # "new" =>
       request[r].user \in Users /\ request[r].tested \in Configuration

LEMMA CurrentConfigurationType ==
  ASSUME TypeOK
  PROVE  Declared \in SUBSET Capabilities /\ CurrentConfiguration \in Configuration
BY DEF TypeOK, CurrentConfiguration, Configuration, Declared, Codes, Row

\* A step of request r, and nothing but its row of run.
LEMMA RequestStepType ==
  ASSUME TypeInv, NEW r \in Runs, NEW q \in Request, NEW row \in Run,
         q.pc # "new", q.user \in Users, q.tested \in Configuration,
         request' = [request EXCEPT ![r] = q], run' = run \/ run' = [run EXCEPT ![r] = row],
         UNCHANGED <<provider, connector, offered, review, edit, probing, disturbed>>
  PROVE  TypeInv'
BY DEF TypeInv, TypeOK

LEMMA RunRows ==
  ASSUME TypeInv, NEW r \in Runs
  PROVE  /\ run[r] \in Run
         /\ request[r] \in Request
         /\ NoRun \in Run
         /\ NoChecks \in [CheckCodes -> Verdict]
BY DEF TypeInv, TypeOK, NoRun, Run, NoChecks, Verdict

LEMMA RunStepType ==
  ASSUME TypeInv, NEW r \in Runs, RunStep(r)
  PROVE  TypeInv'
<1> USE RunRows
<1>1. ASSUME NEW u \in Users, ReadConnector(r, u)
      PROVE  TypeInv'
  <2> DEFINE q == [NewRequest EXCEPT
                     !.pc = "capabilities", !.user = u, !.provider = provider,
                     !.tested = [connector |-> connector, capabilities |-> {}]]
  <2>1. /\ q \in Request
        /\ q.pc # "new" /\ q.user \in Users /\ q.tested \in Configuration
    BY DEF TypeInv, TypeOK, NewRequest, Request, Configuration
  <2> QED
    BY <1>1, <2>1, RequestStepType DEF ReadConnector
<1>2. CASE ReadCapabilities(r)
  <2> DEFINE q == [request[r] EXCEPT !.pc = "insert",
                     !.tested = [request[r].tested EXCEPT !.capabilities = Declared]]
  <2>1. request[r].user \in Users /\ request[r].tested \in Configuration
    BY <1>2 DEF ReadCapabilities, TypeInv
  <2>2. /\ q \in Request
        /\ q.pc # "new" /\ q.user \in Users /\ q.tested \in Configuration
    BY <2>1, CurrentConfigurationType DEF TypeInv, Request, Configuration
  <2>3. request' = [request EXCEPT ![r] = q]
    BY <1>2 DEF ReadCapabilities, TypeInv, TypeOK, Request
  <2> QED
    BY <1>2, <2>2, <2>3, RequestStepType DEF ReadCapabilities
<1>3. CASE InsertRun(r)
  <2> DEFINE q == [request[r] EXCEPT !.pc = "check"]
             row == [NoRun EXCEPT !.status = "RUNNING", !.requestedBy = request[r].user,
                                  !.hash = CurrentConfiguration]
  <2>1. request[r].user \in Users /\ request[r].tested \in Configuration
    BY <1>3 DEF InsertRun, TypeInv
  <2>2. /\ q \in Request
        /\ q.pc # "new" /\ q.user \in Users /\ q.tested \in Configuration
    BY <2>1 DEF Request
  <2>3. row \in Run
    BY <2>1, CurrentConfigurationType DEF TypeInv, Run, NoRun
  <2> QED
    BY <1>3, <2>2, <2>3, RequestStepType DEF InsertRun
<1>4. CASE CheckConfiguration(r)
  <2> DEFINE tested == request[r].tested
             p == Preflight(request[r].provider, tested.connector, tested.capabilities)
             q == [request[r] EXCEPT
                     !.pc = IF CanProbe(tested.connector) THEN "probe" ELSE "finish",
                     !.checks = p]
  <2>1. request[r].user \in Users /\ tested \in Configuration
    BY <1>4 DEF CheckConfiguration, TypeInv
  <2>2. p \in [CheckCodes -> Verdict]
    BY <2>1, PreflightFacts DEF Configuration
  <2> HIDE DEF p
  <2>3. /\ q \in Request
        /\ q.pc # "new" /\ q.user \in Users /\ q.tested \in Configuration
    BY <2>1, <2>2 DEF Request
  <2>4. request' = [request EXCEPT ![r] = q]
    BY <1>4 DEF CheckConfiguration, p
  <2> QED
    BY <1>4, <2>3, <2>4, RequestStepType DEF CheckConfiguration
<1>5. ASSUME NEW verdict \in {"PASS", "FAIL"}, ProbeProvider(r, verdict)
      PROVE  TypeInv'
  <2> DEFINE q == [request[r] EXCEPT
                     !.pc = "finish", !.checks = [request[r].checks EXCEPT !["health"] = verdict]]
  <2>1. request[r].user \in Users /\ request[r].tested \in Configuration
    BY <1>5 DEF ProbeProvider, TypeInv
  <2>2. [request[r].checks EXCEPT !["health"] = verdict] \in [CheckCodes -> Verdict]
    BY DEF Request, Verdict
  <2>3. /\ q \in Request
        /\ q.pc # "new" /\ q.user \in Users /\ q.tested \in Configuration
    BY <2>1, <2>2 DEF Request
  <2>4. request' = [request EXCEPT ![r] = q]
    BY <1>5 DEF ProbeProvider, TypeInv, TypeOK, Request
  <2> QED
    BY <1>5, <2>3, <2>4, RequestStepType DEF ProbeProvider
<1>6. CASE FinishRun(r)
  <2>1. request[r].user \in Users /\ request[r].tested \in Configuration
    BY <1>6 DEF FinishRun, TypeInv
  <2>2. PICK reply \in {"over", "fail"} : request' = [request EXCEPT ![r].pc = reply]
    BY <1>6 DEF FinishRun
  <2> DEFINE q == [request[r] EXCEPT !.pc = reply]
             row == [run[r] EXCEPT !.status = Outcome(request[r].checks),
                                   !.checks = request[r].checks, !.hash = KeptHash(r)]
  <2>3. /\ q \in Request
        /\ q.pc # "new" /\ q.user \in Users /\ q.tested \in Configuration
    BY <2>1 DEF Request
  <2>4. row \in Run
    BY DEF Run, Outcome, KeptHash, Request
  <2>5. run' = [run EXCEPT ![r] = row]
    BY <1>6 DEF FinishRun
  <2> QED
    BY <1>6, <2>2, <2>3, <2>4, <2>5, RequestStepType DEF FinishRun
<1>7. CASE Throw(r) \/ FailRun(r)
  <2>1. request[r].user \in Users /\ request[r].tested \in Configuration
    BY <1>7 DEF Throw, FailRun, TypeInv
  <2>2. PICK pc \in {"over", "fail"} : request' = [request EXCEPT ![r].pc = pc]
    BY <1>7 DEF Throw, FailRun
  <2> DEFINE q == [request[r] EXCEPT !.pc = pc]
             row == [run[r] EXCEPT !.status = "FAILED"]
  <2>3. /\ q \in Request
        /\ q.pc # "new" /\ q.user \in Users /\ q.tested \in Configuration
    BY <2>1 DEF Request
  <2>4. row \in Run
    BY DEF Run
  <2>5. run' = run \/ run' = [run EXCEPT ![r] = row]
    BY <1>7 DEF Throw, FailRun
  <2> QED
    BY <1>7, <2>2, <2>3, <2>4, <2>5, RequestStepType DEF Throw, FailRun
<1> QED
  BY <1>1, <1>2, <1>3, <1>4, <1>5, <1>6, <1>7 DEF RunStep

LEMMA ConfigurationStepType ==
  ASSUME TypeInv, AdvanceProviderLifecycle \/ ConfigurationStep
  PROVE  TypeInv'
<1>1. CASE AdvanceProviderLifecycle
  BY <1>1 DEF AdvanceProviderLifecycle, NextStage, TypeInv, TypeOK, ProviderStatus
<1>2. ASSUME NEW c \in Connector, NEW rows \in SUBSET Row, Configured(c, rows),
             edit' \in [Editors -> Edit], probing' \in BOOLEAN,
             UNCHANGED <<provider, run, request, review>>
      PROVE  TypeInv'
  BY <1>2 DEF Configured, Reading, TypeInv, TypeOK
<1>3. ASSUME UNCHANGED <<provider, connector, offered, run, request, review, disturbed>>,
             edit' \in [Editors -> Edit], probing' \in BOOLEAN
      PROVE  TypeInv'
  BY <1>3 DEF TypeInv, TypeOK
<1>4. connector \in Connector /\ offered \in SUBSET Row /\ edit \in [Editors -> Edit]
        /\ probing \in BOOLEAN
  BY DEF TypeInv, TypeOK
<1>5. ASSUME NEW status \in {"ACTIVE", "DISABLED", "MAINTENANCE"}, NEW enabled \in BOOLEAN,
             SetPreproductionConnectorState(status, enabled)
      PROVE  TypeInv'
  <2>1. [connector EXCEPT !.status = status, !.enabled = enabled] \in Connector
    BY <1>4 DEF Connector, ConnectorStatus
  <2> QED
    BY <1>2, <1>4, <1>5, <2>1 DEF SetPreproductionConnectorState
<1>6. ASSUME NEW e \in Editors, NEW wanted \in SUBSET Capabilities, SelectCapabilities(e, wanted)
      PROVE  TypeInv'
  <2>1. [pc |-> "write", wanted |-> wanted, seen |-> offered] \in Edit
    BY <1>4 DEF Edit
  <2>2. edit' \in [Editors -> Edit]
    BY <1>4, <1>6, <2>1 DEF SelectCapabilities
  <2> QED
    BY <1>3, <1>4, <1>6, <2>2 DEF SelectCapabilities
<1>7. ASSUME NEW e \in Editors, ReplaceCapabilities(e)
      PROVE  TypeInv'
  <2> DEFINE rows == (offered \ edit[e].seen) \cup (edit[e].wanted \X {e})
  <2>1. rows \in SUBSET Row
    BY <1>4 DEF Edit, Row
  <2>2. [NoEdit EXCEPT !.pc = "over"] \in Edit
    BY DEF Edit, NoEdit
  <2>3. edit' \in [Editors -> Edit]
    BY <1>4, <1>7, <2>2 DEF ReplaceCapabilities
  <2>4. CASE Configured(connector, rows)
    <3> HIDE DEF rows
    <3> QED
      BY <1>2, <1>4, <1>7, <2>1, <2>3, <2>4 DEF ReplaceCapabilities
  <2>5. CASE UNCHANGED <<connector, offered, disturbed>>
    BY <1>3, <1>4, <1>7, <2>3, <2>5 DEF ReplaceCapabilities
  <2> QED
    BY <1>7, <2>4, <2>5 DEF ReplaceCapabilities
<1>8. CASE SelectForProbe \/ ReportNothing
  BY <1>3, <1>4, <1>8 DEF SelectForProbe, ReportNothing
<1>9. ASSUME NEW status \in {"ACTIVE", "DEGRADED", "OUTAGE"}, UpdateConnectorStatus(status)
      PROVE  TypeInv'
  <2>1. [connector EXCEPT !.status = status] \in Connector
    BY <1>4 DEF Connector, ConnectorStatus
  <2>2. edit' \in [Editors -> Edit] /\ probing' \in BOOLEAN
    BY <1>4, <1>9 DEF UpdateConnectorStatus
  <2>3. CASE MayReport
    BY <1>2, <1>4, <1>9, <2>1, <2>2, <2>3 DEF UpdateConnectorStatus
  <2>4. CASE ~ MayReport
    BY <1>3, <1>9, <2>2, <2>4 DEF UpdateConnectorStatus
  <2> QED
    BY <2>3, <2>4
<1> QED
  BY <1>1, <1>5, <1>6, <1>7, <1>8, <1>9 DEF ConfigurationStep

LEMMA ReviewStepType ==
  ASSUME TypeInv, NEW u \in Users, ReviewStep(u)
  PROVE  TypeInv'
<1>1. /\ NoReview \in Review
      /\ \A r \in Runs : [pc |-> "hash", run |-> r] \in Review
      /\ \A pc \in {"connector", "approve"} : [review[u] EXCEPT !.pc = pc] \in Review
  BY DEF NoReview, Review, TypeInv, TypeOK
<1>2. ASSUME UNCHANGED <<provider, connector, offered, run, request, edit, probing>>,
             disturbed' \subseteq disturbed, review' \in [Users -> Review]
      PROVE  TypeInv'
  BY <1>2 DEF TypeInv, TypeOK
<1>3. ASSUME NEW r \in Runs, LockRun(u, r)
      PROVE  TypeInv'
  <2>1. review' \in [Users -> Review]
    BY <1>1, <1>3 DEF LockRun, TypeInv, TypeOK
  <2> QED
    BY <1>2, <1>3, <2>1 DEF LockRun
<1>4. CASE CompareHash(u) \/ CheckConnector(u) \/ Abandon(u)
  <2>1. review' \in [Users -> Review]
    BY <1>1, <1>4 DEF CompareHash, CheckConnector, Abandon, Idle, TypeInv, TypeOK
  <2> QED
    BY <1>2, <1>4, <2>1 DEF CompareHash, CheckConnector, Abandon
<1>5. CASE Approve(u)
  <2>1. review' \in [Users -> Review]
    BY <1>1, <1>5 DEF Approve, Idle, TypeInv, TypeOK
  <2>2. provider' \in ProviderStatus
    BY <1>5 DEF Approve, Certify, TypeInv, TypeOK, ProviderStatus
  <2>3. ASSUME NEW r \in Runs
        PROVE  [run[r] EXCEPT !.status = "CERTIFIED", !.approvedBy = u] \in Run
    BY RunRows DEF Run
  <2>4. run' \in [Runs -> Run]
    <3> DEFINE r == review[u].run
               row == [run[r] EXCEPT !.status = "CERTIFIED", !.approvedBy = u]
    <3>1. run' = run \/ run' = [run EXCEPT ![r] = row]
      BY <1>5 DEF Approve, Certify
    <3>2. r \in Runs => row \in Run
      BY <2>3
    <3> HIDE DEF r, row
    <3> QED
      BY <3>1, <3>2 DEF TypeInv, TypeOK
  <2> QED
    BY <1>5, <2>1, <2>2, <2>4 DEF Approve, TypeInv, TypeOK
<1> QED
  BY <1>3, <1>4, <1>5 DEF ReviewStep

LEMMA TypeAtInit == Init => TypeInv
<1>1. NoRun \in Run /\ NewRequest \in Request
  BY DEF NoRun, Run, NoChecks, Verdict, NewRequest, Request, ProviderStatus
<1>2. NoReview \in Review /\ NoEdit \in Edit
  BY DEF NoReview, Review, NoEdit, Edit
<1>3. NewRequest.pc = "new"
  BY DEF NewRequest
<1>4. FirstConnectors \subseteq Connector
  BY FirstConnectorsAssumption
<1> QED
  BY <1>1, <1>2, <1>3, <1>4 DEF Init, TypeInv, TypeOK, ProviderStatus

\* Every variable keeps its type, and a request that has started has a user and a
\* configuration to test.
THEOREM TypeCorrect == Spec => []TypeInv
<1>1. Init => TypeInv
  BY TypeAtInit
<1>2. TypeInv /\ [Next]_vars => TypeInv'
  <2> SUFFICES ASSUME TypeInv, [Next]_vars
               PROVE  TypeInv'
    OBVIOUS
  <2>1. CASE UNCHANGED vars
    BY <2>1 DEF vars, TypeInv, TypeOK
  <2>2. CASE Next
    BY <2>2, RunStepType, ConfigurationStepType, ReviewStepType DEF Next
  <2> QED
    BY <2>1, <2>2
<1> QED
  BY <1>1, <1>2, PTL DEF Spec

-----------------------------------------------------------------------------
(* The inductive invariant. *)

Early == {"new", "capabilities", "insert"}

\* A request knows no verdict before its run exists, and its run has none before it.
Placed(r) ==
  request[r].pc \in Early => run[r].status = "NONE" /\ request[r].checks = NoChecks

\* Only a configuration that passed the preflight is probed, what is written is thorough,
\* and so is what passed.
Checked(r) ==
  /\ request[r].pc = "probe" =>
       \A code \in CheckCodes \ {"health"} : request[r].checks[code] \in {"PASS", "FAIL"}
  /\ request[r].pc = "probe" \/ request[r].checks["health"] # "SKIP" =>
       CanProbe(request[r].tested.connector)
  /\ request[r].pc = "finish" => Thorough(request[r].checks)
  /\ run[r].status \in {"PASSED", "CERTIFIED"} =>
       \A code \in CheckCodes : run[r].checks[code] = "PASS"

Approved(r) ==
  run[r].status = "CERTIFIED" => run[r].approvedBy \notin {None, run[r].requestedBy}

\* Whoever holds the row of a run may still approve it.
Held(u) ==
  review[u].pc # "idle" => review[u].run \in Runs /\ MayApprove(u, review[u].run)

Exclusive ==
  \A u, v \in Users : review[u].run = review[v].run /\ review[u].run # None => u = v

VerdictInv ==
  /\ TypeInv
  /\ \A r \in Runs : Placed(r) /\ Checked(r) /\ Approved(r)
  /\ \A u \in Users : Held(u)
  /\ Exclusive
  /\ CertifiedByARun

-----------------------------------------------------------------------------
(* What the steps of a request do to its run. *)

Others(r) ==
  \A s \in Runs \ {r} : request'[s] = request[s] /\ run'[s] = run[s]

LEMMA RequestStep ==
  ASSUME TypeInv, NEW r \in Runs, NEW q, NEW row,
         request' = [request EXCEPT ![r] = q], run' = [run EXCEPT ![r] = row]
  PROVE  Others(r) /\ request'[r] = q /\ run'[r] = row
BY DEF Others, TypeInv, TypeOK

\* A run whose verdict is known is left alone.
LEMMA RunStepEffect ==
  ASSUME VerdictInv, NEW r \in Runs, RunStep(r)
  PROVE  /\ UNCHANGED <<provider, connector, offered, review, edit, probing, disturbed>>
         /\ Others(r)
         /\ \/ run'[r] = run[r]
            \/ /\ run[r].status \in {"NONE", "RUNNING"}
               /\ run'[r].status # "CERTIFIED"
         /\ request'[r].pc # "new"
<1>1. UNCHANGED <<provider, connector, offered, review, edit, probing, disturbed>>
  BY DEF RunStep, ReadConnector, ReadCapabilities, InsertRun, CheckConfiguration, ProbeProvider,
         FinishRun, Throw, FailRun
<1>2. request \in [Runs -> Request] /\ run \in [Runs -> Run]
  BY DEF VerdictInv, TypeInv, TypeOK
<1>3. Others(r)
  BY <1>2
     DEF RunStep, ReadConnector, ReadCapabilities, InsertRun, CheckConfiguration, ProbeProvider,
         FinishRun, Throw, FailRun, Others
<1>4. CASE InsertRun(r)
  <2>1. run[r].status = "NONE"
    BY <1>4 DEF InsertRun, VerdictInv, Placed, Early
  <2>2. run'[r].status = "RUNNING"
    BY <1>2, <1>4 DEF InsertRun, NoRun
  <2>3. request'[r].pc = "check"
    BY <1>2, <1>4 DEF InsertRun, Request
  <2> QED
    BY <1>1, <1>3, <2>1, <2>2, <2>3
<1>5. CASE FinishRun(r)
  <2>1. run[r].status = "RUNNING"
    BY <1>5 DEF FinishRun
  <2>2. run'[r].status = Outcome(request[r].checks)
    BY <1>2, <1>5 DEF FinishRun, Run
  <2>3. Outcome(request[r].checks) # "CERTIFIED"
    BY DEF Outcome
  <2>4. request'[r].pc \in {"over", "fail"}
    BY <1>2, <1>5 DEF FinishRun, Request
  <2> QED
    BY <1>1, <1>3, <2>1, <2>2, <2>3, <2>4
<1>6. CASE FailRun(r)
  <2>1. request'[r].pc = "over"
    BY <1>2, <1>6 DEF FailRun, Request
  <2>2. CASE MayFail(r) /\ run' = [run EXCEPT ![r].status = "FAILED"]
    <3>1. run'[r].status = "FAILED"
      BY <1>2, <2>2 DEF Run
    <3> QED
      BY <1>1, <1>3, <2>1, <2>2, <3>1 DEF MayFail
  <2> QED
    BY <1>1, <1>3, <1>6, <2>1, <2>2 DEF FailRun
<1>7. CASE (\E u \in Users : ReadConnector(r, u)) \/ ReadCapabilities(r) \/ CheckConfiguration(r)
             \/ (\E verdict \in {"PASS", "FAIL"} : ProbeProvider(r, verdict)) \/ Throw(r)
  <2>1. run' = run
    BY <1>7 DEF ReadConnector, ReadCapabilities, CheckConfiguration, ProbeProvider, Throw
  <2>2. CASE \E u \in Users : ReadConnector(r, u)
    BY <1>1, <1>2, <1>3, <2>1, <2>2 DEF ReadConnector, NewRequest
  <2>3. CASE ReadCapabilities(r)
    BY <1>1, <1>2, <1>3, <2>1, <2>3 DEF ReadCapabilities, Request
  <2>4. CASE CheckConfiguration(r)
    <3>1. request'[r].pc \in {"probe", "finish"}
      BY <1>2, <2>4 DEF CheckConfiguration, Request
    <3> QED
      BY <1>1, <1>3, <2>1, <3>1
  <2>5. CASE \E verdict \in {"PASS", "FAIL"} : ProbeProvider(r, verdict)
    BY <1>1, <1>2, <1>3, <2>1, <2>5 DEF ProbeProvider, Request
  <2>6. CASE Throw(r)
    BY <1>1, <1>2, <1>3, <2>1, <2>6 DEF Throw, Request
  <2> QED
    BY <1>7, <2>2, <2>3, <2>4, <2>5, <2>6
<1> QED
  BY <1>4, <1>5, <1>6, <1>7 DEF RunStep

LEMMA RunStepPlaced ==
  ASSUME VerdictInv, NEW r \in Runs, RunStep(r)
  PROVE  Placed(r)'
<1>1. request \in [Runs -> Request] /\ run \in [Runs -> Run] /\ Placed(r)
  BY DEF VerdictInv, TypeInv, TypeOK
<1>2. ASSUME NEW u \in Users, ReadConnector(r, u)
      PROVE  Placed(r)'
  <2>1. run'[r] = run[r] /\ request'[r].checks = NoChecks
    BY <1>1, <1>2 DEF ReadConnector, NewRequest
  <2>2. request[r].pc = "new"
    BY <1>2 DEF ReadConnector
  <2> QED
    BY <1>1, <2>1, <2>2 DEF Placed, Early
<1>3. CASE ReadCapabilities(r)
  <2>1. run'[r] = run[r] /\ request'[r].checks = request[r].checks
    BY <1>1, <1>3 DEF ReadCapabilities, Request
  <2>2. request[r].pc = "capabilities"
    BY <1>3 DEF ReadCapabilities
  <2> QED
    BY <1>1, <2>1, <2>2 DEF Placed, Early
<1>4. CASE InsertRun(r) \/ Throw(r) \/ FailRun(r) \/ FinishRun(r)
  <2>1. request'[r].pc \in {"check", "over", "fail"}
    BY <1>1, <1>4 DEF InsertRun, Throw, FailRun, FinishRun, Request
  <2> QED
    BY <2>1 DEF Placed, Early
<1>5. CASE CheckConfiguration(r)
  <2>1. request'[r].pc \in {"probe", "finish"}
    BY <1>1, <1>5 DEF CheckConfiguration, Request
  <2> QED
    BY <2>1 DEF Placed, Early
<1>6. ASSUME NEW verdict \in {"PASS", "FAIL"}, ProbeProvider(r, verdict)
      PROVE  Placed(r)'
  <2>1. request'[r].pc = "finish"
    BY <1>1, <1>6 DEF ProbeProvider, Request
  <2> QED
    BY <2>1 DEF Placed, Early
<1> QED
  BY <1>2, <1>3, <1>4, <1>5, <1>6 DEF RunStep

\* A step that changes neither the checks of a request nor the connector it tests, and
\* leads to no probe and no verdict.
LEMMA ChecksKept ==
  ASSUME NEW r \in Runs, Checked(r), request'[r].pc \notin {"probe", "finish"},
         request'[r].checks = request[r].checks, request'[r].tested = request[r].tested,
         \/ run'[r].status \notin {"PASSED", "CERTIFIED"}
         \/ run'[r].checks = run[r].checks /\ run[r].status \in {"PASSED", "CERTIFIED"}
         \/ run' = run
  PROVE  Checked(r)'
BY DEF Checked, CanProbe, Adapted, Runnable, Operational

LEMMA RunStepChecked ==
  ASSUME VerdictInv, NEW r \in Runs, RunStep(r)
  PROVE  Checked(r)'
<1>1. request \in [Runs -> Request] /\ run \in [Runs -> Run] /\ Checked(r) /\ Placed(r)
  BY DEF VerdictInv, TypeInv, TypeOK
<1>2. CASE (\E u \in Users : ReadConnector(r, u)) \/ ReadCapabilities(r)
  <2>1. run'[r] = run[r] /\ run[r].status = "NONE"
    BY <1>1, <1>2 DEF ReadConnector, ReadCapabilities, Placed, Early
  <2>2. request'[r].pc \in {"capabilities", "insert"} /\ request'[r].checks = NoChecks
    <3>1. CASE \E u \in Users : ReadConnector(r, u)
      BY <1>1, <3>1 DEF ReadConnector, NewRequest
    <3>2. CASE ReadCapabilities(r)
      BY <1>1, <3>2 DEF ReadCapabilities, Placed, Early, Request
    <3> QED
      BY <1>2, <3>1, <3>2
  <2>3. NoChecks["health"] = "SKIP"
    BY DEF NoChecks, CheckCodes
  <2> QED
    BY <2>1, <2>2, <2>3 DEF Checked
<1>3. CASE InsertRun(r)
  <2>1. run'[r].status = "RUNNING"
    BY <1>1, <1>3 DEF InsertRun, NoRun
  <2>2. request'[r].pc = "check" /\ request'[r].checks = request[r].checks
          /\ request'[r].tested = request[r].tested
    BY <1>1, <1>3 DEF InsertRun, Request
  <2> QED
    BY <1>1, <2>1, <2>2, ChecksKept
<1>4. CASE CheckConfiguration(r)
  <2> DEFINE tested == request[r].tested
             p == Preflight(request[r].provider, tested.connector, tested.capabilities)
  <2>1. tested \in Configuration
    BY <1>4 DEF CheckConfiguration, VerdictInv, TypeInv
  <2>2. /\ p["health"] = "SKIP"
        /\ CanProbe(tested.connector) =>
             \A code \in CheckCodes \ {"health"} : p[code] \in {"PASS", "FAIL"}
        /\ ~ CanProbe(tested.connector) => Thorough(p)
    BY <2>1, PreflightFacts DEF Configuration
  <2>3. /\ request'[r].pc = IF CanProbe(tested.connector) THEN "probe" ELSE "finish"
        /\ request'[r].checks = p
        /\ request'[r].tested = tested
        /\ run' = run
    BY <1>1, <1>4 DEF CheckConfiguration, Request
  <2> HIDE DEF p
  <2>4. CASE CanProbe(tested.connector)
    <3>1. CanProbe(request'[r].tested.connector)
      BY <2>3, <2>4
    <3> QED
      BY <1>1, <2>2, <2>3, <2>4, <3>1 DEF Checked
  <2>5. CASE ~ CanProbe(tested.connector)
    BY <1>1, <2>2, <2>3, <2>5 DEF Checked
  <2> QED
    BY <2>4, <2>5
<1>5. ASSUME NEW verdict \in {"PASS", "FAIL"}, ProbeProvider(r, verdict)
      PROVE  Checked(r)'
  <2> DEFINE p == [request[r].checks EXCEPT !["health"] = verdict]
  <2>1. CanProbe(request[r].tested.connector)
          /\ \A code \in CheckCodes \ {"health"} : request[r].checks[code] \in {"PASS", "FAIL"}
    BY <1>1, <1>5 DEF ProbeProvider, Checked
  <2>2. request[r].checks \in [CheckCodes -> Verdict]
    BY <1>1 DEF Request
  <2>3. Thorough(p)
    BY <2>1, <2>2, HealthFacts
  <2>4. /\ request'[r].pc = "finish"
        /\ request'[r].checks = p
        /\ request'[r].tested = request[r].tested
        /\ run' = run
    BY <1>1, <1>5 DEF ProbeProvider, Request
  <2> HIDE DEF p
  <2> QED
    BY <1>1, <2>1, <2>3, <2>4 DEF Checked
<1>6. CASE FinishRun(r)
  <2>1. /\ request'[r].pc \in {"over", "fail"}
        /\ request'[r].checks = request[r].checks
        /\ request'[r].tested = request[r].tested
    BY <1>1, <1>6 DEF FinishRun, Request
  <2>2. Thorough(request[r].checks)
    BY <1>1, <1>6 DEF FinishRun, Checked
  <2>3. run'[r].status = Outcome(request[r].checks) /\ run'[r].checks = request[r].checks
    BY <1>1, <1>6 DEF FinishRun, Run
  <2>4. run'[r].status = "FAILED" \/ \A code \in CheckCodes : run'[r].checks[code] = "PASS"
    BY <2>2, <2>3 DEF Thorough, Outcome
  <2> QED
    BY <1>1, <2>1, <2>4 DEF Checked
<1>7. CASE Throw(r) \/ FailRun(r)
  <2>1. /\ request'[r].pc \in {"over", "fail"}
        /\ request'[r].checks = request[r].checks
        /\ request'[r].tested = request[r].tested
    BY <1>1, <1>7 DEF Throw, FailRun, Request
  <2>2. run' = run \/ run'[r].status = "FAILED"
    BY <1>1, <1>7 DEF Throw, FailRun, Run
  <2> QED
    BY <1>1, <2>1, <2>2, ChecksKept
<1> QED
  BY <1>2, <1>3, <1>4, <1>5, <1>6, <1>7 DEF RunStep

LEMMA RunStepVerdict ==
  ASSUME VerdictInv, NEW r \in Runs, RunStep(r)
  PROVE  VerdictInv'
<1>1. TypeInv'
  BY RunStepType DEF VerdictInv
<1>2. UNCHANGED <<provider, review>> /\ Others(r)
  BY RunStepEffect
<1>3. run'[r] = run[r] \/ (run[r].status \in {"NONE", "RUNNING"} /\ run'[r].status # "CERTIFIED")
  BY RunStepEffect
<1>4. ASSUME NEW s \in Runs
      PROVE  Placed(s)' /\ Checked(s)' /\ Approved(s)'
  <2>1. CASE s = r
    <3>1. Approved(r)'
      BY <1>3 DEF Approved, VerdictInv
    <3> QED
      BY <2>1, <3>1, RunStepPlaced, RunStepChecked
  <2>2. CASE s # r
    <3>1. request'[s] = request[s] /\ run'[s] = run[s]
      BY <1>2, <2>2 DEF Others
    <3>2. Placed(s) /\ Checked(s) /\ Approved(s)
      BY DEF VerdictInv
    <3>3. Placed(s)' /\ Approved(s)'
      BY <3>1, <3>2 DEF Placed, Approved
    <3>4. Checked(s)'
      BY <3>1, <3>2 DEF Checked, Thorough
    <3> QED
      BY <3>3, <3>4
  <2> QED
    BY <2>1, <2>2
<1>5. ASSUME NEW u \in Users
      PROVE  Held(u)'
  <2>1. CASE review[u].run = r
    BY <1>2, <1>3, <2>1 DEF Held, MayApprove, VerdictInv
  <2>2. CASE review[u].run # r
    BY <1>2, <2>2 DEF Held, MayApprove, VerdictInv, Others
  <2> QED
    BY <2>1, <2>2
<1>6. Exclusive'
  BY <1>2 DEF Exclusive, VerdictInv
<1>7. CertifiedByARun'
  <2>1. ASSUME NEW s \in Runs
        PROVE  run'[s].status = "CERTIFIED" <=> run[s].status = "CERTIFIED"
    BY <1>2, <1>3 DEF Others
  <2> QED
    BY <1>2, <2>1 DEF CertifiedByARun, VerdictInv
<1> QED
  BY <1>1, <1>4, <1>5, <1>6, <1>7 DEF VerdictInv

\* Steps that leave requests, runs and approvals alone.
LEMMA ElsewhereVerdict ==
  ASSUME VerdictInv, TypeInv', UNCHANGED <<run, request, review>>,
         provider' = provider \/ AdvanceProviderLifecycle
  PROVE  VerdictInv'
<1>1. ASSUME NEW r \in Runs
      PROVE  Placed(r)' /\ Checked(r)' /\ Approved(r)'
  BY DEF VerdictInv, Placed, Checked, Approved, Thorough
<1>2. ASSUME NEW u \in Users
      PROVE  Held(u)'
  BY DEF VerdictInv, Held, MayApprove
<1>3. Exclusive'
  BY DEF VerdictInv, Exclusive
<1>4. CertifiedByARun'
  BY DEF VerdictInv, CertifiedByARun, AdvanceProviderLifecycle, NextStage
<1> QED
  BY <1>1, <1>2, <1>3, <1>4 DEF VerdictInv

LEMMA ConfigurationStepEffect ==
  ASSUME ConfigurationStep
  PROVE  UNCHANGED <<run, request, review, provider>>
BY DEF ConfigurationStep, SetPreproductionConnectorState, SelectCapabilities, ReplaceCapabilities,
       SelectForProbe, ReportNothing, UpdateConnectorStatus

\* What a step of an approval does: it takes a free row, goes on with it, or lets it go;
\* and an approval that certifies its run certifies the provider.
LEMMA ReviewStepEffect ==
  ASSUME VerdictInv, NEW u \in Users, ReviewStep(u)
  PROVE  /\ UNCHANGED <<connector, offered, request, edit, probing>>
         /\ \A v \in Users \ {u} : review'[v] = review[v]
         /\ \/ review'[u] = NoReview
            \/ review'[u].run = review[u].run /\ review[u].pc # "idle"
            \/ /\ review'[u].run \in Runs
               /\ RunFree(review'[u].run)
               /\ MayApprove(u, review'[u].run)
         /\ \/ UNCHANGED <<run, provider>>
            \/ /\ review[u].pc = "approve"
               /\ review'[u] = NoReview
               /\ provider' = "CERTIFIED"
               /\ run' = [run EXCEPT ![review[u].run] =
                            [run[review[u].run] EXCEPT !.status = "CERTIFIED",
                                                       !.approvedBy = u]]
<1>1. review \in [Users -> Review]
  BY DEF VerdictInv, TypeInv, TypeOK
<1>2. ASSUME NEW r \in Runs, LockRun(u, r)
      PROVE  /\ review' = [review EXCEPT ![u] = [pc |-> "hash", run |-> r]]
             /\ RunFree(r) /\ MayApprove(u, r)
             /\ UNCHANGED <<provider, connector, offered, run, request, edit, probing>>
  BY <1>2 DEF LockRun
<1>3. CASE \E r \in Runs : LockRun(u, r)
  <2>1. PICK r \in Runs : LockRun(u, r)
    BY <1>3
  <2>2. review'[u].run = r
    BY <1>1, <1>2, <2>1
  <2>3. \A v \in Users \ {u} : review'[v] = review[v]
    BY <1>1, <1>2, <2>1
  <2> QED
    BY <1>2, <2>1, <2>2, <2>3
<1>4. CASE CompareHash(u) \/ CheckConnector(u) \/ Abandon(u)
  <2>1. review[u].pc # "idle"
    BY <1>4 DEF CompareHash, CheckConnector, Abandon
  <2>2. \/ review' = [review EXCEPT ![u] = NoReview]
        \/ \E pc \in {"connector", "approve"} : review' = [review EXCEPT ![u].pc = pc]
    BY <1>4 DEF CompareHash, CheckConnector, Abandon, Idle
  <2>3. \A v \in Users \ {u} : review'[v] = review[v]
    BY <1>1, <2>2
  <2>4. review'[u] = NoReview \/ review'[u].run = review[u].run
    BY <1>1, <2>2 DEF Review
  <2>5. UNCHANGED <<provider, connector, offered, run, request, edit, probing>>
    BY <1>4 DEF CompareHash, CheckConnector, Abandon
  <2> QED
    BY <2>1, <2>3, <2>4, <2>5
<1>5. CASE Approve(u)
  <2>1. review'[u] = NoReview /\ \A v \in Users \ {u} : review'[v] = review[v]
    BY <1>1, <1>5 DEF Approve, Idle
  <2> QED
    BY <1>5, <2>1 DEF Approve, Certify
<1> QED
  BY <1>3, <1>4, <1>5 DEF ReviewStep

LEMMA ReviewStepVerdict ==
  ASSUME VerdictInv, NEW u \in Users, ReviewStep(u)
  PROVE  VerdictInv'
<1>1. TypeInv'
  BY ReviewStepType DEF VerdictInv
<1>2. run \in [Runs -> Run] /\ review \in [Users -> Review] /\ NoReview.pc = "idle"
        /\ NoReview.run = None /\ None \notin Runs /\ None \notin Users
  BY NoneAssumption DEF VerdictInv, TypeInv, TypeOK, NoReview
<1>3. Exclusive'
  <2> SUFFICES ASSUME NEW v \in Users, NEW w \in Users, v # w,
                      review'[v].run = review'[w].run, review'[v].run # None
               PROVE  FALSE
    BY DEF Exclusive
  <2>1. ASSUME NEW x \in Users \ {u}, review'[x].run = review'[u].run, review'[x].run # None
        PROVE  FALSE
    <3>1. review'[x] = review[x]
      BY ReviewStepEffect
    <3>2. Exclusive
      BY DEF VerdictInv
    <3>3. \/ review'[u] = NoReview
          \/ review'[u].run = review[u].run
          \/ RunFree(review'[u].run)
      BY ReviewStepEffect
    <3> QED
      BY <1>2, <2>1, <3>1, <3>2, <3>3 DEF RunFree, Exclusive
  <2>2. CASE v # u /\ w # u
    <3>1. review'[v] = review[v] /\ review'[w] = review[w]
      BY <2>2, ReviewStepEffect
    <3>2. Exclusive
      BY DEF VerdictInv
    <3> QED
      BY <3>1, <3>2 DEF Exclusive
  <2> QED
    BY <2>1, <2>2
<1>4. CASE UNCHANGED <<run, provider>>
  <2>1. request' = request
    BY ReviewStepEffect
  <2>2. ASSUME NEW r \in Runs
        PROVE  Placed(r)' /\ Checked(r)' /\ Approved(r)'
    BY <1>4, <2>1 DEF VerdictInv, Placed, Checked, Approved, Thorough
  <2>3. ASSUME NEW v \in Users
        PROVE  Held(v)'
    <3>1. CASE v = u
      BY <1>2, <1>4, <3>1, ReviewStepEffect DEF Held, MayApprove, VerdictInv
    <3>2. CASE v # u
      BY <1>4, <3>2, ReviewStepEffect DEF Held, MayApprove, VerdictInv
    <3> QED
      BY <3>1, <3>2
  <2>4. CertifiedByARun'
    BY <1>4 DEF VerdictInv, CertifiedByARun
  <2> QED
    BY <1>1, <1>3, <2>2, <2>3, <2>4 DEF VerdictInv
<1>5. CASE /\ review[u].pc = "approve"
           /\ review'[u] = NoReview
           /\ provider' = "CERTIFIED"
           /\ run' = [run EXCEPT ![review[u].run] =
                        [run[review[u].run] EXCEPT !.status = "CERTIFIED", !.approvedBy = u]]
  <2>1. PICK r \in Runs : r = review[u].run /\ MayApprove(u, r)
    BY <1>5 DEF Held, VerdictInv
  <2>2. /\ run'[r].status = "CERTIFIED"
        /\ run'[r].approvedBy = u
        /\ run'[r].requestedBy = run[r].requestedBy
        /\ run'[r].checks = run[r].checks
    BY <1>2, <1>5, <2>1 DEF Run
  <2>3. \A s \in Runs \ {r} : run'[s] = run[s]
    BY <1>2, <1>5, <2>1
  <2>4. request' = request
    BY ReviewStepEffect
  <2>5. ASSUME NEW s \in Runs
        PROVE  Placed(s)' /\ Checked(s)' /\ Approved(s)'
    <3>1. CASE s = r
      <4>1. run[r].status = "PASSED" /\ run[r].requestedBy # u
        BY <2>1 DEF MayApprove
      <4>2. Placed(r)' /\ Approved(r)'
        BY <1>2, <2>2, <2>4, <4>1 DEF VerdictInv, Placed, Approved
      <4>3. Checked(r)'
        BY <2>2, <2>4, <4>1 DEF VerdictInv, Checked, Thorough
      <4> QED
        BY <3>1, <4>2, <4>3
    <3>2. CASE s # r
      <4>1. run'[s] = run[s]
        BY <2>3, <3>2
      <4> QED
        BY <2>4, <4>1 DEF VerdictInv, Placed, Checked, Approved, Thorough
    <3> QED
      BY <3>1, <3>2
  <2>6. ASSUME NEW v \in Users
        PROVE  Held(v)'
    <3>1. CASE v = u
      BY <1>2, <1>5, <3>1 DEF Held
    <3>2. CASE v # u
      <4>1. review'[v] = review[v] /\ Held(v)
        BY <3>2, ReviewStepEffect DEF VerdictInv
      <4>2. review[v].pc # "idle" => review[v].run # r
        BY <1>2, <2>1, <3>2 DEF Exclusive, VerdictInv
      <4> QED
        BY <2>3, <4>1, <4>2 DEF Held, MayApprove
    <3> QED
      BY <3>1, <3>2
  <2>7. CertifiedByARun'
    BY <1>5, <2>2 DEF CertifiedByARun
  <2> QED
    BY <1>1, <1>3, <2>5, <2>6, <2>7 DEF VerdictInv
<1> QED
  BY <1>4, <1>5, ReviewStepEffect

THEOREM VerdictInvariant == Spec => []VerdictInv
<1>1. Init => VerdictInv
  <2> SUFFICES ASSUME Init, TypeInv
               PROVE  VerdictInv
    BY TypeAtInit
  <2>1. /\ NoRun.status = "NONE" /\ NewRequest.pc = "new" /\ NewRequest.checks = NoChecks
        /\ NoReview.pc = "idle" /\ NoReview.run = None /\ NoChecks["health"] = "SKIP"
    BY DEF NoRun, NewRequest, NoReview, NoChecks, CheckCodes
  <2>2. ASSUME NEW r \in Runs
        PROVE  Placed(r) /\ Checked(r) /\ Approved(r)
    BY <2>1 DEF Init, Placed, Checked, Approved
  <2>3. (\A u \in Users : Held(u)) /\ Exclusive
    BY <2>1 DEF Init, Held, Exclusive
  <2>4. CertifiedByARun
    BY <2>1 DEF Init, CertifiedByARun
  <2> QED
    BY <2>2, <2>3, <2>4 DEF VerdictInv
<1>2. VerdictInv /\ [Next]_vars => VerdictInv'
  <2> SUFFICES ASSUME VerdictInv, [Next]_vars
               PROVE  VerdictInv'
    OBVIOUS
  <2>1. CASE UNCHANGED vars
    <3>1. TypeInv'
      BY <2>1 DEF vars, VerdictInv, TypeInv, TypeOK
    <3> QED
      BY <2>1, <3>1, ElsewhereVerdict DEF vars
  <2>2. CASE AdvanceProviderLifecycle \/ ConfigurationStep
    <3>1. TypeInv'
      BY <2>2, ConfigurationStepType DEF VerdictInv
    <3>2. UNCHANGED <<run, request, review>> /\ (provider' = provider \/ AdvanceProviderLifecycle)
      BY <2>2, ConfigurationStepEffect DEF AdvanceProviderLifecycle
    <3> QED
      BY <3>1, <3>2, ElsewhereVerdict
  <2>3. CASE (\E r \in Runs : RunStep(r)) \/ (\E u \in Users : ReviewStep(u))
    BY <2>3, RunStepVerdict, ReviewStepVerdict
  <2> QED
    BY <2>1, <2>2, <2>3 DEF Next
<1> QED
  BY <1>1, <1>2, PTL DEF Spec

-----------------------------------------------------------------------------
(* The invariants and the verdict. *)

\* A provider is certified exactly when one of its runs is.
THEOREM CertifiedIsByARun == Spec => []CertifiedByARun
BY VerdictInvariant, PTL DEF VerdictInv

\* A run that passed has skipped nothing, and its approver is not who requested it.
THEOREM PassedRunsAreThorough == Spec => []PassedIsThorough
<1>1. VerdictInv => PassedIsThorough
  BY DEF VerdictInv, PassedIsThorough, Checked, Approved
<1> QED
  BY <1>1, VerdictInvariant, PTL

\* No provider is asked on behalf of a connector that failed the preflight.
THEOREM ProbesFollowPreflight == Spec => []ProbedAfterPreflight
<1>1. VerdictInv => ProbedAfterPreflight
  BY DEF VerdictInv, ProbedAfterPreflight, Checked, CanProbe, Adapted, Runnable
<1> QED
  BY <1>1, VerdictInvariant, PTL

\* The verdict on a run only ever changes from PASSED to CERTIFIED.
THEOREM VerdictsStand == Spec => VerdictStands
<1> DEFINE Stands(r) ==
             \/ run[r].status \in {"NONE", "RUNNING"}
             \/ run'[r].status = run[r].status
             \/ run[r].status = "PASSED" /\ run'[r].status = "CERTIFIED"
<1>1. ASSUME VerdictInv, Next, NEW r \in Runs
      PROVE  Stands(r)
  <2>1. CASE AdvanceProviderLifecycle \/ ConfigurationStep
    BY <2>1, ConfigurationStepEffect DEF AdvanceProviderLifecycle
  <2>2. ASSUME NEW s \in Runs, RunStep(s)
        PROVE  Stands(r)
    <3>1. CASE s = r
      BY <1>1, <2>2, <3>1, RunStepEffect
    <3>2. CASE s # r
      BY <1>1, <2>2, <3>2, RunStepEffect DEF Others
    <3> QED
      BY <3>1, <3>2
  <2>3. ASSUME NEW u \in Users, ReviewStep(u)
        PROVE  Stands(r)
    <3>1. CASE run' = run
      BY <3>1
    <3>2. CASE run' # run
      <4>1. /\ review[u].pc = "approve"
            /\ run' = [run EXCEPT ![review[u].run] =
                         [run[review[u].run] EXCEPT !.status = "CERTIFIED", !.approvedBy = u]]
        BY <1>1, <2>3, <3>2, ReviewStepEffect
      <4>2. run[review[u].run].status = "PASSED"
        BY <1>1, <4>1 DEF VerdictInv, Held, MayApprove
      <4>3. run \in [Runs -> Run]
        BY <1>1 DEF VerdictInv, TypeInv, TypeOK
      <4> QED
        BY <4>1, <4>2, <4>3 DEF Run
    <3> QED
      BY <3>1, <3>2
  <2> QED
    BY <1>1, <2>1, <2>2, <2>3 DEF Next
<1>2. VerdictInv /\ [Next]_vars => [\A r \in Runs : Stands(r)]_vars
  BY <1>1
<1> QED
  BY <1>2, VerdictInvariant, PTL DEF Spec, VerdictStands

\* The end of a probe leaves a connector in maintenance, or out of service, alone.
THEOREM OperatorsChoicesStay == Spec => OperatorsChoiceStays
<1> DEFINE Stays == probing # probing' /\ connector.status \in {"MAINTENANCE", "DISABLED"} =>
                      connector' = connector
<1>1. ASSUME TypeInv, Next
      PROVE  Stays
  <2>1. CASE AdvanceProviderLifecycle \/ \E r \in Runs : RunStep(r)
    BY <2>1 DEF AdvanceProviderLifecycle, RunStep, ReadConnector, ReadCapabilities, InsertRun,
                CheckConfiguration, ProbeProvider, FinishRun, Throw, FailRun
  <2>2. CASE \E u \in Users : ReviewStep(u)
    BY <2>2 DEF ReviewStep, LockRun, CompareHash, CheckConnector, Approve, Abandon
  <2>3. CASE ConfigurationStep
    BY <2>3 DEF ConfigurationStep, SetPreproductionConnectorState, SelectCapabilities,
                ReplaceCapabilities, SelectForProbe, ReportNothing, UpdateConnectorStatus, MayReport
  <2> QED
    BY <1>1, <2>1, <2>2, <2>3 DEF Next
<1>2. TypeInv /\ [Next]_vars => [Stays]_vars
  BY <1>1
<1> QED
  BY <1>2, TypeCorrect, PTL DEF Spec, OperatorsChoiceStays

-----------------------------------------------------------------------------
(* What an approval certifies. *)

\* What a request read is what is in force, and what the trigger hashed is what it read,
\* unless the configuration changed in between.
Traced(r) ==
  r \notin disturbed =>
    /\ request[r].pc = "capabilities" => request[r].tested.connector = connector
    /\ request[r].pc = "insert" => request[r].tested = CurrentConfiguration
    /\ run[r].status # "NONE" => run[r].hash = request[r].tested

\* An approval that has compared the hashes may still rely on it.
Confirmed(u) ==
  review[u].pc \in {"connector", "approve"} /\ u \notin disturbed =>
    run[review[u].run].hash = CurrentConfiguration

TraceInv ==
  /\ VerdictInv
  /\ \A r \in Runs : Traced(r)
  /\ \A u \in Users : Confirmed(u)

\* Whoever is between two reads when the configuration changes is disturbed.
LEMMA ConfigurationStepTrace ==
  ASSUME TraceInv, AdvanceProviderLifecycle \/ ConfigurationStep
  PROVE  /\ UNCHANGED <<run, request, review>>
         /\ \/ UNCHANGED <<connector, disturbed>> /\ Declared' = Declared
            \/ disturbed' = disturbed \cup Reading
<1>1. ASSUME NEW c, NEW rows, Configured(c, rows)
      PROVE  \/ UNCHANGED <<connector, disturbed>> /\ Declared' = Declared
             \/ disturbed' = disturbed \cup Reading
  BY <1>1 DEF Configured, Declared
<1>2. UNCHANGED <<run, request, review>>
  BY ConfigurationStepEffect DEF AdvanceProviderLifecycle
<1>3. CASE UNCHANGED <<connector, offered, disturbed>>
  BY <1>2, <1>3 DEF Declared
<1>4. CASE \E c, rows : Configured(c, rows)
  BY <1>1, <1>2, <1>4
<1>5. UNCHANGED <<connector, offered, disturbed>> \/ \E c, rows : Configured(c, rows)
  BY DEF AdvanceProviderLifecycle, ConfigurationStep, SetPreproductionConnectorState,
         SelectCapabilities, ReplaceCapabilities, SelectForProbe, ReportNothing,
         UpdateConnectorStatus
<1> QED
  BY <1>3, <1>4, <1>5

LEMMA ElsewhereTrace ==
  ASSUME TraceInv, VerdictInv', UNCHANGED <<run, request, review>>,
         \/ UNCHANGED <<connector, disturbed>> /\ Declared' = Declared
         \/ disturbed' = disturbed \cup Reading
  PROVE  TraceInv'
<1>1. CASE UNCHANGED <<connector, disturbed>> /\ Declared' = Declared
  <2>1. CurrentConfiguration' = CurrentConfiguration
    BY <1>1 DEF CurrentConfiguration
  <2> QED
    BY <1>1, <2>1 DEF TraceInv, Traced, Confirmed
<1>2. CASE disturbed' = disturbed \cup Reading
  <2>1. ASSUME NEW r \in Runs
        PROVE  Traced(r)'
    BY <1>2 DEF TraceInv, Traced, Reading
  <2>2. ASSUME NEW u \in Users
        PROVE  Confirmed(u)'
    BY <1>2 DEF TraceInv, Confirmed, Reading
  <2> QED
    BY <2>1, <2>2 DEF TraceInv
<1> QED
  BY <1>1, <1>2

LEMMA RunStepTraced ==
  ASSUME TraceInv, NEW r \in Runs, RunStep(r)
  PROVE  Traced(r)'
<1>1. /\ request \in [Runs -> Request] /\ run \in [Runs -> Run] /\ Traced(r) /\ Placed(r)
      /\ request[r].pc # "new" => request[r].tested \in Configuration
  BY DEF TraceInv, VerdictInv, TypeInv, TypeOK
<1>2. UNCHANGED <<connector, disturbed>> /\ CurrentConfiguration' = CurrentConfiguration
  BY RunStepEffect DEF TraceInv, CurrentConfiguration, Declared
<1>3. ASSUME NEW u \in Users, ReadConnector(r, u)
      PROVE  Traced(r)'
  <2>1. /\ request'[r].pc = "capabilities"
        /\ request'[r].tested.connector = connector
        /\ run' = run
    BY <1>1, <1>3 DEF ReadConnector, NewRequest
  <2>2. run[r].status = "NONE"
    BY <1>1, <1>3 DEF ReadConnector, Placed, Early
  <2> QED
    BY <1>2, <2>1, <2>2 DEF Traced
<1>4. CASE ReadCapabilities(r)
  <2>1. /\ request'[r].pc = "insert"
        /\ request'[r].tested = [request[r].tested EXCEPT !.capabilities = Declared]
        /\ run' = run
    BY <1>1, <1>4 DEF ReadCapabilities, Request
  <2>2. run[r].status = "NONE" /\ request[r].tested \in Configuration
    BY <1>1, <1>4 DEF ReadCapabilities, Placed, Early
  <2>3. r \notin disturbed => request[r].tested.connector = connector
    BY <1>1, <1>4 DEF ReadCapabilities, Traced
  <2>4. r \notin disturbed => request'[r].tested = CurrentConfiguration
    BY <2>1, <2>2, <2>3 DEF Configuration, CurrentConfiguration
  <2> QED
    BY <1>2, <2>1, <2>2, <2>4 DEF Traced
<1>5. CASE InsertRun(r)
  <2>1. /\ request'[r].pc = "check"
        /\ request'[r].tested = request[r].tested
        /\ run'[r].hash = CurrentConfiguration
    BY <1>1, <1>5 DEF InsertRun, Request, NoRun
  <2>2. r \notin disturbed => request[r].tested = CurrentConfiguration
    BY <1>1, <1>5 DEF InsertRun, Traced
  <2> QED
    BY <1>2, <2>1, <2>2 DEF Traced
<1>6. CASE CheckConfiguration(r) \/ (\E verdict \in {"PASS", "FAIL"} : ProbeProvider(r, verdict))
             \/ FinishRun(r) \/ Throw(r) \/ FailRun(r)
  <2>1. /\ request'[r].pc \in {"probe", "finish", "over", "fail"}
        /\ request'[r].tested = request[r].tested
    <3>1. CASE CheckConfiguration(r)
      BY <1>1, <3>1 DEF CheckConfiguration, Request
    <3>2. CASE \E verdict \in {"PASS", "FAIL"} : ProbeProvider(r, verdict)
      BY <1>1, <3>2 DEF ProbeProvider, Request
    <3>3. CASE FinishRun(r) \/ Throw(r) \/ FailRun(r)
      BY <1>1, <3>3 DEF FinishRun, Throw, FailRun, Request
    <3> QED
      BY <1>6, <3>1, <3>2, <3>3
  <2>2. /\ run'[r].hash = run[r].hash
        /\ run'[r].status = "NONE" <=> run[r].status = "NONE"
    <3>1. CASE FinishRun(r)
      BY <1>1, <3>1 DEF FinishRun, KeptHash, Outcome, Run
    <3>2. CASE FailRun(r)
      BY <1>1, <3>2 DEF FailRun, MayFail, Run
    <3>3. CASE CheckConfiguration(r) \/ (\E verdict \in {"PASS", "FAIL"} : ProbeProvider(r, verdict))
                 \/ Throw(r)
      BY <3>3 DEF CheckConfiguration, ProbeProvider, Throw
    <3> QED
      BY <1>6, <3>1, <3>2, <3>3
  <2> QED
    BY <1>1, <1>2, <2>1, <2>2 DEF Traced
<1> QED
  BY <1>3, <1>4, <1>5, <1>6 DEF RunStep

LEMMA RunStepTrace ==
  ASSUME TraceInv, NEW r \in Runs, RunStep(r)
  PROVE  TraceInv'
<1>1. VerdictInv'
  BY RunStepVerdict DEF TraceInv
<1>2. /\ UNCHANGED <<connector, offered, review, disturbed>>
      /\ Others(r)
      /\ run'[r] = run[r] \/ run[r].status \in {"NONE", "RUNNING"}
  BY RunStepEffect DEF TraceInv
<1>3. CurrentConfiguration' = CurrentConfiguration
  BY <1>2 DEF CurrentConfiguration, Declared
<1>4. ASSUME NEW s \in Runs
      PROVE  Traced(s)'
  <2>1. CASE s = r
    BY <2>1, RunStepTraced
  <2>2. CASE s # r
    BY <1>2, <1>3, <2>2 DEF TraceInv, Traced, Others
  <2> QED
    BY <2>1, <2>2
<1>5. ASSUME NEW u \in Users
      PROVE  Confirmed(u)'
  <2>1. review[u].pc # "idle" => run'[review[u].run] = run[review[u].run]
    BY <1>2 DEF TraceInv, VerdictInv, Held, MayApprove, Others
  <2> QED
    BY <1>2, <1>3, <2>1 DEF TraceInv, Confirmed
<1> QED
  BY <1>1, <1>4, <1>5 DEF TraceInv

LEMMA ReviewStepTrace ==
  ASSUME TraceInv, NEW u \in Users, ReviewStep(u)
  PROVE  TraceInv'
<1>1. VerdictInv' /\ VerdictInv
  BY ReviewStepVerdict DEF TraceInv
<1>2. /\ UNCHANGED <<connector, offered, request>>
      /\ \A v \in Users \ {u} : review'[v] = review[v]
  BY <1>1, ReviewStepEffect
<1>3. /\ run \in [Runs -> Run] /\ review \in [Users -> Review]
      /\ CurrentConfiguration' = CurrentConfiguration
  BY <1>1, <1>2 DEF VerdictInv, TypeInv, TypeOK, CurrentConfiguration, Declared
<1>4. disturbed' = disturbed \/ disturbed' = disturbed \ {u}
  BY DEF ReviewStep, LockRun, CompareHash, CheckConnector, Approve, Abandon
<1>5. ASSUME NEW r \in Runs
      PROVE  run'[r].hash = run[r].hash /\ (run'[r].status = "NONE" <=> run[r].status = "NONE")
  <2>1. CASE run' = run
    BY <2>1
  <2>2. CASE run' # run
    <3>1. /\ review[u].pc = "approve"
          /\ run' = [run EXCEPT ![review[u].run] =
                       [run[review[u].run] EXCEPT !.status = "CERTIFIED", !.approvedBy = u]]
      BY <1>1, <2>2, ReviewStepEffect
    <3>2. review[u].run \in Runs /\ run[review[u].run].status = "PASSED"
      BY <1>1, <3>1 DEF VerdictInv, Held, MayApprove
    <3> QED
      BY <1>3, <3>1, <3>2 DEF Run
  <2> QED
    BY <2>1, <2>2
<1>6. ASSUME NEW r \in Runs
      PROVE  Traced(r)'
  BY <1>2, <1>3, <1>4, <1>5, DisjointAssumption DEF TraceInv, Traced
<1>7. ASSUME NEW v \in Users
      PROVE  Confirmed(v)'
  <2>1. CASE v # u
    <3>1. review'[v] = review[v] /\ Confirmed(v) /\ Held(v)
      BY <1>1, <1>2, <2>1 DEF TraceInv, VerdictInv
    <3>2. review[v].pc # "idle" => run'[review[v].run].hash = run[review[v].run].hash
      BY <1>5, <3>1 DEF Held
    <3>3. v \notin disturbed' => v \notin disturbed
      BY <1>4, <2>1
    <3> QED
      BY <1>3, <3>1, <3>2, <3>3 DEF Confirmed
  <2>2. CASE v = u
    <3>1. CASE \E r \in Runs : LockRun(u, r)
      <4>1. review'[u].pc = "hash"
        BY <1>3, <3>1 DEF LockRun
      <4> QED
        BY <2>2, <4>1 DEF Confirmed
    <3>2. CASE Approve(u) \/ Abandon(u)
      <4>1. review'[u].pc = "idle"
        BY <1>3, <3>2 DEF Approve, Abandon, Idle, NoReview
      <4> QED
        BY <2>2, <4>1 DEF Confirmed
    <3>3. CASE CompareHash(u)
      <4>1. run' = run
        BY <3>3 DEF CompareHash
      <4>2. CASE Unchanged(run[review[u].run].hash)
        <5>1. review'[u].run = review[u].run
          BY <1>3, <3>3, <4>2 DEF CompareHash, Review
        <5> QED
          BY <1>3, <2>2, <4>1, <4>2, <5>1 DEF Confirmed, Unchanged
      <4>3. CASE ~ Unchanged(run[review[u].run].hash)
        <5>1. review'[u].pc = "idle"
          BY <1>3, <3>3, <4>3 DEF CompareHash, Idle, NoReview
        <5> QED
          BY <2>2, <5>1 DEF Confirmed
      <4> QED
        BY <4>2, <4>3
    <3>4. CASE CheckConnector(u)
      <4>1. run' = run /\ disturbed' = disturbed /\ review[u].pc = "connector"
        BY <3>4 DEF CheckConnector
      <4>2. review'[u].pc = "idle" \/ review'[u].run = review[u].run
        BY <1>3, <3>4 DEF CheckConnector, Idle, NoReview, Review
      <4> QED
        BY <1>3, <2>2, <4>1, <4>2 DEF TraceInv, Confirmed
    <3> QED
      BY <3>1, <3>2, <3>3, <3>4 DEF ReviewStep
  <2> QED
    BY <2>1, <2>2
<1> QED
  BY <1>1, <1>6, <1>7 DEF TraceInv

THEOREM TraceInvariant == Spec => []TraceInv
<1>1. Init /\ VerdictInv => TraceInv
  <2> SUFFICES ASSUME Init, VerdictInv
               PROVE  TraceInv
    OBVIOUS
  <2>1. NoRun.status = "NONE" /\ NewRequest.pc = "new" /\ NoReview.pc = "idle"
    BY DEF NoRun, NewRequest, NoReview
  <2>2. ASSUME NEW r \in Runs
        PROVE  Traced(r)
    BY <2>1 DEF Init, Traced
  <2>3. ASSUME NEW u \in Users
        PROVE  Confirmed(u)
    BY <2>1 DEF Init, Confirmed
  <2> QED
    BY <2>2, <2>3 DEF TraceInv
<1>2. TraceInv /\ VerdictInv' /\ [Next]_vars => TraceInv'
  <2> SUFFICES ASSUME TraceInv, VerdictInv', [Next]_vars
               PROVE  TraceInv'
    OBVIOUS
  <2>1. CASE UNCHANGED vars
    BY <2>1, ElsewhereTrace DEF vars, Declared
  <2>2. CASE AdvanceProviderLifecycle \/ ConfigurationStep
    BY <2>2, ConfigurationStepTrace, ElsewhereTrace
  <2>3. CASE (\E r \in Runs : RunStep(r)) \/ (\E u \in Users : ReviewStep(u))
    BY <2>3, RunStepTrace, ReviewStepTrace
  <2> QED
    BY <2>1, <2>2, <2>3 DEF Next
<1> QED
  BY <1>1, <1>2, VerdictInvariant, PTL DEF Spec

\* An approval certifies the configuration in force, and it is the one that was tested,
\* unless it changed while one of the two was reading it.
THEOREM ApprovalsCertifyWhatWasTested == Spec => ApprovesWhatWasTested
<1> DEFINE Good(u, r) == Certifies(u, r) /\ disturbed \cap {u, r} = {} =>
                           CurrentConfiguration = request[r].tested
<1>1. ASSUME TraceInv, Next, NEW u \in Users, NEW r \in Runs
      PROVE  Good(u, r)
  <2> SUFFICES ASSUME review[u].run = r, run[r].status # "CERTIFIED",
                      run'[r].status = "CERTIFIED", disturbed \cap {u, r} = {}
               PROVE  CurrentConfiguration = request[r].tested
    BY DEF Certifies
  <2>1. VerdictInv /\ run \in [Runs -> Run] /\ None \notin Runs
    BY <1>1, NoneAssumption DEF TraceInv, VerdictInv, TypeInv, TypeOK
  <2>2. PICK v \in Users : ReviewStep(v)
    <3>1. ~ (AdvanceProviderLifecycle \/ ConfigurationStep)
      BY ConfigurationStepEffect DEF AdvanceProviderLifecycle
    <3>2. ASSUME NEW s \in Runs, RunStep(s)
          PROVE  FALSE
      <4>1. Others(s) /\ (run'[s] = run[s] \/ run'[s].status # "CERTIFIED")
        BY <2>1, <3>2, RunStepEffect
      <4> QED
        BY <4>1 DEF Others
    <3> QED
      BY <1>1, <3>1, <3>2 DEF Next
  <2>3. /\ review[v].pc = "approve"
        /\ run' = [run EXCEPT ![review[v].run] =
                     [run[review[v].run] EXCEPT !.status = "CERTIFIED", !.approvedBy = v]]
    BY <2>1, <2>2, ReviewStepEffect
  <2>4. review[v].run = r
    BY <2>1, <2>3
  <2>5. v = u
    BY <2>1, <2>4 DEF VerdictInv, Exclusive
  <2>6. run[r].status = "PASSED"
    BY <2>1, <2>3, <2>4 DEF VerdictInv, Held, MayApprove
  <2>7. run[r].hash = CurrentConfiguration
    BY <1>1, <2>3, <2>4, <2>5 DEF TraceInv, Confirmed
  <2>8. run[r].hash = request[r].tested
    BY <1>1, <2>6 DEF TraceInv, Traced
  <2> QED
    BY <2>7, <2>8
<1>2. TraceInv /\ [Next]_vars => [\A u \in Users, r \in Runs : Good(u, r)]_vars
  BY <1>1
<1> QED
  BY <1>2, TraceInvariant, PTL DEF Spec, ApprovesWhatWasTested

-----------------------------------------------------------------------------
(* Certification implements CertificationRegister. *)

\* A configuration that no check but the health check can fail is fit.
LEMMA PreflightFit ==
  ASSUME NEW status, NEW f \in Configuration,
         \A code \in CheckCodes \ {"health"} :
           Preflight(status, f.connector, f.capabilities)[code] # "FAIL"
  PROVE  f \in Fit
<1> DEFINE c == f.connector
           p == Preflight(status, c, f.capabilities)
<1>1. ASSUME NEW code \in CheckCodes \ {"health"} PROVE p[code] # "FAIL"
  OBVIOUS
<1>2. Adapted(c) /\ f.capabilities \subseteq c.executable
  BY <1>1 DEF CheckCodes, Preflight, PassIf
<1>3. c.https /\ c.credentials
  BY <1>1 DEF CheckCodes, Preflight, PassIf
<1>4. f.capabilities # {} /\ ("webhook.receive" \in f.capabilities => c.secret)
  BY <1>1 DEF CheckCodes, Preflight, PassIf
<1>5. f.capabilities \subseteq c.endpoints /\ f.capabilities \subseteq c.fields
  BY <1>1 DEF CheckCodes, Preflight, PassIf
<1> QED
  BY <1>2, <1>3, <1>4, <1>5 DEF Fit, Adapted

\* What no check has failed so far is fit, and so is what passed; and a run that does
\* not exist is no row.
Fine(r) ==
  /\ (/\ request[r].pc \in {"probe", "finish"}
      /\ \A code \in CheckCodes \ {"health"} : request[r].checks[code] # "FAIL")
     => request[r].tested \in Fit
  /\ run[r].status \in {"PASSED", "CERTIFIED"} => request[r].tested \in Fit
  /\ run[r].status = "NONE" => run[r] = NoRun

FitInv == TraceInv /\ \A r \in Runs : Fine(r)

\* What the register sees of a request: nothing, a new run of what is in force, or a
\* verdict on what was examined.
Unseen(r) ==
  /\ run'[r] = run[r]
  /\ run[r].status # "NONE" => request'[r].tested = request[r].tested

Opens(r) ==
  /\ run[r].status = "NONE"
  /\ run'[r].status = "RUNNING"
  /\ run'[r].requestedBy \in Users
  /\ run'[r].approvedBy = run[r].approvedBy
  /\ request'[r].tested \in Configuration
  /\ r \notin disturbed => request'[r].tested = CurrentConfiguration

Judges(r) ==
  /\ run[r].status = "RUNNING"
  /\ run'[r].status \in {"PASSED", "FAILED"}
  /\ run'[r].status = "PASSED" => request[r].tested \in Fit
  /\ run'[r].requestedBy = run[r].requestedBy
  /\ run'[r].approvedBy = run[r].approvedBy
  /\ request'[r].tested = request[r].tested

LEMMA RunStepSeen ==
  ASSUME FitInv, NEW r \in Runs, RunStep(r)
  PROVE  Fine(r)' /\ (Unseen(r) \/ Opens(r) \/ Judges(r))
<1>1. /\ request \in [Runs -> Request] /\ run \in [Runs -> Run]
      /\ Fine(r) /\ Traced(r) /\ Placed(r)
      /\ request[r].pc # "new" => request[r].user \in Users /\ request[r].tested \in Configuration
      /\ request[r] \in Request /\ run[r] \in Run
  BY DEF FitInv, TraceInv, VerdictInv, TypeInv, TypeOK
<1>2. ASSUME NEW u \in Users, ReadConnector(r, u)
      PROVE  Fine(r)' /\ Unseen(r)
  <2>1. request'[r].pc = "capabilities" /\ run' = run
    BY <1>1, <1>2 DEF ReadConnector, NewRequest
  <2>2. run[r].status = "NONE"
    BY <1>1, <1>2 DEF ReadConnector, Placed, Early
  <2> QED
    BY <1>1, <2>1, <2>2 DEF Fine, Unseen
<1>3. CASE ReadCapabilities(r)
  <2>1. request'[r].pc = "insert" /\ run' = run
    BY <1>1, <1>3 DEF ReadCapabilities, Request
  <2>2. run[r].status = "NONE"
    BY <1>1, <1>3 DEF ReadCapabilities, Placed, Early
  <2> QED
    BY <1>1, <2>1, <2>2 DEF Fine, Unseen
<1>4. CASE InsertRun(r)
  <2>1. request[r].pc = "insert" /\ run[r].status = "NONE" /\ run[r] = NoRun
    BY <1>1, <1>4 DEF InsertRun, Placed, Early, Fine
  <2>2. request'[r].pc = "check" /\ request'[r].tested = request[r].tested
    BY <1>1, <1>4 DEF InsertRun, Request
  <2>3. /\ run'[r].status = "RUNNING"
        /\ run'[r].requestedBy = request[r].user
        /\ run'[r].approvedBy = NoRun.approvedBy
    BY <1>1, <1>4 DEF InsertRun, NoRun
  <2>4. r \notin disturbed => request[r].tested = CurrentConfiguration
    BY <1>1, <2>1 DEF Traced
  <2>5. Opens(r)
    BY <1>1, <2>1, <2>2, <2>3, <2>4 DEF Opens
  <2>6. Fine(r)'
    BY <2>2, <2>3 DEF Fine
  <2> QED
    BY <2>5, <2>6
<1>5. CASE CheckConfiguration(r)
  <2>1. /\ request'[r].tested = request[r].tested
        /\ request'[r].checks = Preflight(request[r].provider, request[r].tested.connector,
                                          request[r].tested.capabilities)
        /\ run' = run
        /\ request[r].tested \in Configuration
    BY <1>1, <1>5 DEF CheckConfiguration, Request
  <2>2. (\A code \in CheckCodes \ {"health"} : request'[r].checks[code] # "FAIL")
          => request'[r].tested \in Fit
    BY <2>1, PreflightFit
  <2> QED
    BY <1>1, <2>1, <2>2 DEF Fine, Unseen
<1>6. ASSUME NEW verdict \in {"PASS", "FAIL"}, ProbeProvider(r, verdict)
      PROVE  Fine(r)' /\ Unseen(r)
  <2>1. /\ request[r].pc = "probe"
        /\ request'[r].tested = request[r].tested
        /\ \A code \in CheckCodes \ {"health"} :
             request'[r].checks[code] = request[r].checks[code]
        /\ run' = run
    BY <1>1, <1>6 DEF ProbeProvider, Request
  <2> QED
    BY <1>1, <2>1 DEF Fine, Unseen
<1>7. CASE FinishRun(r)
  <2>1. /\ request[r].pc = "finish"
        /\ run[r].status = "RUNNING"
        /\ request'[r].pc \in {"over", "fail"}
        /\ request'[r].tested = request[r].tested
    BY <1>1, <1>7 DEF FinishRun, Request
  <2>2. /\ run'[r].status = Outcome(request[r].checks)
        /\ run'[r].requestedBy = run[r].requestedBy
        /\ run'[r].approvedBy = run[r].approvedBy
    BY <1>1, <1>7 DEF FinishRun, Run
  <2>3. Outcome(request[r].checks) = "PASSED" => request[r].tested \in Fit
    BY <1>1, <2>1 DEF Fine, Outcome
  <2>4. Outcome(request[r].checks) \in {"PASSED", "FAILED"}
    BY DEF Outcome
  <2>5. Judges(r)
    BY <2>1, <2>2, <2>3, <2>4 DEF Judges
  <2>6. Fine(r)'
    BY <2>1, <2>2, <2>3, <2>4 DEF Fine
  <2> QED
    BY <2>5, <2>6
<1>8. CASE Throw(r)
  <2>1. /\ request'[r].pc \in {"over", "fail"}
        /\ request'[r].tested = request[r].tested
        /\ run' = run
    BY <1>1, <1>8 DEF Throw, Request
  <2> QED
    BY <1>1, <2>1 DEF Fine, Unseen
<1>9. CASE FailRun(r)
  <2>1. request'[r].pc = "over" /\ request'[r].tested = request[r].tested
    BY <1>1, <1>9 DEF FailRun, Request
  <2>2. CASE MayFail(r) /\ run' = [run EXCEPT ![r].status = "FAILED"]
    <3>1. /\ run[r].status = "RUNNING"
          /\ run'[r].status = "FAILED"
          /\ run'[r].requestedBy = run[r].requestedBy
          /\ run'[r].approvedBy = run[r].approvedBy
      BY <1>1, <2>2 DEF MayFail, Run
    <3> QED
      BY <2>1, <3>1 DEF Fine, Judges
  <2>3. CASE run' = run
    BY <1>1, <2>1, <2>3 DEF Fine, Unseen
  <2> QED
    BY <1>9, <2>2, <2>3 DEF FailRun
<1> QED
  BY <1>2, <1>3, <1>4, <1>5, <1>6, <1>7, <1>8, <1>9 DEF RunStep

LEMMA FitInvariant == Spec => []FitInv
<1>1. Init /\ TraceInv => FitInv
  <2>1. NoRun.status = "NONE" /\ NewRequest.pc = "new"
    BY DEF NoRun, NewRequest
  <2> QED
    BY <2>1 DEF Init, FitInv, Fine
<1>2. FitInv /\ TraceInv' /\ [Next]_vars => FitInv'
  <2> SUFFICES ASSUME FitInv, [Next]_vars, NEW r \in Runs
               PROVE  Fine(r)'
    BY DEF FitInv
  <2>1. Fine(r) /\ VerdictInv /\ run \in [Runs -> Run]
    BY DEF FitInv, TraceInv, VerdictInv, TypeInv, TypeOK
  <2>2. CASE UNCHANGED <<run, request>>
    BY <2>1, <2>2 DEF Fine
  <2>3. ASSUME NEW s \in Runs, RunStep(s) PROVE Fine(r)'
    <3>1. CASE s = r
      BY <2>3, <3>1, RunStepSeen
    <3>2. CASE s # r
      <4>1. run'[r] = run[r] /\ request'[r] = request[r]
        BY <2>1, <2>3, <3>2, RunStepEffect DEF Others
      <4> QED
        BY <2>1, <4>1 DEF Fine
    <3> QED
      BY <3>1, <3>2
  <2>4. ASSUME NEW u \in Users, ReviewStep(u) PROVE Fine(r)'
    <3>1. request' = request
      BY <2>1, <2>4, ReviewStepEffect
    <3>2. CASE run'[r] = run[r]
      BY <2>1, <3>1, <3>2 DEF Fine
    <3>3. CASE run'[r] # run[r]
      <4>1. /\ review[u].pc = "approve"
            /\ run' = [run EXCEPT ![review[u].run] =
                         [run[review[u].run] EXCEPT !.status = "CERTIFIED", !.approvedBy = u]]
        BY <2>1, <2>4, <3>3, ReviewStepEffect
      <4>2. review[u].run = r
        BY <2>1, <3>3, <4>1
      <4>3. run[r].status = "PASSED"
        BY <4>1, <4>2, <2>1 DEF VerdictInv, Held, MayApprove
      <4>4. run'[r].status = "CERTIFIED"
        BY <2>1, <4>1, <4>2 DEF Run
      <4> QED
        BY <2>1, <3>1, <4>3, <4>4 DEF Fine
    <3> QED
      BY <3>2, <3>3
  <2>5. AdvanceProviderLifecycle \/ ConfigurationStep => UNCHANGED <<run, request>>
    BY ConfigurationStepEffect DEF AdvanceProviderLifecycle
  <2> QED
    BY <2>2, <2>3, <2>4, <2>5 DEF Next, vars
<1> QED
  BY <1>1, <1>2, TraceInvariant, PTL DEF Spec

\* What the register sees of the files when no run is touched but perhaps one.
LEMMA FilesKept ==
  ASSUME \A s \in Runs : Unseen(s)
  PROVE  UNCHANGED <<Verdicts, Makers, Examined, Approvers>>
BY DEF Unseen, Verdicts, Makers, Examined, Approvers

\* A step of a request opens a run, judges it, or is not seen.
LEMMA RunStepRegister ==
  ASSUME FitInv, NEW r \in Runs, RunStep(r)
  PROVE  \/ \E u \in Users : Register!Open(r, u)
         \/ \E v \in {"PASSED", "FAILED"} : Register!Judge(r, v)
         \/ UNCHANGED <<Verdicts, Makers, Examined, Approvers>>
<1>1. /\ UNCHANGED <<provider, disturbed>>
      /\ CurrentConfiguration' = CurrentConfiguration
      /\ Others(r)
  BY RunStepEffect DEF FitInv, TraceInv, CurrentConfiguration, Declared
<1>2. \A s \in Runs \ {r} : Unseen(s)
  BY <1>1 DEF Others, Unseen
<1>3. CASE Unseen(r)
  BY <1>2, <1>3, FilesKept
<1>4. CASE Opens(r)
  <2>1. Verdicts[r] = "NONE" /\ Verdicts' = [Verdicts EXCEPT ![r] = "RUNNING"]
    BY <1>1, <1>4 DEF Opens, Others, Verdicts
  <2>2. Makers' = [Makers EXCEPT ![r] = run'[r].requestedBy]
    BY <1>1, <1>4 DEF Others, Makers
  <2>3. Approvers' = Approvers
    BY <1>1, <1>4 DEF Opens, Others, Approvers
  <2>4. Examined' = [Examined EXCEPT ![r] = request'[r].tested]
    BY <1>1, <1>4 DEF Opens, Others, Examined
  <2>5. request'[r].tested \in Register!MayExamine(r)
    BY <1>4 DEF Opens, Register!MayExamine
  <2>6. Register!Open(r, run'[r].requestedBy)
    BY <1>1, <2>1, <2>2, <2>3, <2>4, <2>5 DEF Register!Open
  <2> QED
    BY <1>4, <2>6 DEF Opens
<1>5. CASE Judges(r)
  <2>1. Verdicts[r] = "RUNNING" /\ Verdicts' = [Verdicts EXCEPT ![r] = run'[r].status]
    BY <1>1, <1>5 DEF Judges, Others, Verdicts
  <2>2. UNCHANGED <<Makers, Approvers>>
    BY <1>1, <1>5 DEF Judges, Others, Makers, Approvers
  <2>3. Examined' = Examined /\ Examined[r] = request[r].tested
    BY <1>1, <1>5 DEF Judges, Others, Examined
  <2>4. Register!Judge(r, run'[r].status)
    BY <1>1, <1>5, <2>1, <2>2, <2>3 DEF Judges, Register!Judge
  <2> QED
    BY <1>5, <2>4 DEF Judges
<1> QED
  BY <1>3, <1>4, <1>5, RunStepSeen

\* An approval certifies what was examined and is in force, starts clear, or is not seen.
LEMMA ReviewStepRegister ==
  ASSUME FitInv, NEW u \in Users, ReviewStep(u)
  PROVE  \/ \E r \in Runs : Register!Certify(r, u)
         \/ Register!Refresh(u)
         \/ UNCHANGED <<provider, Verdicts, Makers, Examined, Approvers, disturbed>>
<1>1. TraceInv /\ VerdictInv /\ run \in [Runs -> Run] /\ review \in [Users -> Review]
  BY DEF FitInv, TraceInv, VerdictInv, TypeInv, TypeOK
<1>2. /\ request' = request
      /\ CurrentConfiguration' = CurrentConfiguration
  BY <1>1, ReviewStepEffect DEF CurrentConfiguration, Declared
<1>3. CASE UNCHANGED <<run, provider>>
  <2>1. UNCHANGED <<Verdicts, Makers, Examined, Approvers>>
    BY <1>2, <1>3, FilesKept DEF Unseen
  <2>2. disturbed' = disturbed \/ disturbed' = disturbed \ {u}
    BY DEF ReviewStep, LockRun, CompareHash, CheckConnector, Approve, Abandon
  <2> QED
    BY <1>2, <1>3, <2>1, <2>2 DEF Register!Refresh, Register!files
<1>4. CASE ~ UNCHANGED <<run, provider>>
  <2> DEFINE r == review[u].run
  <2>1. /\ review[u].pc = "approve"
        /\ provider' = "CERTIFIED"
        /\ run' = [run EXCEPT ![r] = [run[r] EXCEPT !.status = "CERTIFIED", !.approvedBy = u]]
    BY <1>1, <1>4, ReviewStepEffect
  <2>2. r \in Runs /\ run[r].status = "PASSED" /\ run[r].requestedBy # u
    BY <1>1, <2>1 DEF VerdictInv, Held, MayApprove
  <2>3. disturbed' = disturbed
    BY <1>4 DEF ReviewStep, LockRun, CompareHash, CheckConnector, Approve, Abandon
  <2>4. r \in disturbed \/ u \in disturbed \/ request[r].tested = CurrentConfiguration
    <3>1. u \in disturbed \/ run[r].hash = CurrentConfiguration
      BY <1>1, <2>1 DEF TraceInv, Confirmed
    <3>2. r \in disturbed \/ run[r].hash = request[r].tested
      BY <1>1, <2>2 DEF TraceInv, Traced
    <3> QED
      BY <3>1, <3>2
  <2>5. /\ run'[r].status = "CERTIFIED" /\ run'[r].approvedBy = u
        /\ run'[r].requestedBy = run[r].requestedBy
        /\ \A s \in Runs \ {r} : run'[s] = run[s]
    BY <1>1, <2>1, <2>2 DEF Run
  <2> HIDE DEF r
  <2>6. Verdicts[r] = "PASSED" /\ Verdicts' = [Verdicts EXCEPT ![r] = "CERTIFIED"]
    BY <2>2, <2>5 DEF Verdicts
  <2>7. Makers[r] # u /\ Makers' = Makers
    BY <2>2, <2>5 DEF Makers
  <2>8. Approvers' = [Approvers EXCEPT ![r] = u]
    BY <2>2, <2>5 DEF Approvers
  <2>9. Examined[r] = request[r].tested /\ Examined' = Examined
    BY <1>2, <2>2, <2>5 DEF Examined
  <2>10. Register!Certify(r, u)
    BY <1>2, <2>1, <2>3, <2>4, <2>6, <2>7, <2>8, <2>9 DEF Register!Certify
  <2> QED
    BY <2>2, <2>10
<1> QED
  BY <1>3, <1>4

\* Whoever changes the configuration changes it for the register, and only that puts a
\* haze on what is being read.
LEMMA ConfigurationStepRegister ==
  ASSUME TypeInv, TypeInv', AdvanceProviderLifecycle \/ ConfigurationStep
  PROVE  \/ Register!Change
         \/ UNCHANGED <<CurrentConfiguration, provider = "CERTIFIED", Verdicts, Makers, Examined,
                        Approvers, disturbed>>
<1>1. UNCHANGED <<run, request>> /\ (provider' = provider \/ AdvanceProviderLifecycle)
  BY ConfigurationStepEffect DEF AdvanceProviderLifecycle
<1>2. UNCHANGED <<Verdicts, Makers, Examined, Approvers>>
  BY <1>1, FilesKept DEF Unseen
<1>3. (provider = "CERTIFIED")' = (provider = "CERTIFIED")
  BY <1>1 DEF AdvanceProviderLifecycle, NextStage
<1>4. CurrentConfiguration' \in Configuration
  BY DEF TypeInv, TypeOK, CurrentConfiguration, Configuration, Declared, Codes, Row
<1>5. ASSUME NEW c, NEW rows, Configured(c, rows)
      PROVE  \/ UNCHANGED <<CurrentConfiguration, disturbed>>
             \/ CurrentConfiguration' # CurrentConfiguration /\ disturbed \subseteq disturbed'
  BY <1>5 DEF Configured, CurrentConfiguration, Declared
<1>6. UNCHANGED <<connector, offered, disturbed>> \/ \E c, rows : Configured(c, rows)
  BY DEF AdvanceProviderLifecycle, ConfigurationStep, SetPreproductionConnectorState,
         SelectCapabilities, ReplaceCapabilities, SelectForProbe, ReportNothing,
         UpdateConnectorStatus
<1>7. UNCHANGED <<connector, offered, disturbed>> => UNCHANGED <<CurrentConfiguration, disturbed>>
  BY DEF CurrentConfiguration, Declared
<1>8. CASE UNCHANGED <<CurrentConfiguration, disturbed>>
  BY <1>2, <1>3, <1>8
<1>9. CASE CurrentConfiguration' # CurrentConfiguration /\ disturbed \subseteq disturbed'
  BY <1>2, <1>3, <1>4, <1>9 DEF Register!Change, Register!files
<1> QED
  BY <1>5, <1>6, <1>7, <1>8, <1>9

\* For any number of runs, users, editors and capabilities: certification is as if each
\* run examined, and each approval certified, one configuration at one moment.
THEOREM CertifiedAsTestedCorrect == Spec => CertifiedAsTested
<1>1. Init /\ TypeInv => Register!Init
  <2> SUFFICES ASSUME Init, TypeInv PROVE Register!Init
    OBVIOUS
  <2>1. CurrentConfiguration \in Configuration
    BY DEF TypeInv, TypeOK, CurrentConfiguration, Configuration, Declared, Codes, Row
  <2>2. NoRun.status = "NONE" /\ NoRun.requestedBy = None /\ NoRun.approvedBy = None
    BY DEF NoRun
  <2>3. \A r \in Runs : run[r] = NoRun
    BY DEF Init
  <2>4. provider = "DRAFT" /\ disturbed = {}
    BY DEF Init
  <2> QED
    BY <2>1, <2>2, <2>3, <2>4
    DEF Register!Init, Verdicts, Makers, Examined, Approvers
<1>2. FitInv /\ TypeInv' /\ [Next]_vars
        => [Register!Next]_<<CurrentConfiguration, provider = "CERTIFIED", Register!files,
                             disturbed>>
  <2> SUFFICES ASSUME FitInv, TypeInv', [Next]_vars
               PROVE  \/ Register!Next
                      \/ UNCHANGED <<CurrentConfiguration, provider = "CERTIFIED", Verdicts,
                                     Makers, Examined, Approvers, disturbed>>
    BY DEF Register!files
  <2>1. TypeInv /\ VerdictInv
    BY DEF FitInv, TraceInv, VerdictInv
  <2>2. CASE UNCHANGED vars
    <3>1. UNCHANGED <<Verdicts, Makers, Examined, Approvers>>
      BY <2>2, FilesKept DEF vars, Unseen
    <3> QED
      BY <2>2, <3>1 DEF vars, CurrentConfiguration, Declared
  <2>3. CASE AdvanceProviderLifecycle \/ ConfigurationStep
    BY <2>1, <2>3, ConfigurationStepRegister DEF Register!Next
  <2>4. ASSUME NEW r \in Runs, RunStep(r)
        PROVE  \/ Register!Next
               \/ UNCHANGED <<CurrentConfiguration, provider = "CERTIFIED", Verdicts,
                              Makers, Examined, Approvers, disturbed>>
    <3>1. UNCHANGED <<provider, CurrentConfiguration, disturbed>>
      BY <2>1, <2>4, RunStepEffect DEF CurrentConfiguration, Declared
    <3> QED
      BY <2>4, <3>1, RunStepRegister DEF Register!Next
  <2>5. ASSUME NEW u \in Users, ReviewStep(u)
        PROVE  \/ Register!Next
               \/ UNCHANGED <<CurrentConfiguration, provider = "CERTIFIED", Verdicts,
                              Makers, Examined, Approvers, disturbed>>
    <3>1. CurrentConfiguration' = CurrentConfiguration
      BY <2>1, <2>5, ReviewStepEffect DEF CurrentConfiguration, Declared
    <3> QED
      BY <2>5, <3>1, ReviewStepRegister DEF Register!Next
  <2> QED
    BY <2>2, <2>3, <2>4, <2>5 DEF Next
<1> QED
  BY <1>1, <1>2, FitInvariant, TypeCorrect, PTL DEF Spec, CertifiedAsTested, Register!Spec

=============================================================================
