---------------------------- MODULE Certification ----------------------------
(***************************************************************************)
(* Onboarding a provider: its lifecycle, the state and the capabilities of *)
(* one of its connectors before production, and the certification of that  *)
(* connector, from the run of the checks to the approval by a second       *)
(* person.                                                                 *)
(*                                                                         *)
(* A certification request reads the connector, its capabilities, and      *)
(* inserts the run, whose trigger hashes the configuration once more:      *)
(* three statements at READ COMMITTED, each of which sees what is          *)
(* committed when it starts.  An approval locks the run but reads the      *)
(* hash and the connector without locking them.  Operators, editors of the *)
(* capabilities and the operations worker write the configuration in       *)
(* between; so every one of those statements is an action here.            *)
(*                                                                         *)
(* connector_certification_hash is modelled by what it hashes: two hashes  *)
(* are equal when the configurations are.  No request changes the other    *)
(* columns of a connector once it is created.  Other connectors of the     *)
(* provider are left out; they meet this one in the provider's status only.*)
(***************************************************************************)
EXTENDS Naturals, FiniteSets

CONSTANTS
  Runs,            \* certification requests, each of which makes one run
  Users,           \* who may run and approve certifications
  Editors,         \* requests that replace the connector's capabilities
  Capabilities,    \* codes of the capabilities table
  FirstConnectors, \* how createConnector may have left the connector
  None             \* NULL: no user, no run, no configuration

ProviderStatus == {"DRAFT", "DEVELOPMENT", "SANDBOX", "CERTIFIED"}
ConnectorStatus == {"ACTIVE", "DEGRADED", "OUTAGE", "MAINTENANCE", "DISABLED"}

\* production: the environment.  https: the base URL suits the environment;
\* credentials: there is a reference, or none is needed; runtime: the configuration
\* parses; secret: there is a webhook secret; registered: the provider type has an
\* adapter; endpoints, fields, executable: the capabilities whose endpoints and fields
\* are configured, and that the adapter or the shared runtime executes.
Connector ==
  [status : ConnectorStatus, enabled : BOOLEAN, production : BOOLEAN, https : BOOLEAN,
   credentials : BOOLEAN, runtime : BOOLEAN, secret : BOOLEAN, registered : BOOLEAN,
   endpoints : SUBSET Capabilities, fields : SUBSET Capabilities,
   executable : SUBSET Capabilities]

ASSUME FirstConnectorsAssumption ==
  /\ FirstConnectors \subseteq Connector
  /\ \A c \in FirstConnectors : c.status = "DISABLED"

Configuration == [connector : Connector, capabilities : SUBSET Capabilities]

ASSUME NoneAssumption ==
  /\ None \notin Users
  /\ None \notin Runs
  /\ None \notin Configuration

ASSUME DisjointAssumption == Runs \cap Users = {}

VARIABLES
  provider,   \* providers.status
  connector,  \* provider_connectors
  offered,    \* connector_capabilities: who inserted the row for which code
  run,        \* provider_certification_runs
  request,    \* each certification request: where it is, and the context it read
  review,     \* each user's approval under way
  edit,       \* each replacement of the capabilities
  probing,    \* the operations worker has selected the connector
  disturbed   \* history: who had the configuration change between two of its reads

vars == <<provider, connector, offered, run, request, review, edit, probing, disturbed>>

Verdict == {"PASS", "FAIL", "SKIP"}
CheckCodes ==
  {"lifecycle", "enabled", "operational", "https", "credentials", "runtime", "declared",
   "endpoints", "fields", "secret", "adapter", "executable", "health"}
NoChecks == [c \in CheckCodes |-> "SKIP"]

Run == [status : {"NONE", "RUNNING", "PASSED", "FAILED", "CERTIFIED"},
        requestedBy : Users \cup {None}, approvedBy : Users \cup {None},
        hash : Configuration \cup {None}, checks : [CheckCodes -> Verdict]]

NoRun == [status |-> "NONE", requestedBy |-> None, approvedBy |-> None,
          hash |-> None, checks |-> NoChecks]

Request == [pc : {"new", "capabilities", "insert", "check", "probe", "finish", "fail", "over"},
            user : Users \cup {None}, provider : ProviderStatus,
            tested : Configuration \cup {None}, checks : [CheckCodes -> Verdict]]

NewRequest == [pc |-> "new", user |-> None, provider |-> "DRAFT", tested |-> None,
               checks |-> NoChecks]

Review == [pc : {"idle", "hash", "connector", "approve"}, run : Runs \cup {None}]
NoReview == [pc |-> "idle", run |-> None]

Row == Capabilities \X Editors
Edit == [pc : {"new", "write", "over"}, wanted : SUBSET Capabilities, seen : SUBSET Row]
NoEdit == [pc |-> "new", wanted |-> {}, seen |-> {}]

TypeOK ==
  /\ provider \in ProviderStatus
  /\ connector \in Connector
  /\ offered \subseteq Row
  /\ run \in [Runs -> Run]
  /\ request \in [Runs -> Request]
  /\ review \in [Users -> Review]
  /\ edit \in [Editors -> Edit]
  /\ probing \in BOOLEAN
  /\ disturbed \subseteq Runs \cup Users

-----------------------------------------------------------------------------
(* The configuration and those who change it. *)

Codes(rows) == {row[1] : row \in rows}
Declared == Codes(offered)

\* Mutant of CurrentConfiguration: capabilities are not hashed.
ConnectorOnly == [connector |-> connector, capabilities |-> {}]

\* What connector_certification_hash stands for.
CurrentConfiguration == [connector |-> connector, capabilities |-> Declared]

Operational(c) == c.status \in {"ACTIVE", "DEGRADED"}

\* Those between the first of their reads and the last.
Reading ==
  {r \in Runs : request[r].pc \in {"capabilities", "insert"}}
    \cup {u \in Users : review[u].pc \in {"connector", "approve"}}

\* The configuration becomes c with the capabilities in rows.
Configured(c, rows) ==
  /\ connector' = c
  /\ offered' = rows
  /\ disturbed' = IF c = connector /\ Codes(rows) = Declared
                  THEN disturbed ELSE disturbed \cup Reading

NextStage(from) == IF from = "DRAFT" THEN "DEVELOPMENT" ELSE "SANDBOX"

AdvanceProviderLifecycle ==
  /\ provider \in {"DRAFT", "DEVELOPMENT"}
  /\ provider' = NextStage(provider)
  /\ UNCHANGED <<connector, offered, run, request, review, edit, probing, disturbed>>

SetPreproductionConnectorState(status, enabled) ==
  /\ ~ connector.production
  /\ provider \in {"DEVELOPMENT", "SANDBOX", "CERTIFIED"}
  /\ status = "ACTIVE" => enabled
  /\ status = "DISABLED" => ~ enabled
  /\ Configured([connector EXCEPT !.status = status, !.enabled = enabled], offered)
  /\ UNCHANGED <<provider, run, request, review, edit, probing>>

\* replaceConnectorCapabilities: the DELETE sees the rows committed when it starts ...
SelectCapabilities(e, wanted) ==
  /\ edit[e].pc = "new"
  /\ edit' = [edit EXCEPT ![e] = [pc |-> "write", wanted |-> wanted, seen |-> offered]]
  /\ UNCHANGED <<provider, connector, offered, run, request, review, probing, disturbed>>

\* ... and deletes those that are still there once whoever wrote them has finished; a
\* code inserted by somebody else meanwhile violates the primary key.
ReplaceCapabilities(e) ==
  LET left == offered \ edit[e].seen
      inserted == edit[e].wanted \X {e}
  IN /\ edit[e].pc = "write"
     /\ edit' = [edit EXCEPT ![e] = [NoEdit EXCEPT !.pc = "over"]]
     /\ IF \E row \in left : row[1] \in edit[e].wanted
        THEN UNCHANGED <<connector, offered, disturbed>>
        ELSE Configured(connector, left \cup inserted)
     /\ UNCHANGED <<provider, run, request, review, probing>>

\* runOperationsCycle selects the connector, calls the provider ...
SelectForProbe ==
  /\ ~ probing
  /\ connector.enabled
  /\ connector.status \notin {"DISABLED", "MAINTENANCE"}
  /\ provider # "DRAFT"
  /\ probing' = TRUE
  /\ UNCHANGED <<provider, connector, offered, run, request, review, edit, disturbed>>

\* The cycle is one database transaction, which may be rolled back; and a provider that
\* reports MAINTENANCE changes nothing.
ReportNothing ==
  /\ probing
  /\ probing' = FALSE
  /\ UNCHANGED <<provider, connector, offered, run, request, review, edit, disturbed>>

\* WHERE status NOT IN ('DISABLED','MAINTENANCE')
MayReport == connector.status \notin {"DISABLED", "MAINTENANCE"}

\* ... and, much later, writes what it found.
UpdateConnectorStatus(status) ==
  /\ probing
  /\ probing' = FALSE
  /\ IF MayReport
     THEN Configured([connector EXCEPT !.status = status], offered)
     ELSE UNCHANGED <<connector, offered, disturbed>>
  /\ UNCHANGED <<provider, run, request, review, edit>>

-----------------------------------------------------------------------------
(* The certification run. *)

\* A connector of production is refused.
ReadConnector(r, u) ==
  /\ request[r].pc = "new"
  /\ ~ connector.production
  /\ request' = [request EXCEPT
       ![r] = [NewRequest EXCEPT
                 !.pc = "capabilities", !.user = u, !.provider = provider,
                 !.tested = [connector |-> connector, capabilities |-> {}]]]
  /\ UNCHANGED <<provider, connector, offered, run, review, edit, probing, disturbed>>

ReadCapabilities(r) ==
  /\ request[r].pc = "capabilities"
  /\ request' = [request EXCEPT
       ![r].pc = "insert", ![r].tested.capabilities = Declared]
  /\ UNCHANGED <<provider, connector, offered, run, review, edit, probing, disturbed>>

\* The trigger certification_run_snapshot_guard adds the hash.
InsertRun(r) ==
  /\ request[r].pc = "insert"
  /\ run' = [run EXCEPT
       ![r] = [NoRun EXCEPT !.status = "RUNNING", !.requestedBy = request[r].user,
                            !.hash = CurrentConfiguration]]
  /\ request' = [request EXCEPT ![r].pc = "check"]
  /\ UNCHANGED <<provider, connector, offered, review, edit, probing, disturbed>>

PassIf(condition) == IF condition THEN "PASS" ELSE "FAIL"

\* An adapter is made only for a connector that parses and is switched on.
Runnable(c) == c.runtime /\ c.enabled /\ Operational(c)
Adapted(c) == Runnable(c) /\ c.registered

\* No approval holds the row of the run (FOR UPDATE).
RunFree(r) == \A u \in Users : review[u].run # r

\* Every check but the last.
Preflight(status, c, declared) ==
  [code \in CheckCodes |->
     CASE code = "lifecycle" -> PassIf(status \in {"DEVELOPMENT", "SANDBOX", "CERTIFIED"})
       [] code = "enabled" -> PassIf(c.enabled)
       [] code = "operational" -> PassIf(Operational(c))
       [] code = "https" -> PassIf(c.https)
       [] code = "credentials" -> PassIf(c.credentials)
       [] code = "runtime" -> PassIf(c.runtime)
       [] code = "declared" -> PassIf(declared # {})
       [] code = "endpoints" -> PassIf(c.runtime /\ declared \subseteq c.endpoints)
       [] code = "fields" -> PassIf(c.runtime /\ declared \subseteq c.fields)
       [] code = "secret" -> PassIf("webhook.receive" \in declared => c.secret)
       [] code = "adapter" -> IF Runnable(c) THEN PassIf(c.registered) ELSE "SKIP"
       [] code = "executable" ->
            IF Adapted(c) THEN PassIf(declared \subseteq c.executable) ELSE "FAIL"
       [] code = "health" -> "SKIP"]

CanProbe(c) == Adapted(c) /\ c.https /\ c.credentials

CheckConfiguration(r) ==
  LET tested == request[r].tested
  IN /\ request[r].pc = "check"
     /\ request' = [request EXCEPT
          ![r] = [@ EXCEPT !.pc = IF CanProbe(tested.connector) THEN "probe" ELSE "finish",
                           !.checks = Preflight(request[r].provider, tested.connector,
                                                tested.capabilities)]]
     /\ UNCHANGED <<provider, connector, offered, run, review, edit, probing, disturbed>>

\* healthCheck throws nothing: an error is an OUTAGE.
ProbeProvider(r, verdict) ==
  /\ request[r].pc = "probe"
  /\ request' = [request EXCEPT
       ![r].pc = "finish", ![r].checks["health"] = verdict]
  /\ UNCHANGED <<provider, connector, offered, run, review, edit, probing, disturbed>>

\* Mutant of Outcome: the provider's health is only advisory.
HealthIsAdvisory(checks) ==
  IF \E code \in CheckCodes \ {"health"} : checks[code] = "FAIL" THEN "FAILED" ELSE "PASSED"

\* What could not be checked counts as little as what passed.
Outcome(checks) ==
  IF \E code \in CheckCodes : checks[code] = "FAIL" THEN "FAILED" ELSE "PASSED"

\* Mutant of KeptHash: the trigger hashes whenever the summary is written.
FreshHash(r) == CurrentConfiguration

\* The trigger carries the hash over when the summary is replaced.
KeptHash(r) == run[r].hash

\* The answer to the COMMIT may be lost: the request takes that for an error.
FinishRun(r) ==
  /\ request[r].pc = "finish"
  /\ run[r].status = "RUNNING"
  /\ run' = [run EXCEPT
       ![r] = [@ EXCEPT !.status = Outcome(request[r].checks), !.checks = request[r].checks,
                        !.hash = KeptHash(r)]]
  /\ \E reply \in {"over", "fail"} : request' = [request EXCEPT ![r].pc = reply]
  /\ UNCHANGED <<provider, connector, offered, review, edit, probing, disturbed>>

\* An error, or the end of the process; before the INSERT is committed nothing is left.
Throw(r) ==
  /\ request[r].pc \notin {"new", "fail", "over"}
  /\ request' = [request EXCEPT
       ![r].pc = IF request[r].pc \in {"capabilities", "insert"} THEN "over" ELSE "fail"]
  /\ UNCHANGED <<provider, connector, offered, run, review, edit, probing, disturbed>>

\* Mutant of MayFail: whoever saw an error fails the run.
FailAnyRun(r) == RunFree(r)

MayFail(r) == run[r].status = "RUNNING"

\* failCertificationRun; when it fails itself the route only logs that, and the run
\* stays RUNNING.
FailRun(r) ==
  /\ request[r].pc = "fail"
  /\ request' = [request EXCEPT ![r].pc = "over"]
  /\ \/ MayFail(r) /\ run' = [run EXCEPT ![r].status = "FAILED"]
     \/ UNCHANGED run
  /\ UNCHANGED <<provider, connector, offered, review, edit, probing, disturbed>>

-----------------------------------------------------------------------------
(* approveCertificationSafely. *)

Idle(u) == review' = [review EXCEPT ![u] = NoReview]

\* Mutant of MayApprove: any passed run.
PassedByAnyone(u, r) == run[r].status = "PASSED"

MayApprove(u, r) == run[r].status = "PASSED" /\ run[r].requestedBy # u

LockRun(u, r) ==
  /\ review[u].pc = "idle"
  /\ RunFree(r)
  /\ MayApprove(u, r)
  /\ review' = [review EXCEPT ![u] = [pc |-> "hash", run |-> r]]
  /\ disturbed' = disturbed \ {u}
  /\ UNCHANGED <<provider, connector, offered, run, request, edit, probing>>

\* Mutant of Unchanged: any hash will do.
AnyHash(hash) == hash # None

Unchanged(hash) == hash = CurrentConfiguration

CompareHash(u) ==
  /\ review[u].pc = "hash"
  /\ IF Unchanged(run[review[u].run].hash)
     THEN review' = [review EXCEPT ![u].pc = "connector"]
     ELSE Idle(u)
  /\ UNCHANGED <<provider, connector, offered, run, request, edit, probing, disturbed>>

CheckConnector(u) ==
  /\ review[u].pc = "connector"
  /\ IF connector.enabled /\ Operational(connector) /\ ~ connector.production
     THEN review' = [review EXCEPT ![u].pc = "approve"]
     ELSE Idle(u)
  /\ UNCHANGED <<provider, connector, offered, run, request, edit, probing, disturbed>>

\* Mutant of Certify: the run is certified whether or not its provider is.
CertifyRunOnly(r, u) ==
  /\ run' = [run EXCEPT ![r] = [@ EXCEPT !.status = "CERTIFIED", !.approvedBy = u]]
  /\ provider' = IF provider = "SANDBOX" THEN "CERTIFIED" ELSE provider

\* The two UPDATEs: the provider's locks its row, and refuses what is not in the sandbox.
Certify(r, u) ==
  IF provider \in {"SANDBOX", "CERTIFIED"}
  THEN /\ provider' = "CERTIFIED"
       /\ run' = [run EXCEPT ![r] = [@ EXCEPT !.status = "CERTIFIED", !.approvedBy = u]]
  ELSE UNCHANGED <<provider, run>>

Approve(u) ==
  /\ review[u].pc = "approve"
  /\ Certify(review[u].run, u)
  /\ Idle(u)
  /\ UNCHANGED <<connector, offered, request, edit, probing, disturbed>>

\* An error, or the end of the process: the transaction is rolled back.
Abandon(u) ==
  /\ review[u].pc # "idle"
  /\ Idle(u)
  /\ UNCHANGED <<provider, connector, offered, run, request, edit, probing, disturbed>>

-----------------------------------------------------------------------------

Init ==
  /\ provider = "DRAFT"
  /\ connector \in FirstConnectors
  /\ offered = {}
  /\ run = [r \in Runs |-> NoRun]
  /\ request = [r \in Runs |-> NewRequest]
  /\ review = [u \in Users |-> NoReview]
  /\ edit = [e \in Editors |-> NoEdit]
  /\ probing = FALSE
  /\ disturbed = {}

ConfigurationStep ==
  \/ \E status \in {"ACTIVE", "DISABLED", "MAINTENANCE"}, enabled \in BOOLEAN :
       SetPreproductionConnectorState(status, enabled)
  \/ \E e \in Editors :
       (\E wanted \in SUBSET Capabilities : SelectCapabilities(e, wanted)) \/ ReplaceCapabilities(e)
  \/ SelectForProbe \/ ReportNothing
  \/ \E status \in {"ACTIVE", "DEGRADED", "OUTAGE"} : UpdateConnectorStatus(status)

RunStep(r) ==
  \/ \E u \in Users : ReadConnector(r, u)
  \/ ReadCapabilities(r) \/ InsertRun(r)
  \/ CheckConfiguration(r)
  \/ \E verdict \in {"PASS", "FAIL"} : ProbeProvider(r, verdict)
  \/ FinishRun(r) \/ Throw(r) \/ FailRun(r)

ReviewStep(u) ==
  \/ \E r \in Runs : LockRun(u, r)
  \/ CompareHash(u) \/ CheckConnector(u) \/ Approve(u) \/ Abandon(u)

Next ==
  \/ AdvanceProviderLifecycle
  \/ ConfigurationStep
  \/ \E r \in Runs : RunStep(r)
  \/ \E u \in Users : ReviewStep(u)

Spec == Init /\ [][Next]_vars

-----------------------------------------------------------------------------
(* Properties. *)

\* A provider is certified exactly when one of its runs is: neither of the two UPDATEs
\* of an approval is ever seen without the other.
CertifiedByARun ==
  provider = "CERTIFIED" <=> \E r \in Runs : run[r].status = "CERTIFIED"

\* Only a FAIL fails a run, but a run that passed has skipped nothing: whatever keeps
\* the adapter from being made or the provider from being asked fails a check of its
\* own.  And its approver is somebody else (PHASE4_IMPLEMENTATION.md, invariant 9).
PassedIsThorough ==
  \A r \in Runs :
    /\ run[r].status \in {"PASSED", "CERTIFIED"} =>
         \A code \in CheckCodes : run[r].checks[code] = "PASS"
    /\ run[r].status = "CERTIFIED" => run[r].approvedBy \notin {None, run[r].requestedBy}

\* No provider is called with the credentials of a connector that failed the preflight
\* (invariant 10), whatever the row says by the time of the call.
ProbedAfterPreflight ==
  \A r \in Runs :
    request[r].pc = "probe" \/ request[r].checks["health"] # "SKIP" =>
      LET c == request[r].tested.connector
      IN c.https /\ c.credentials /\ c.runtime /\ c.enabled /\ Operational(c)

\* What a connector needs to be certified: it is switched on and works, it is reached
\* safely, it declares something, and everything it declares can be executed.
Fit ==
  {f \in Configuration :
     LET c == f.connector
     IN /\ Runnable(c) /\ c.registered
        /\ c.https /\ c.credentials
        /\ f.capabilities # {}
        /\ f.capabilities \subseteq c.endpoints \cap c.fields \cap c.executable
        /\ "webhook.receive" \in f.capabilities => c.secret}

\* The runs as their files; what a request has read is no file before its INSERT.
Verdicts == [r \in Runs |-> run[r].status]
Makers == [r \in Runs |-> run[r].requestedBy]
Approvers == [r \in Runs |-> run[r].approvedBy]
Examined == [r \in Runs |-> IF run[r].status = "NONE" THEN None ELSE request[r].tested]

Register == INSTANCE CertificationRegister WITH
  Configurations <- Configuration,
  inForce <- CurrentConfiguration, certified <- (provider = "CERTIFIED"),
  verdict <- Verdicts, maker <- Makers, examined <- Examined, approver <- Approvers,
  hazy <- disturbed

\* However the statements of runs, approvals, editors and the worker interleave, it is
\* as if each run examined one configuration, and each approval certified its run and
\* the provider, at one moment: what is certified is fit, is in force, is what the run
\* examined, and somebody other than its maker says so.
CertifiedAsTested == Register!Spec

Certifies(u, r) ==
  /\ review[u].run = r
  /\ run[r].status # "CERTIFIED"
  /\ run'[r].status = "CERTIFIED"

\* What an approval certifies is the configuration in force, and it is the one the
\* checks looked at, however often it changed while the run and the approval waited.
\* The exceptions are a change between the reads that start a run and one between the
\* reads of the approval itself.
ApprovesWhatWasTested ==
  [][\A u \in Users, r \in Runs :
       Certifies(u, r) /\ disturbed \cap {u, r} = {} =>
         CurrentConfiguration = request[r].tested]_vars

\* What the operations worker found out about a connector never takes it out of the
\* maintenance, or puts it back into the service, an operator chose in the meantime.
OperatorsChoiceStays ==
  [][probing # probing' /\ connector.status \in {"MAINTENANCE", "DISABLED"} =>
       connector' = connector]_vars

\* The verdict on a run is final, but for the approval of a run that passed: a request
\* whose reply was lost does not fail the run it has just passed, nor the run somebody
\* has certified since.
VerdictStands ==
  [][\A r \in Runs :
       \/ run[r].status \in {"NONE", "RUNNING"}
       \/ run'[r].status = run[r].status
       \/ run[r].status = "PASSED" /\ run'[r].status = "CERTIFIED"]_vars

=============================================================================
