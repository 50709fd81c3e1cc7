----------------------------- MODULE ReleaseGate -----------------------------
(***************************************************************************)
(* scripts/verify_release.py: one process that runs the commands of the    *)
(* check tables, records a status for each and answers with a payload and  *)
(* an exit code.                                                           *)
(*                                                                         *)
(* The commands are the environment.  Each of them behaves as it should,   *)
(* except the one in "sick": its input may be missing, and its two         *)
(* executions may end as "first" and "second" say.  The gate never changes *)
(* the repository, so a loop over one table is one step.                   *)
(***************************************************************************)
EXTENDS ReleaseCatalog, SequencesExt

CONSTANTS
  Requests,    \* what the gate may be asked: see Request
  Sicknesses   \* [check, fixture, first, second, file]: the bad command

VARIABLES
  sick,      \* the command that misbehaves
  request,   \* the arguments of the running process
  phase,     \* where the process is
  checks,    \* the statuses recorded so far
  ran,       \* the checks whose commands were executed
  suite,     \* the pytest subgroups still to run, and their result so far
  payload    \* the answer: status and exit code, NoPayload while there is none

gateVars == <<sick, request, phase, checks, ran, suite, payload>>

TestGroups == <<"tests-tooling", "tests-replay", "tests-integration",
                "tests-contracts", "tests-core">>

NoPayload == [status |-> "none", exit |-> 99]
NoSuite == [todo |-> <<>>, status |-> "passed", exit |-> 0, blocked |-> FALSE]

-----------------------------------------------------------------------------
(* One command.  "ok", "other" and "reports" exit with 0 and differ in     *)
(* their output, the last prints a failed verdict; "rejects" prints one    *)
(* and exits with 1; "missing" exits with 2 because the script or a module *)
(* it imports is not there.                                                *)

Code(e) == CASE e \in {"ok", "other", "reports"} -> 0
             [] e = "rejects" -> 1
             [] e = "missing" -> 2
MissingSurface(e) == e = "missing"

Healthy(kind) == LET e == IF kind = "accepts" THEN "ok" ELSE kind
                 IN [fixture |-> TRUE, first |-> e, second |-> e]

Behaviour(c, kind) == IF sick.check = c THEN sick ELSE Healthy(kind)

Exec(c, kind) == Behaviour(c, kind).first
\* Mutant: the word the wrapper uses for a failed command.
StatusOfWrapper(e) == IF Code(e) = 0 THEN "passed" ELSE "error"

Status(e) == IF Code(e) = 0 THEN "passed" ELSE "failed"

SameOutput(b) ==
  IF ~ b.fixture THEN "pending_runtime"
  ELSE IF Code(b.first) # 0 \/ Code(b.second) # 0 \/ b.first # b.second
       THEN "failed" ELSE "passed"

\* Mutant: the two outputs are not compared.
SameCode(b) ==
  IF ~ b.fixture THEN "pending_runtime"
  ELSE IF Code(b.first) # Code(b.second) THEN "failed"
  ELSE IF MissingSurface(b.first) THEN "pending_runtime" ELSE "passed"

SameResult(b) ==
  IF ~ b.fixture THEN "pending_runtime"
  ELSE IF b.first # b.second THEN "failed"
  ELSE IF MissingSurface(b.first) THEN "pending_runtime" ELSE "passed"

\* The detail of a failed SameOutput is that of the first execution that
\* failed; SameResult fails only because its two executions differ.
FailureDetail(b) == IF Code(b.first) # 0 THEN b.first ELSE b.second

RecordedOutput(b, allow_missing_surface) ==
  IF /\ allow_missing_surface
     /\ SameOutput(b) = "failed"
     /\ MissingSurface(FailureDetail(b))
  THEN "pending_runtime" ELSE SameOutput(b)

\* Mutant: every line may leave its replay pending.
LenientReplayStatus(target, status) == status

StrictReplayStatus(target, status) ==
  IF status = "pending_runtime" /\ TargetAtLeast(target, <<11, 6, 0>>)
  THEN "blocked" ELSE status

-----------------------------------------------------------------------------
(* The loops of verify(), in its order.                                    *)

Loop(table, run, floor, skips, surface) ==
  [table |-> table, run |-> run, floor |-> floor, skips |-> skips,
   surface |-> surface]

Always == <<0, 0>>

FirstLoops ==
  << Loop(REPORT_CHECKS, "output", Always, FALSE, TRUE),
     Loop(DEVELOPMENT_AUDIT_CHECKS, "result", Always, FALSE, TRUE),
     Loop(STATE_WATCHER_CHECKS ++ PRIVATE_DOMAIN_CANDIDATE_CHECKS ++
          CLASSIFICATION_CANDIDATE_CHECKS ++ PARAMETRIC_TEMPLATE_CHECKS ++
          BOUNDED_REFERENCE_INDEX_CHECKS ++
          HUMAN_APPROVED_EXECUTION_GATE_CHECKS ++
          EXPERT_CONFLICT_PRE_RESOLUTION_CHECKS ++ AGENT_SESSION_CHECKS ++
          AGENT_PLAN_CHECKS ++ TOOL_INVOCATION_CHECKS ++
          AGENT_DECISION_TRACE_CHECKS ++ DOWNSTREAM_BRIDGE_ADAPTER_CHECKS,
          "result", Always, FALSE, FALSE),
     Loop(AGENT_BOUNDARY_FREEZE_CHECKS, "result", Always, FALSE, TRUE),
     Loop(ANCHORING_SUBMISSION_CHECKS ++ CHAIN_ADAPTER_CHECKS,
          "result", Always, FALSE, FALSE),
     Loop(MERKLE_BATCH_CHECKS, "result", <<9, 3>>, TRUE, TRUE),
     Loop(FROZEN_RULE_ANCHOR_CHECKS, "output", <<11, 1>>, FALSE, FALSE) >>

\* FROZEN_RELEASE_MANIFEST_CHECKS, between the two, has rules of its own.
SecondLoops ==
  << Loop(EXECUTABLE_CONTRACT_CHECKS, "output", <<11, 1>>, FALSE, FALSE),
     Loop(DOCUMENT_ATTESTATION_CHECKS, "result", <<9, 4>>, TRUE, TRUE),
     Loop(PROCESS_ATTESTATION_CHECKS, "result", <<9, 5>>, TRUE, TRUE),
     Loop(EXECUTION_PROFILE_CHECKS, "result", Always, TRUE, FALSE),
     Loop(V103_CHECK_MAP, "result", <<10, 3>>, TRUE, TRUE) >>

\* V10_CHECKS and V10_NATIVE_CHECKS come between.
ThirdLoops ==
  << Loop(V102_CHECK_MAP, "result", <<10, 2>>, TRUE, FALSE),
     Loop(V104_CHECK_MAP, "result", <<10, 4>>, TRUE, TRUE),
     Loop(V105_CHECK_MAP, "result", <<10, 5>>, TRUE, TRUE) >>

RunStatus(l, c) ==
  LET b == Behaviour(c, l.table[c])
  IN IF l.run = "output" THEN RecordedOutput(b, l.surface) ELSE SameResult(b)

Skipped(l) == IF l.skips THEN DOMAIN l.table \cap Exclusions(request.target)
                         ELSE {}

\* Mutant: a table runs for the line that introduced it, not for later ones.
LoopRunsAtTarget(l) ==
  IF request.target = NoTarget \/ request.target = l.floor
  THEN DOMAIN l.table \ Skipped(l) ELSE {}

LoopRuns(l) == IF TargetAtLeast(request.target, l.floor)
               THEN DOMAIN l.table \ Skipped(l) ELSE {}

LoopStatus(l) ==
  [c \in DOMAIN l.table |->
     IF c \in Skipped(l) THEN "skipped"
     ELSE IF c \in LoopRuns(l) THEN RunStatus(l, c) ELSE "pending_runtime"]

\* A list of loops: a check of two tables keeps the status of the later one.
LoopsStatus(loops) ==
  [c \in UNION {DOMAIN loops[i].table : i \in DOMAIN loops} |->
     LET last == CHOOSE i \in DOMAIN loops :
                   /\ c \in DOMAIN loops[i].table
                   /\ \A j \in DOMAIN loops :
                        c \in DOMAIN loops[j].table => j <= i
     IN LoopStatus(loops[last])[c]]

LoopsRun(loops) == UNION {LoopRuns(loops[i]) : i \in DOMAIN loops}

\* The frozen manifests: a line's manifest is compared with the tree while
\* the line is current, and preserved once a later line replaces it.
PreservedFrom ==
  [frozen_release_manifest_v11_1_accepted |-> <<11, 2>>,
   frozen_release_manifest_v11_3_candidate_accepted |-> <<11, 4>>,
   frozen_release_manifest_v11_3_frozen_accepted |-> <<11, 4>>,
   frozen_release_manifest_v11_5_candidate_accepted |-> <<11, 5, 1>>,
   frozen_release_manifest_v11_5_1_candidate_accepted |-> <<11, 6, 0>>,
   frozen_release_manifest_v11_6_candidate_accepted |-> <<12, 0>>]

PendingBefore ==
  [frozen_release_manifest_v11_2_candidate_accepted |-> <<11, 2>>,
   frozen_release_manifest_v11_3_candidate_accepted |-> <<11, 3>>,
   frozen_release_manifest_v11_3_frozen_accepted |-> <<11, 3>>,
   frozen_release_manifest_v11_4_candidate_accepted |-> <<11, 4>>,
   frozen_release_manifest_v11_5_candidate_accepted |-> <<11, 5>>,
   frozen_release_manifest_v11_6_candidate_accepted |-> <<11, 6, 0>>]

Preserved(c) == /\ c \in DOMAIN PreservedFrom
                /\ TargetAtLeast(request.target, PreservedFrom[c])

ManifestRuns == {c \in DOMAIN FROZEN_RELEASE_MANIFEST_CHECKS :
  /\ ~ Preserved(c)
  /\ c \in DOMAIN PendingBefore =>
       TargetAtLeast(request.target, PendingBefore[c])
  /\ TargetAtLeast(request.target, <<11, 1>>)}

ManifestStatus ==
  [c \in DOMAIN FROZEN_RELEASE_MANIFEST_CHECKS |->
     IF Preserved(c) THEN "historical_baseline_preserved"
     ELSE IF c \in ManifestRuns THEN SameOutput(Behaviour(c, "accepts"))
     ELSE "pending_runtime"]

Replays == {"replay_certification", "router_replay_certification"}

\* _catalog_group_checks: what --list-checks lists, apart from the tests.
CatalogGroupChecks ==
  LET unlisted == {"protocol_model_domain_vocabulary_validation",
                   "protocol_model_command_candidate_validation",
                   "protocol_model_command_candidate_compilation",
                   "protocol_model_preintegration_package",
                   "protocol_model_preintegration_readiness"}
      metadata == BRIDGES \cup (DOMAIN REPORT_CHECKS \ unlisted) \cup (UNION
       {DOMAIN t : t \in
        {DEVELOPMENT_AUDIT_CHECKS, STATE_WATCHER_CHECKS,
         PRIVATE_DOMAIN_CANDIDATE_CHECKS, CLASSIFICATION_CANDIDATE_CHECKS,
         PARAMETRIC_TEMPLATE_CHECKS, BOUNDED_REFERENCE_INDEX_CHECKS,
         HUMAN_APPROVED_EXECUTION_GATE_CHECKS,
         EXPERT_CONFLICT_PRE_RESOLUTION_CHECKS, AGENT_SESSION_CHECKS,
         AGENT_PLAN_CHECKS, TOOL_INVOCATION_CHECKS,
         AGENT_DECISION_TRACE_CHECKS, DOWNSTREAM_BRIDGE_ADAPTER_CHECKS,
         AGENT_BOUNDARY_FREEZE_CHECKS, ANCHORING_SUBMISSION_CHECKS,
         CHAIN_ADAPTER_CHECKS, MERKLE_BATCH_CHECKS, FROZEN_RULE_ANCHOR_CHECKS,
         FROZEN_RELEASE_MANIFEST_CHECKS, EXECUTABLE_CONTRACT_CHECKS,
         DOCUMENT_ATTESTATION_CHECKS, PROCESS_ATTESTATION_CHECKS,
         EXECUTION_PROFILE_CHECKS, V103_CHECK_MAP, V10_NATIVE_CHECKS,
         V102_CHECK_MAP, V104_CHECK_MAP, V105_CHECK_MAP}})
  IN [tooling |-> {"compileall", "ruff", "mypy_report_only"},
      metadata |-> metadata,
      replay |-> Replays]

-----------------------------------------------------------------------------
(* The steps of the process.                                               *)

\* The statuses f, written over what was recorded before.  A command whose
\* input fixture is missing is not executed.
Record(f, selected) ==
  /\ checks' = f ++ checks
  /\ ran' = ran \cup {c \in selected : sick.check = c => sick.fixture}

Stay == UNCHANGED <<sick, request>>

Failed(c) == {n \in DOMAIN c : c[n] = "failed"}

Answer(status, exit) ==
  /\ payload' = [status |-> status, exit |-> exit]
  /\ phase' = "answered"

AnswerFailed(c) == IF Failed(c) = {} THEN Answer("passed", 0)
                                     ELSE Answer("failed", 1)

AsTestGroup(group) ==
  IF group \in {"tests", "tests-full"} THEN TestGroups ELSE << group >>

VerifyGroups == {"none", "tooling", "release-metadata", "docs"}

\* _catalog_group_checks: the groups there are, "none" for no group.
Groups == VerifyGroups \cup {"replay", "tests", "tests-full"}
          \cup {TestGroups[i] : i \in DOMAIN TestGroups}

\* main(): which function answers. An unknown group is refused before anything
\* else; --list-checks and --plan run nothing.
StartGate(r) ==
  /\ request' = r
  /\ checks' = <<>>
  /\ ran' = {}
  /\ \/ /\ r.group \notin Groups
        /\ Answer("blocked", 2)
        /\ suite' = NoSuite
     \/ /\ r.group \in Groups /\ (r.list \/ r.plan)
        /\ Answer("passed", 0)
        /\ suite' = NoSuite
     \/ /\ r.group \in Groups /\ ~ r.list /\ ~ r.plan
        /\ payload' = NoPayload
        /\ \/ /\ r.group \in VerifyGroups
              /\ phase' = "tooling"
              /\ suite' = NoSuite
           \/ /\ r.group = "replay"
              /\ phase' = "replay"
              /\ suite' = NoSuite
           \/ /\ r.group \notin VerifyGroups \cup {"replay"}
              /\ phase' = "tests"
              /\ suite' = [NoSuite EXCEPT !.todo = AsTestGroup(r.group)]
  /\ UNCHANGED sick

ToolingCommands == {"compileall", "ruff", "mypy_report_only"}

\* mypy is started by its bare name: without it the process dies.
Crash == /\ phase = "tooling"
         /\ sick.check = "mypy_report_only" /\ ~ sick.fixture
         /\ Answer("crashed", 1)
         /\ UNCHANGED <<checks, ran, suite>> /\ Stay

RunTooling ==
  /\ phase = "tooling"
  /\ ~ (sick.check = "mypy_report_only" /\ ~ sick.fixture)
  /\ Record([c \in ToolingCommands |-> Status(Exec(c, "accepts"))],
            ToolingCommands)
  /\ IF request.group = "tooling"
     THEN AnswerFailed(checks')
     ELSE phase' = "bridges" /\ UNCHANGED payload
  /\ UNCHANGED suite /\ Stay

\* A bridge passes when its three commands do; one sickness stands for any.
RunBridges ==
  /\ phase = "bridges"
  /\ Record([c \in BRIDGES |-> Status(Exec(c, "accepts"))], BRIDGES)
  /\ phase' = "loops"
  /\ UNCHANGED <<suite, payload>> /\ Stay

\* The loops up to the manifests.
RunFirstLoops ==
  /\ phase = "loops"
  /\ Record(LoopsStatus(FirstLoops), LoopsRun(FirstLoops))
  /\ phase' = "manifests"
  /\ UNCHANGED <<suite, payload>> /\ Stay

RunManifests ==
  /\ phase = "manifests"
  /\ Record(ManifestStatus, ManifestRuns)
  /\ phase' = "attestations"
  /\ UNCHANGED <<suite, payload>> /\ Stay

RunSecondLoops ==
  /\ phase = "attestations"
  /\ Record(LoopsStatus(SecondLoops), LoopsRun(SecondLoops))
  /\ phase' = "v10"
  /\ UNCHANGED <<suite, payload>> /\ Stay

\* V10_CHECKS as pending, then the same names by V10_NATIVE_CHECKS.
NativeRuns == {c \in V10_CHECKS \ Exclusions(request.target) :
                 TargetAtLeast(request.target, V10_NATIVE_FLOORS[c])}

NativeStatus ==
  [c \in V10_CHECKS |->
     IF c \in Exclusions(request.target) THEN "skipped"
     ELSE IF c \in NativeRuns
          THEN SameResult(Behaviour(c, V10_NATIVE_CHECKS[c]))
     ELSE "pending_runtime"]

RunV10 ==
  /\ phase = "v10"
  /\ Record(NativeStatus, NativeRuns)
  /\ phase' = "v102"
  /\ UNCHANGED <<suite, payload>> /\ Stay

RunThirdLoops ==
  /\ phase = "v102"
  /\ Record(LoopsStatus(ThirdLoops), LoopsRun(ThirdLoops))
  /\ phase' = "v12"
  /\ UNCHANGED <<suite, payload>> /\ Stay

\* The v12 gates are recorded as passed: no command is run for them.
RecordV12 ==
  /\ phase = "v12"
  /\ Record([c \in V12_CHECKS |->
               IF c \in Exclusions(request.target) THEN "skipped"
               ELSE IF TargetAtLeast(request.target, <<12, 0>>) THEN "passed"
               ELSE "pending_runtime"], {})
  /\ IF request.group # "none"
     THEN AnswerFailed(checks')
     ELSE phase' = "audit" /\ UNCHANGED payload
  /\ UNCHANGED suite /\ Stay

\* derive_audit_trail.py run twice on what the producers printed: the bytes
\* must agree, the manifest must describe the trail, and a third run with an
\* unknown source type must be refused.
Deterministic(prefix) == prefix \o "audit_trail_deterministic"

AuditChecks(prefix) ==
  {Deterministic(prefix), prefix \o "audit_manifest_valid",
   prefix \o "audit_trail_unknown_source_type_rejected"}

AuditOutcome(prefix, producers) ==
  LET a == Exec(prefix \o "derive_a", "accepts")
      b == Exec(prefix \o "derive_b", "accepts")
      produced == {Exec(p, "accepts") : p \in producers}
  IN IF \E e \in produced : MissingSurface(e) THEN "pending_runtime"
     ELSE IF \E e \in produced : Code(e) # 0 THEN "failed"
     ELSE IF Code(a) = 0 /\ a = b THEN "passed"
     ELSE IF MissingSurface(a) \/ MissingSurface(b) THEN "pending_runtime"
     ELSE "failed"

UnknownSourceRefused(prefix) ==
  IF Exec(prefix \o "derive_unknown", "rejects") = "rejects"
  THEN "passed" ELSE "failed"

AuditStatus(prefix, producers) ==
  LET outcome == AuditOutcome(prefix, producers)
      trail == [c \in {Deterministic(prefix)} |-> outcome]
      manifest == [c \in {prefix \o "audit_manifest_valid"} |->
                     Status(Exec(prefix \o "manifest", "accepts"))]
      unknown == [c \in {prefix \o "audit_trail_unknown_source_type_rejected"}
                    |-> UnknownSourceRefused(prefix)]
  IN IF outcome = "passed" THEN manifest ++ unknown ++ trail ELSE trail

RunAudit ==
  /\ phase = "audit"
  /\ Record(AuditStatus("", {"compatibility_matrix_report"}),
            {Deterministic("")})
  /\ phase' = "router_audit"
  /\ UNCHANGED <<suite, payload>> /\ Stay

RunRouterAudit ==
  /\ phase = "router_audit"
  /\ Record(AuditStatus("router_", {"router_validation", "router_evaluation",
                                    "router_report", "router_replay"}),
            {Deterministic("router_")})
  /\ phase' = "replay"
  /\ UNCHANGED <<suite, payload>> /\ Stay

\* replay_certification is run once, router_replay_certification twice.
ReplayStatus ==
  LET certification == Exec("replay_certification", "accepts")
      router == Behaviour("router_replay_certification", "accepts")
  IN [c \in Replays |-> StrictReplayStatus(request.target,
        IF c = "router_replay_certification" THEN RecordedOutput(router, TRUE)
        ELSE IF MissingSurface(certification) THEN "pending_runtime"
        ELSE Status(certification))]

AnswerBlocked(c) == IF \E n \in DOMAIN c : c[n] = "blocked"
                    THEN Answer("blocked", 2) ELSE AnswerFailed(c)

RunReplay ==
  /\ phase = "replay"
  /\ Record(ReplayStatus, Replays)
  /\ IF request.group = "replay"
     THEN AnswerBlocked(checks') /\ UNCHANGED suite
     ELSE /\ UNCHANGED payload
          /\ phase' = "tests"
          /\ suite' = [NoSuite EXCEPT !.todo =
                         IF request.skip_full_pytest THEN <<>> ELSE TestGroups]
  /\ Stay

\* How pytest ends for a subgroup, and what the capture makes of it: a
\* timeout, a collection error or no target at all block; a failed start and
\* any other exit code are internal errors.
Captures ==
  [passes    |-> [status |-> "pass",           blocked |-> FALSE],
   fails     |-> [status |-> "error",          blocked |-> FALSE],
   collect   |-> [status |-> "blocked",        blocked |-> TRUE],
   timeout   |-> [status |-> "blocked",        blocked |-> TRUE],
   not_run   |-> [status |-> "internal_error", blocked |-> TRUE],
   exit_code |-> [status |-> "internal_error", blocked |-> FALSE]]

\* A bad pytest ends in one of these ways; the certification is run without
\* looking for its inputs first; the checks of an audit are names for what
\* came of several commands, and no command bears them.
ASSUME SicknessAssumption ==
  \A s \in Sicknesses :
     /\ s.check = "pytest" => s.first \in DOMAIN Captures
     /\ s.check = "replay_certification" => s.fixture
     /\ s.check \notin AuditChecks("") \cup AuditChecks("router_")

\* A version is a list of numbers.
ASSUME RequestAssumption == \A r \in Requests : r.target \in Seq(Nat)

\* A test file is the set of the words its path holds.  The first rule that
\* fits decides its subgroup; one file is in none.
TestRules ==
  << <<{"test_frozen_release_manifest_v11_6"}, "ignored">>,
     <<{"tooling"}, "tests-tooling">>,
     <<{"run_all_examples"}, "tests-integration">>,
     <<{"replay", "verify_release"}, "tests-replay">>,
     <<{"examples/", "example", "e2e", "integration", "pipeline"},
       "tests-integration">>,
     <<{"validator", "contract", "schema", "report", "readiness", "audit",
        "compliance", "manifest", "policy", "fixture", "sandbox", "import"},
       "tests-contracts">> >>

TestGroup(file) ==
  LET fits == {i \in DOMAIN TestRules : TestRules[i][1] \cap file # {}}
  IN IF fits = {} THEN "tests-core"
     ELSE TestRules[CHOOSE i \in fits : \A j \in fits : i <= j][2]

SubgroupCapture(g) ==
  Captures[IF sick.check = "pytest" /\ TestGroup(sick.file) = g
           THEN sick.first ELSE "passes"]

\* The first subgroup that does not pass ends the suite.
RunSubgroup ==
  /\ phase = "tests"
  /\ suite.todo # <<>>
  /\ LET capture == SubgroupCapture(Head(suite.todo))
     IN suite' = CASE capture.status = "pass" ->
                        [suite EXCEPT !.todo = Tail(@)]
                   [] capture.status = "error" ->
                        [todo |-> <<>>, status |-> "failed", exit |-> 1,
                         blocked |-> capture.blocked]
                   [] capture.status = "blocked" ->
                        [todo |-> <<>>, status |-> "blocked", exit |-> 2,
                         blocked |-> capture.blocked]
                   [] capture.status = "internal_error" ->
                        [todo |-> <<>>, status |-> "failed", exit |-> 3,
                         blocked |-> capture.blocked]
  /\ UNCHANGED <<phase, checks, ran, payload>> /\ Stay

\* _run_tests_suite answers by itself, or becomes the pytest check of verify().
EndSuite ==
  /\ phase = "tests"
  /\ suite.todo = <<>>
  /\ IF request.group = "none"
     THEN /\ IF request.skip_full_pytest
             THEN Record([c \in {"pytest"} |-> "skipped"], {})
             ELSE Record([c \in {"pytest"} |-> suite.status], {"pytest"})
          /\ phase' = "verdict"
          /\ UNCHANGED payload
     ELSE /\ Record([c \in {"pytest"} |-> suite.status], {"pytest"})
          /\ Answer(suite.status, suite.exit)
  /\ UNCHANGED suite /\ Stay

\* The verdict is taken after the target's exclusions were written over the
\* statuses of the checks that did run.
Verdict ==
  /\ phase = "verdict"
  /\ LET excluded == Exclusions(request.target) \cap DOMAIN checks
         blocked == \/ \E n \in DOMAIN checks : checks[n] = "blocked"
                    \/ suite.blocked
     IN /\ Record([n \in excluded |-> "excluded"], {})
        /\ IF blocked THEN Answer("blocked", 2) ELSE AnswerFailed(checks')
  /\ UNCHANGED suite /\ Stay

GateStep == \/ Crash \/ RunTooling \/ RunBridges \/ RunFirstLoops
            \/ RunManifests \/ RunSecondLoops \/ RunV10 \/ RunThirdLoops
            \/ RecordV12 \/ RunAudit \/ RunRouterAudit \/ RunReplay
            \/ RunSubgroup \/ EndSuite \/ Verdict

GateInit ==
  /\ sick \in Sicknesses
  /\ request = [target |-> NoTarget, group |-> "none", list |-> FALSE,
                plan |-> FALSE, skip_full_pytest |-> FALSE]
  /\ phase = "idle"
  /\ checks = <<>> /\ ran = {}
  /\ suite = NoSuite
  /\ payload = NoPayload
=============================================================================
