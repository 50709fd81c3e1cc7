---------------------------- MODULE ContractAudit ----------------------------
(***************************************************************************)
(* audit_contract_executability: the probes of contract_probes.py - for    *)
(* each contract a document that must be accepted and a change to it that  *)
(* must be rejected for a given reason - and the audit of                  *)
(* contract_executability.py that runs them, compares the registries and   *)
(* looks at every published schema.                                        *)
(*                                                                         *)
(* What the audit looks for is in the environment: "fault" is the one      *)
(* thing that is wrong with the repository it runs in.                     *)
(***************************************************************************)
EXTENDS ContractEvaluator

CONSTANTS
  Standalone    \* STANDALONE_EXECUTABLE_CONTRACTS

VARIABLES
  fault,     \* [kind, name, code]
  todo,      \* the parts of the audit still to run, in order
  findings   \* its errors so far

auditVars == <<fault, todo, findings>>

-----------------------------------------------------------------------------
(* The probes.                                                             *)

Doc(name, body) == [name |-> name, body |-> body, form |-> Form]

\* build_physical_safety_case: one catastrophic hazard behind two barriers,
\* tested in every scenario by one method.
EvidenceOf(method) ==
  [id |-> "suite", fingerprint |-> "suite", at |-> 10,
   source |-> IF method = "independent_assessment"
              THEN "independent_assessor" ELSE "human_directed_software",
   class |-> IF method = "bench" THEN "laboratory" ELSE method]

Lab(id) == [id |-> id, fingerprint |-> id, at |-> 10, class |-> "laboratory",
            source |-> "human_directed_software"]

TestOf(scenario, method) ==
  [id |-> scenario, hazards |-> {"motion"}, scenario |-> scenario,
   method |-> method, result |-> "passed", actuation |-> FALSE,
   expected |-> "stopped", observed |-> "stopped", evidence |-> {"suite"}]

BarrierOf(id, kind, domain, other) ==
  [id |-> id, kind |-> kind, domain |-> domain, independent |-> {other},
   bypassable |-> FALSE, evidence |-> {id}]

SafetyCaseOf(method) ==
  LET order == SetToSeq(Scenarios)
      labels == <<"low", "high", "controller", "isolation", "references">>
  IN [claim |-> [absolute |-> FALSE, status |-> "observed", proofs |-> {},
                 formal |-> FALSE],
      extremes |-> <<[id |-> "minimum", direction |-> "lower",
                      evidence |-> "low", at |-> 9],
                     [id |-> "maximum", direction |-> "adversarial",
                      evidence |-> "high", at |-> 9]>>,
      samples |-> 100,
      evidence |-> [i \in DOMAIN labels |-> Lab(labels[i])]
                     \o <<EvidenceOf(method)>>,
      barriers |-> <<BarrierOf("controller", "isolated_safety_controller",
                               "isolated_controller", "isolation"),
                     BarrierOf("isolation", "physical_energy_isolation",
                               "electrical_hardware", "controller")>>,
      hazards |-> <<[id |-> "motion", severity |-> "catastrophic",
                     barriers |-> {"controller", "isolation"},
                     tests |-> Scenarios]>>,
      tests |-> [i \in DOMAIN order |-> TestOf(order[i], method)],
      refs |-> {"references"}, recorded |-> LedgerEvents, at |-> 12,
      requested |-> IF method = "independent_assessment"
                    THEN "independent_evidence_ready"
                    ELSE IF method = "simulation" THEN "simulation_only"
                    ELSE "evidence_ready"]

ProgramProbe ==
  [instructions |->
     <<[opcode |-> "load", key |-> "class", output |-> "v"],
       [opcode |-> "assert", key |-> "approved", equals |-> Bool(TRUE)],
       [opcode |-> "derive", operation |-> "copy", inputs |-> <<"v">>,
        output |-> "r"],
       [opcode |-> "transition", before |-> "pending", after |-> "reviewed"],
       [opcode |-> "emit", value |-> "r"],
       [opcode |-> "halt", status |-> "passed"]>>,
   limits |-> [steps |-> 6, items |-> 4, emits |-> 1],
   capabilities |-> {"read_input", "assert", "derive", "stage_transition",
                     "emit_result"}]

TraceProbe ==
  [nodes |-> <<[id |-> "decision", ref |-> 1], [id |-> "receipt", ref |-> 2]>>,
   edges |-> <<[from |-> 1, to |-> 2]>>, root |-> 1, at |-> 0]

\* accepted_contract_payloads: context, memory and learning.
AcceptedMemory(name) ==
  CASE name = "context_gate" ->
         [status |-> "passed", mode |-> "dry-run", result |-> FALSE]
    [] name = "context_threshold" ->
         [status |-> "passed", compress |-> TRUE, current |-> 85,
          previous |-> 75, ema |-> 80, threshold |-> 80]
    [] name = "memory_artifact" ->
         [retention |-> "keep", facts |-> TRUE, decisions |-> FALSE,
          invariants |-> TRUE, risks |-> TRUE, at |-> 0]
    [] name = "memory_generation_result" ->
         [status |-> "passed", reused |-> FALSE, memory_id |-> TRUE,
          memory_ref |-> TRUE]
    [] name = "operational_learning_event" ->
         [status |-> "candidate", payload |-> TRUE,
          grants |-> "advisory_only", at |-> 0]
    [] name = "pattern_candidate" ->
         [signature |-> TRUE, confidence |-> 90,
          class |-> "candidate_for_template", occurrences |-> 3,
          evidence |-> TRUE, examples |-> TRUE, action |-> "request",
          at |-> 0]
    [] name = "retention_manifest" ->
         [entries |-> <<[artifact |-> "a1", class |-> "keep", has |-> {}]>>]
    [] name = "template_promotion_candidate" ->
         [inputs |-> TRUE, evidence |-> TRUE, stops |-> TRUE,
          risk |-> "high", approval |-> TRUE, sources |-> TRUE]

\* accepted_contract_payloads: decisions, effects and their records.
AcceptedControl(name) ==
  CASE name = "control_decision" ->
         [decision |-> "require_confirmation",
          reversibility |-> "irreversible", evidence |-> TRUE, at |-> 0]
    [] name = "effect_result" ->
         [status |-> "dry_run", dry_run |-> TRUE, provider |-> TRUE,
          target |-> TRUE, error |-> FALSE]
    [] name = "entropy_signal" ->
         [measurement |-> TRUE, severity |-> "high",
          response |-> "manual_review", at |-> 0]
    [] name = "execution_receipt" ->
         [status |-> "succeeded", transitions |-> TRUE, at |-> 0]
    [] name = "policy_lifecycle" ->
         [from |-> 1, to |-> Absent, status |-> "active",
          supersedes |-> "none", policy |-> "p1"]
    [] name = "reversibility_policy" ->
         [reversibility |-> "irreversible", approval |-> TRUE,
          compensation |-> FALSE, at |-> 0]
    [] name = "state_transition" ->
         [before |-> "armed", after |-> "safe",
          reversibility |-> "irreversible", actor |-> "human_operator",
          at |-> 0]
    [] name = "task_closeout" ->
         [status |-> "passed", report |-> TRUE, events |-> FALSE,
          effects |-> FALSE, memory |-> FALSE]
    [] OTHER -> AcceptedMemory(name)

AcceptedBody(name) ==
  CASE name = "causal_trace" -> TraceProbe
    [] name = "contract_program" -> ProgramProbe
    [] name = "physical_safety_assurance_case" -> SafetyCaseOf("simulation")
    [] OTHER -> AcceptedControl(name)

\* executable_contract_probes: the change made to the accepted document.
Mutated(name) ==
  LET b == AcceptedBody(name)
  IN CASE name = "causal_trace" -> [b EXCEPT !.edges[1].to = 3]
       [] name = "contract_program" -> [b EXCEPT !.limits.steps = 1]
       [] name = "context_gate" -> [b EXCEPT !.mode = "apply",
                                             !.status = "applied"]
       [] name = "context_threshold" -> [b EXCEPT !.compress = FALSE]
       [] name = "control_decision" -> [b EXCEPT !.decision = "allow"]
       [] name = "effect_result" -> [b EXCEPT !.status = "applied"]
       [] name = "entropy_signal" -> [b EXCEPT !.measurement = FALSE]
       [] name = "execution_receipt" -> [b EXCEPT !.status = "simulated"]
       [] name = "memory_artifact" -> [b EXCEPT !.retention = "forget"]
       [] name = "memory_generation_result" ->
            [b EXCEPT !.reused = TRUE, !.memory_ref = FALSE]
       [] name = "operational_learning_event" ->
            [b EXCEPT !.grants = "auto_execute"]
       [] name = "pattern_candidate" ->
            [b EXCEPT !.class = "too_ambiguous", !.action = "promote"]
       [] name = "policy_lifecycle" -> [b EXCEPT !.to = 0]
       [] name = "retention_manifest" -> [b EXCEPT !.entries = @ \o @]
       [] name = "reversibility_policy" -> [b EXCEPT !.approval = FALSE]
       [] name = "state_transition" -> [b EXCEPT !.after = b.before]
       [] name = "task_closeout" -> [b EXCEPT !.report = FALSE]
       [] name = "template_promotion_candidate" -> [b EXCEPT !.approval = FALSE]
       [] name = "physical_safety_assurance_case" ->
            [b EXCEPT !.tests = SubSeq(@, 1, Len(@) - 1),
                      !.hazards[1].tests = @ \ {b.tests[Len(b.tests)].id}]

Expected(name) ==
  CASE name = "causal_trace" -> "dangling_edge_ref"
    [] name = "contract_program" -> "program_step_limit_exceeded"
    [] name = "context_gate" -> "apply_result_required"
    [] name = "context_threshold" -> "threshold_decision_mismatch"
    [] name = "control_decision" -> "unsafe_allow_decision"
    [] name = "effect_result" -> "effect_status_dry_run_mismatch"
    [] name = "entropy_signal" -> "measurement_required"
    [] name = "execution_receipt" -> "simulated_transition_forbidden"
    [] name = "memory_artifact" -> "unsafe_memory_forgetting"
    [] name = "memory_generation_result" -> "reused_memory_reference_required"
    [] name = "operational_learning_event" ->
         "learning_event_authority_escalation"
    [] name = "pattern_candidate" -> "ambiguous_pattern_cannot_promote"
    [] name = "physical_safety_assurance_case" -> "required_scenario_missing"
    [] name = "policy_lifecycle" -> "invalid_effective_interval"
    [] name = "retention_manifest" -> "duplicate_artifact_ref"
    [] name = "reversibility_policy" -> "responsible_approval_required"
    [] name = "state_transition" -> "state_transition_noop"
    [] name = "task_closeout" -> "closeout_evidence_required"
    [] name = "template_promotion_candidate" -> "promotion_approval_required"

-----------------------------------------------------------------------------
(* The audit.                                                              *)

Is(kind, name) == fault.kind = kind /\ fault.name = name

\* What is in force where the audit runs.
World ==
  [loaded |-> {n \in Names : ~ Is("schema unlisted", n)},
   evaluators |-> {n \in Names : ~ Is("evaluator unregistered", n)},
   broken |-> IF fault.kind = "rule dropped" THEN {fault.code} ELSE {}]

Probed == {n \in Names : ~ Is("probe missing", n)}

\* The evaluation of a probe.  The search of a trace finds a cycle when there
\* is one (AcceptedTraceIsCausal).
Evaluated(d) ==
  Evaluate(d, World, d.name = "causal_trace" /\ CausesItself(d.body))

\* The second evaluation of the same document.
Again(d) == Evaluated(d) \cup When(Is("unstable", d.name), "noise")

Negative(name) ==
  [Doc(name, Mutated(name)) EXCEPT
     !.form.schema = ~ Is("negative breaks the schema", name)]

\* Mutant of ProbeErrors: the negative document has to fail, for any reason.
AnyRejection(name) ==
  LET accepted == Evaluated(Doc(name, AcceptedBody(name)))
      rejected == Evaluated(Negative(name))
  IN When(accepted # {}, "accepted_probe_semantics_failed")
     \cup When(accepted # Again(Doc(name, AcceptedBody(name))),
               "nondeterministic_result")
     \cup When(~ Negative(name).form.schema, "negative_probe_not_schema_valid")
     \cup When(rejected = {}, "semantic_negative_probe_accepted")
     \cup When(Is("rules unlisted", name), "semantic_rule_inventory_missing")
     \cup When(Is("execution authorized", name), "execution_authority_leak")
     \cup When(Is("deployment authorized", name), "deployment_authority_leak")

ProbeErrors(name) ==
  LET accepted == Evaluated(Doc(name, AcceptedBody(name)))
      rejected == Evaluated(Negative(name))
  IN When(name \notin World.loaded, "accepted_probe_schema_failed")
     \cup When(accepted # {}, "accepted_probe_semantics_failed")
     \cup When(accepted # Again(Doc(name, AcceptedBody(name))),
               "nondeterministic_result")
     \cup When(~ Negative(name).form.schema \/ name \notin World.loaded,
               "negative_probe_not_schema_valid")
     \cup When(rejected = {}, "semantic_negative_probe_accepted")
     \cup When(Expected(name) \notin rejected, "expected_semantic_error_missing")
     \cup When(Is("rules unlisted", name), "semantic_rule_inventory_missing")
     \cup When(Is("execution authorized", name), "execution_authority_leak")
     \cup When(Is("deployment authorized", name), "deployment_authority_leak")

AuditParts == <<"registries">> \o Contracts \o <<"inventory">>

AuditInit(f, parts) ==
  /\ fault = f
  /\ todo = parts
  /\ findings = {}

Report(part, errors) ==
  /\ todo # <<>> /\ Head(todo) = part
  /\ findings' = findings \cup errors
  /\ todo' = Tail(todo)
  /\ UNCHANGED fault

\* Loader, evaluator and probes know the same contracts.
CompareRegistries ==
  Report("registries",
         When(Probed # World.evaluators \/ World.evaluators # World.loaded,
              "contract_registry_drift"))

\* The probes run one by one; a contract without one is not probed.
RunProbe(name) ==
  Report(name, IF name \in Probed THEN ProbeErrors(name) ELSE {})

\* The schemas in the directory: one may be there that no table knows.
PublicSchemas ==
  Names \cup Standalone
  \cup (IF fault.kind = "schema unclassified" THEN {fault.name} ELSE {})

\* _public_schema_inventory and _standalone_mechanism_errors: every schema has
\* an evaluator or a validator, every validator can be imported and called.
TakeInventory ==
  Report("inventory",
    When(PublicSchemas \ (World.evaluators \cup Standalone) # {},
         "unclassified_public_contract")
    \cup When(fault.kind = "schema unreadable", "schema_unreadable")
    \cup When(fault.kind = "validator not importable",
              "validator_import_failed")
    \cup When(fault.kind = "validator not callable",
              "validator_symbol_missing"))

AuditNext == CompareRegistries \/ (\E n \in Names : RunProbe(n)) \/ TakeInventory

AuditSpec(f) == AuditInit(f, AuditParts) /\ [][AuditNext]_auditVars

-----------------------------------------------------------------------------
\* The faults the audit is there for: a contract that lost its schema, its
\* evaluator, its probe, its inventory of rules, its determinism or its lack of
\* authority; a schema nobody evaluates; and a rule that is not enforced, if it
\* is the one some probe was written for.
OfAContract == {"evaluator unregistered", "schema unlisted", "probe missing",
                "unstable", "negative breaks the schema", "rules unlisted",
                "execution authorized", "deployment authorized"}

KnownFault(f) ==
  \/ f.kind \in OfAContract /\ f.name \in Names
  \/ f.kind = "schema unclassified" /\ f.name \notin Names \cup Standalone
  \/ f.kind \in {"schema unreadable", "validator not importable",
                 "validator not callable"}
  \/ f.kind = "rule dropped" /\ \E n \in Names : f.code = Expected(n)

AuditOver == todo = <<>> /\ fault.kind # "idle"

\* The audit fails exactly where one of these is wrong - also when another rule
\* still rejects the negative document, as for an effect result.  Elsewhere it
\* passes: each probe is accepted, each negative document is rejected with the
\* code expected of it, and the registries agree - with a rule dropped that no
\* probe was written for, too.  (audit_contract_executability.)
AuditDecides == AuditOver => (findings # {} <=> KnownFault(fault))
=============================================================================
