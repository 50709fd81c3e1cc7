--------------------------- MODULE AgentArtifacts ---------------------------
(***************************************************************************)
(* The rules for what an agent writes down before it acts: its plan        *)
(* (scripts/validate_agent_plan.py), its session, task and budget          *)
(* (validate_agent_session.py) and the tools it proposes                   *)
(* (validate_tool_invocation.py).  Each operator is the set of rejection   *)
(* codes of one validator.  A field that is only tested for being empty is *)
(* TRUE when it is not; an identifier is "ok", "missing" or "malformed"; a *)
(* flag that may be left out is "yes", "no" or "unsaid".                   *)
(***************************************************************************)
EXTENDS ContractRules

IdErrors(id, missing, malformed) ==
  When(id = "missing", missing) \cup When(id = "malformed", malformed)

\* d.private: some field holds a path of somebody's machine.
PathErrors(d) == When(d.private, "private_path_detected")

Tiers == {"none", "low", "medium", "high"}

-----------------------------------------------------------------------------
(* Plans.  A step: at is its step_index, Absent when it has none; after is *)
(* depends_on; tool, whether it has a tool_proposal_ref; supervised is     *)
(* forbids_autonomous_execution; result is "missing", "unknown" or "ok".   *)

Index(s) == IF s.at = Absent THEN -1 ELSE s.at

ActionErrors(s) ==
  When(s.tool /\ ~ s.approval, "step_approval_not_required")
  \cup When(~ s.supervised, "step_autonomous_execution_allowed")
  \cup When(s.risk \notin Tiers \cup {""}, "invalid_risk_tier")
  \cup When(s.result = "missing", "missing_expected_result")
  \cup When(s.result = "unknown", "invalid_expected_result_type")

SideEffects(s) == s.tool \/ s.risk \in {"low", "medium", "high"}

\* The dependencies the sort follows: of another step, and in range.
PlanLinks(steps) ==
  LET n == Len(steps)
  IN UNION {{<<p, steps[i].at>> : p \in (steps[i].after \cap 0 .. n - 1)
                                          \ {steps[i].at}} : i \in DOMAIN steps}

\* The sort reads step_index, and counts dependencies for 0..n-1 alone:
\* a KeyError ends the run of the validator.
SortFails(steps) ==
  LET n == Len(steps)
  IN \E i \in DOMAIN steps :
        \/ steps[i].at = Absent
        \/ steps[i].at \notin 0 .. n - 1 /\ steps[i].after \cap 0 .. n - 1 # {}

\* Before the steps are looked at.
PlanHeadErrors(d) ==
  When(~ d.kind, "invalid_type")
  \cup IdErrors(d.id, "missing_plan_id", "invalid_plan_id_format")
  \cup When(~ d.session, "missing_session_ref")
  \cup When(d.steps = <<>>, "empty_steps")

PlanBodyErrors(d) ==
  LET n == Len(d.steps)
      indices == {Index(d.steps[i]) : i \in DOMAIN d.steps}
  IN When(n > d.max, "max_steps_exceeded")
     \cup When(~ d.approval, "plan_approval_not_required")
     \cup When(~ d.sequential /\ \E i \in DOMAIN d.steps : SideEffects(d.steps[i]),
               "plan_parallel_execution_with_side_effects")
     \cup When(Cardinality(indices) < n, "duplicate_step_index")
     \cup When(~ indices \subseteq 0 .. n - 1, "step_index_out_of_range")
     \cup When(\E i \in DOMAIN d.steps : ~ d.steps[i].intent,
               "missing_step_intent")
     \cup When(\E i \in DOMAIN d.steps : ~ d.steps[i].after \subseteq indices,
               "invalid_depends_on")
     \cup (UNION {ActionErrors(d.steps[i]) : i \in DOMAIN d.steps})
     \cup PathErrors(d)

\* All but what the sort says.
PlanErrors(d) ==
  PlanHeadErrors(d) \cup IF d.steps = <<>> THEN {} ELSE PlanBodyErrors(d)

PlanStepErrors(d) ==
  When(~ d.kind, "invalid_step_type")
  \cup IdErrors(d.id, "missing_step_id", "invalid_step_id_format")
  \cup When(~ d.plan, "missing_plan_ref")
  \cup ActionErrors(d)
  \cup PathErrors(d)

PlanDependencyErrors(d) ==
  When(~ d.kind, "invalid_dep_type")
  \cup IdErrors(d.id, "missing_dependency_id", "invalid_dependency_id_format")
  \cup When(~ d.plan, "missing_plan_ref")
  \cup When(d.from = d.to, "self_dependency")
  \cup When(d.sort \notin {"", "sequential", "data_flow", "approval_required"},
            "invalid_dependency_type")
  \cup PathErrors(d)

PlanResultErrors(d) ==
  When(~ d.kind, "invalid_result_type")
  \cup IdErrors(d.id, "missing_result_id", "invalid_result_id_format")
  \cup When(~ d.plan, "missing_plan_ref")
  \cup When(~ d.session, "missing_session_ref")
  \cup When(d.status \notin {"", "completed", "partial", "rejected", "escalated"},
            "invalid_overall_status")
  \cup When(d.results = <<>>, "empty_step_results")
  \cup When("malformed" \in Range(d.results), "invalid_outcome_fingerprint")
  \cup When("malformed" \in d.fingerprints, "invalid_fingerprint")
  \cup PathErrors(d)

-----------------------------------------------------------------------------
(* Sessions, tasks, budgets and the short decision traces of a session.    *)

ReadPolicies == {"bounded_read_only", "read_write_proposal_only"}

SessionErrors(d) ==
  When(~ d.kind, "invalid_type")
  \cup IdErrors(d.id, "missing_session_id", "invalid_session_id_format")
  \cup When(d.agent \in {"missing", "anonymous"}, "missing_agent")
  \cup When(d.agent = "unknown kind", "invalid_agent_kind")
  \cup When(~ d.task, "missing_task")
  \cup When(~ d.budget \/ d.policy \notin ReadPolicies \cup {"no_access"},
            "missing_context_budget")
  \cup When(d.budget /\ d.policy \in ReadPolicies /\ ~ d.bounded,
            "unbounded_context")
  \cup When(~ d.trace, "missing_trace")
  \cup When(d.approval = "no", "human_approval_not_required")
  \cup When(d.supervised = "no", "autonomous_execution_allowed")
  \cup When(d.authority \in {"llm", "ai", "model"}, "llm_authority_claimed")
  \cup PathErrors(d)

TaskErrors(d) ==
  When(~ d.kind, "invalid_task_type")
  \cup When(d.id # "ok", "missing_task_id")
  \cup When(~ d.intent, "missing_task")
  \cup When(d.validation = "no", "command_validation_not_required")
  \cup PathErrors(d)

\* A tool whose execution requires approval may be allowed here.
BudgetErrors(d) ==
  When(~ d.kind, "invalid_budget_type")
  \cup When(d.id # "ok", "missing_budget_id")
  \cup When(d.proposals = "no", "proposal_only_violated")
  \cup PathErrors(d)

Actions == {"classify", "validate", "propose", "read", "escalate", "reject",
            "approve"}
Outcomes == {"success", "failed", "escalated", "rejected", "deferred"}

ShortTraceErrors(d) ==
  When(~ d.kind, "invalid_trace_type")
  \cup When(d.id # "ok", "missing_trace_id")
  \cup When(~ d.session, "missing_trace")
  \cup When(d.decisions = {}, "empty_decisions")
  \cup When(\E x \in d.decisions : x.action \notin Actions
                                     \/ x.outcome \notin Outcomes,
            "invalid_trace_type")
  \cup PathErrors(d)

-----------------------------------------------------------------------------
(* A proposed invocation of a tool.  Arguments are "flat", "nested" or of  *)
(* no JSON type a value may have; whole is TRUE of an integer.             *)

Within(x, lo, hi) == x.whole /\ x.n \in lo .. hi

InvocationErrors(d) ==
  When(~ d.kind, "invalid_type")
  \cup IdErrors(d.id, "missing_proposal_id", "invalid_proposal_id_format")
  \cup When(~ d.session, "missing_session_ref")
  \cup When(~ d.step, "missing_plan_step_ref")
  \cup IdErrors(d.tool, "missing_tool_logical_name",
                "invalid_tool_logical_name_format")
  \cup IdErrors(d.version, "missing_tool_version", "invalid_tool_version_format")
  \cup When(d.category \notin {"read_only", "write", "external_call",
                               "approval_gate", "notification"},
            "invalid_tool_category")
  \cup When(d.arguments = {}, "empty_arguments")
  \cup When("nested" \in d.arguments, "nested_argument_value")
  \cup When(d.risk \notin Tiers, "invalid_risk_tier")
  \cup When(d.effects \notin {"none", "read_only", "writes_state",
                              "external_side_effect"}, "invalid_side_effects")
  \cup When(d.reversible \notin {"reversible", "partially_reversible",
                                 "irreversible"}, "invalid_reversibility")
  \cup When(d.approval = "unsaid", "missing_requires_human_approval")
  \cup When(d.approval = "no" /\ d.risk \notin {"", "none"},
            "approval_not_required_for_risky_tool")
  \cup When(d.approval = "no" /\ d.effects \notin {"", "none", "read_only"},
            "approval_not_required_for_side_effects")
  \cup When(~ d.reason, "missing_approval_reason")
  \cup When(d.evidence = "missing", "missing_expected_evidence")
  \cup When(d.evidence = "unknown", "invalid_evidence_type")
  \cup When(d.evidence = "bare", "missing_evidence_description")
  \cup When(d.supervised # "yes", "autonomous_execution_allowed")
  \cup When(~ Within(d.timeout, 1, 3600), "timeout_out_of_range")
  \cup When(~ Within(d.retries, 0, 3), "max_retries_out_of_range")
  \cup PathErrors(d)
=============================================================================
