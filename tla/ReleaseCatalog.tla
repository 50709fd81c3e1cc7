--------------------------- MODULE ReleaseCatalog ---------------------------
(***************************************************************************)
(* The check tables of scripts/verify_release.py.                          *)
(*                                                                         *)
(* A table maps the name of a check to what a healthy run of its command   *)
(* does: a validator accepts the fixture the command names, or rejects it, *)
(* or reports that it fails and exits with 0 all the same.                 *)
(* A version is the sequence of its numbers, <<12, 0>> for "v12.0" and     *)
(* <<12, 0, 0>> for "v12.0.0": the script compares the two as equal        *)
(* numbers and as different strings.                                       *)
(***************************************************************************)
EXTENDS Integers, Sequences, FiniteSets

\* What new says, and what old says of the rest.
new ++ old == [c \in DOMAIN new \cup DOMAIN old |->
                 IF c \in DOMAIN new THEN new[c] ELSE old[c]]

Accepting(names) == [n \in names |-> "accepts"]
Rejecting(names) == [n \in names |-> "rejects"]
Reporting(names) == [n \in names |-> "reports"]

\* The directory of registrations holds one that fails.
STATE_WATCHER_CHECKS ==
  Accepting({"state_watcher_event_derivation_deterministic"}) ++
  Rejecting({"state_watcher_validator_deterministic"})

PRIVATE_DOMAIN_CANDIDATE_CHECKS ==
  Accepting({"private_domain_candidate_accepted_deterministic"}) ++
  Rejecting({"private_domain_candidate_rejected_private_data_deterministic",
             "private_domain_candidate_rejected_unknown_command_deterministic"})

\* A candidate that was rejected is a valid record of that.
CLASSIFICATION_CANDIDATE_CHECKS ==
  Accepting({"classification_candidate_accepted_deterministic",
             "classification_candidate_clarification_required_deterministic",
             "classification_candidate_rejected_low_confidence_deterministic",
             "classification_candidate_rejected_unsafe_pattern_deterministic"})

PARAMETRIC_TEMPLATE_CHECKS ==
  Accepting({"parametric_template_valid_read_deterministic",
             "parametric_template_valid_write_deterministic",
             "parametric_template_valid_binding_deterministic"}) ++
  Rejecting({"parametric_template_invalid_command_validation_deterministic",
             "parametric_template_invalid_fingerprint_deterministic",
             "parametric_template_invalid_enum_empty_deterministic"})

BOUNDED_REFERENCE_INDEX_CHECKS ==
  Accepting({"bounded_reference_index_validation",
             "bounded_read_window_validation",
             "processed_reference_cache_validation"})

HUMAN_APPROVED_EXECUTION_GATE_CHECKS ==
  Accepting({"human_execution_proposal_validation",
             "advisory_review_bundle_validation",
             "human_approval_record_validation",
             "sandbox_execution_record_validation",
             "skill_promotion_candidate_validation"})

EXPERT_CONFLICT_PRE_RESOLUTION_CHECKS ==
  Accepting({"expert_conflict_bundle_validation",
             "pre_resolution_protocol_validation",
             "pre_resolution_report_validation",
             "human_escalation_decision_validation"})

AGENT_SESSION_CHECKS ==
  Accepting({"agent_session_valid_deterministic"}) ++
  Rejecting({"agent_session_rejects_unbounded_context",
             "agent_session_rejects_tool_execution",
             "agent_session_requires_human_approval"})

AGENT_PLAN_CHECKS ==
  Accepting({"agent_plan_accepted_deterministic"}) ++
  Reporting({"agent_plan_rejects_autonomous_execution",
             "agent_plan_rejects_circular_dependency",
             "agent_plan_rejects_parallel_side_effects",
             "agent_plan_rejects_private_path"})

TOOL_INVOCATION_CHECKS ==
  Accepting({"tool_invocation_accepted_deterministic"}) ++
  Rejecting({"tool_invocation_rejects_autonomous_execution",
             "tool_invocation_rejects_risky_no_approval",
             "tool_invocation_rejects_nested_arguments",
             "tool_invocation_rejects_private_path"})

AGENT_DECISION_TRACE_CHECKS ==
  Accepting({"agent_decision_trace_accepted_deterministic"}) ++
  Reporting({"agent_decision_trace_rejects_non_contiguous_ids",
             "agent_decision_trace_rejects_review_not_set",
             "agent_decision_trace_rejects_immutability_false",
             "agent_decision_trace_rejects_non_monotonic_timestamps",
             "agent_decision_trace_rejects_summary_count_mismatch"})

DOWNSTREAM_BRIDGE_ADAPTER_CHECKS ==
  Accepting({"downstream_bridge_adapter_accepted_strict",
             "downstream_bridge_adapter_accepted_emergency"}) ++
  Reporting({"downstream_bridge_adapter_rejects_autonomous_execution",
             "downstream_bridge_adapter_rejects_private_namespace_leak",
             "downstream_bridge_adapter_rejects_fail_closed_false"})

AGENT_BOUNDARY_FREEZE_CHECKS ==
  Accepting({"agent_boundary_freeze_accepted"})

ANCHORING_SUBMISSION_CHECKS ==
  Accepting({"anchoring_submission_accepted_freeze",
             "anchoring_submission_accepted_manifest"}) ++
  Reporting({"anchoring_submission_rejected_not_frozen",
             "anchoring_submission_rejected_hash_mismatch",
             "anchoring_submission_rejected_private_data"})

CHAIN_ADAPTER_CHECKS ==
  Accepting({"chain_adapter_ethereum_sepolia_accepted",
             "chain_adapter_polygon_mainnet_accepted",
             "chain_adapter_arbitrum_one_accepted",
             "chain_adapter_local_devnet_accepted"}) ++
  Reporting({"chain_adapter_rejected_unsupported_family",
             "chain_adapter_rejected_local_rpc_mainnet",
             "chain_adapter_rejected_mainnet_low_confirmations",
             "chain_adapter_rejected_fingerprint_mismatch"})

MERKLE_BATCH_CHECKS ==
  Accepting({"merkle_batch_build_accepted_request",
             "merkle_batch_verify_accepted_manifest"}) ++
  Rejecting({"merkle_batch_rejected_empty_items",
             "merkle_batch_rejected_duplicate_fingerprints",
             "merkle_batch_rejected_tampered_root",
             "merkle_batch_rejected_tampered_path"})

FROZEN_RULE_ANCHOR_CHECKS ==
  Accepting({"frozen_rule_set_general_accepted",
             "frozen_rule_set_personal_commitment_accepted",
             "rule_approval_general_signature_accepted",
             "rule_approval_personal_signature_accepted",
             "rule_anchor_batch_manifest_accepted"})

FROZEN_RELEASE_MANIFEST_CHECKS ==
  Accepting({"frozen_release_manifest_v11_1_accepted",
             "frozen_release_manifest_v11_2_candidate_accepted",
             "frozen_release_manifest_v11_2_frozen_accepted",
             "frozen_release_manifest_v11_3_candidate_accepted",
             "frozen_release_manifest_v11_3_frozen_accepted",
             "frozen_release_manifest_v11_4_candidate_accepted",
             "frozen_release_manifest_v11_5_candidate_accepted",
             "frozen_release_manifest_v11_5_1_candidate_accepted",
             "frozen_release_manifest_v11_6_candidate_accepted"})

EXECUTABLE_CONTRACT_CHECKS ==
  Accepting({"contract_executability_audit",
             "physical_safety_assurance_evidence_ready",
             "physical_safety_assurance_rejects_absolute_claim"})

DOCUMENT_ATTESTATION_CHECKS ==
  Accepting({"document_issuer_registry_accepted",
             "document_attestation_accepted"}) ++
  Rejecting({"document_attestation_rejected_unknown_issuer",
             "document_attestation_rejected_expired_attestation"})

PROCESS_ATTESTATION_CHECKS ==
  Accepting({"process_attestation_accepted", "evidence_bundle_accepted"}) ++
  Rejecting({"process_attestation_rejected_missing_checkpoint",
             "process_attestation_rejected_missing_approval",
             "process_attestation_rejected_inactive_status",
             "evidence_bundle_rejected_missing_receipt"})

EXECUTION_PROFILE_CHECKS ==
  Accepting({"execution_profile_accepted_minimal",
             "execution_profile_accepted_standard",
             "execution_profile_accepted_certified",
             "execution_profile_accepted_explainable",
             "execution_profile_accepted_audit",
             "execution_profile_accepted_lazy_audit",
             "execution_profile_accepted_hybrid_standard",
             "execution_profile_accepted_structural_only"})

V10_NATIVE_CHECKS ==
  Accepting({"execution_profile_strategy_fields", "otel_jsonl_export",
             "lazy_verification_gate", "composite_verification_equivalence",
             "composite_verification_eligibility_gate",
             "composite_verification_cache_never_authority"})

V102_CHECK_MAP ==
  Accepting({"otel_jsonl_export", "lazy_verification_gate",
             "lazy_verification_runtime_surface"})

V103_CHECK_MAP ==
  Accepting({"compatibility_index_schema_valid",
             "compatibility_index_cache_fingerprint",
             "compatibility_index_never_overrides_router",
             "compatibility_index_hint_propagates", "pdp_hint_propagates"})

V104_CHECK_MAP ==
  Accepting({"workflow_dag_accepted_deterministic",
             "workflow_dag_inline_exec_profile_accepted",
             "checkpoint_record_accepted_resume",
             "checkpoint_record_accepted_accountability_linked",
             "graph_ir_accepted_linear", "graph_ir_accepted_workflow_ref",
             "typed_tool_surface_accepted_read_only",
             "typed_tool_surface_accepted_reversible_mutation"}) ++
  Rejecting({"workflow_dag_rejects_cycle",
             "workflow_dag_inline_exec_profile_rejects_cycle",
             "checkpoint_record_rejects_private_path",
             "graph_ir_rejects_missing_node_ref",
             "graph_ir_rejects_duplicate_node_id",
             "graph_ir_rejects_private_path",
             "typed_tool_surface_rejects_sensitive_without_human_approval",
             "typed_tool_surface_rejects_invalid_schema_ref",
             "typed_tool_surface_rejects_private_path"})

V105_CHECK_MAP ==
  Accepting({"surrogate_node_descriptor_accepted_readonly",
             "surrogate_node_descriptor_accepted_graph_linked",
             "link_rule_validator_accepted_required_validation",
             "link_rule_validator_forbidden_audit"}) ++
  Rejecting({"surrogate_node_descriptor_rejects_execution_authority",
             "surrogate_node_descriptor_rejects_private_path_ref",
             "surrogate_node_descriptor_rejects_duplicate_link_rule_id",
             "surrogate_node_descriptor_rejects_missing_validation_ref",
             "surrogate_node_descriptor_rejects_irreversible_without_gate"})

BRIDGES == {"audio_bridge", "image_bridge", "wifi_csi_bridge"}

\* The scripts run twice for their output, before any table.
REPORT_CHECKS == Accepting(
  {"run_all_examples_deterministic", "skeleton_roundtrip_deterministic",
   "replay_explain_roundtrip_deterministic",
   "compatibility_matrix_deterministic", "protocol_model_readiness",
   "protocol_model_candidate_package_readiness",
   "protocol_model_external_candidate_output_evaluation",
   "protocol_model_candidate_comparison",
   "protocol_model_external_submission_intake",
   "protocol_model_submission_comparison",
   "protocol_model_certification_dossier",
   "protocol_model_candidate_package_certification",
   "protocol_model_candidate_output_diagnostics",
   "protocol_model_artifact_readiness", "protocol_model_candidate_gate",
   "protocol_model_candidate_trial", "development_audit_readiness",
   "protocol_model_domain_vocabulary_validation",
   "protocol_model_command_candidate_validation",
   "protocol_model_command_candidate_compilation",
   "protocol_model_preintegration_package",
   "protocol_model_preintegration_readiness"})

DEVELOPMENT_AUDIT_CHECKS ==
  Accepting({"development_audit_enforcement_docs"}) ++
  Rejecting({"development_audit_enforcement_runtime_core"})

V10_CHECKS == DOMAIN V10_NATIVE_CHECKS

V10_NATIVE_FLOORS ==
  [n \in V10_CHECKS |->
     CASE n = "execution_profile_strategy_fields" -> <<10, 0>>
       [] n \in {"otel_jsonl_export", "lazy_verification_gate"} -> <<10, 2>>
       [] OTHER -> <<10, 3>>]

V7_CHECKS == DOMAIN EXPERT_CONFLICT_PRE_RESOLUTION_CHECKS \cup
  {"protocol_model_preintegration_package",
   "protocol_model_preintegration_readiness"}

V111_CHECKS == DOMAIN EXECUTABLE_CONTRACT_CHECKS \cup
  DOMAIN FROZEN_RULE_ANCHOR_CHECKS \cup
  {"frozen_release_manifest_v11_1_accepted"}

V12_CHECKS ==
  {"v12_canonicalization_spec", "v12_fingerprint_versioned",
   "v12_envelope_schema", "v12_additionalProperties_false",
   "v12_verdict_policy", "v12_single_registry", "v12_schema_source_unified",
   "v11_immutability", "v12_patch_scope_12_0_x", "v12_derive_explicit_ops"}

\* V7_CHECKS, V8_CHECKS, ..., V95_CHECKS: the checks in the order of the
\* release lines that introduced them.
Introduced ==
  << V7_CHECKS, DOMAIN AGENT_SESSION_CHECKS, DOMAIN AGENT_PLAN_CHECKS,
     DOMAIN TOOL_INVOCATION_CHECKS, DOMAIN AGENT_DECISION_TRACE_CHECKS,
     DOMAIN DOWNSTREAM_BRIDGE_ADAPTER_CHECKS,
     DOMAIN AGENT_BOUNDARY_FREEZE_CHECKS, DOMAIN ANCHORING_SUBMISSION_CHECKS,
     DOMAIN CHAIN_ADAPTER_CHECKS, DOMAIN MERKLE_BATCH_CHECKS,
     DOMAIN DOCUMENT_ATTESTATION_CHECKS, DOMAIN PROCESS_ATTESTATION_CHECKS >>

From(i) == UNION {Introduced[j] : j \in i .. Len(Introduced)}

\* What each target leaves out. The keys are spelled: "v12.0.0" has no entry.
TARGET_EXCLUSIONS ==
  LET first == [t \in {<<6, 9>>, <<7, 8>>, <<8, 0>>, <<8, 1>>, <<8, 2>>,
                       <<8, 3>>, <<8, 4>>, <<8, 5>>, <<9, 0>>, <<9, 1>>,
                       <<9, 2>>, <<9, 3>>, <<9, 4>>} |->
                 From(CASE t = <<6, 9>> -> 1 [] t = <<7, 8>> -> 2
                        [] t[1] = 8 -> 3 + t[2]
                        [] t = <<9, 0>> -> 9
                        [] t[1] = 9 /\ t # <<9, 0>> -> 8 + t[2])]
      v10 == [t \in {<<10, 0>>, <<10, 0, 1>>, <<10, 1>>, <<10, 2>>,
                     <<10, 3>>, <<10, 4>>, <<10, 5>>} |->
                V10_CHECKS \cup V111_CHECKS \cup V12_CHECKS]
      v11 == [t \in {<<11, 0>>, <<11, 0, 1>>, <<11, 1>>, <<11, 2>>,
                     <<11, 3>>} |-> V111_CHECKS \cup V12_CHECKS]
  IN first ++ [t \in {<<9, 5>>} |-> {}] ++ v10 ++ v11
           ++ [t \in {<<12, 0>>} |-> V12_CHECKS]

NoTarget == <<>>

Exclusions(target) ==
  IF target \in DOMAIN TARGET_EXCLUSIONS THEN TARGET_EXCLUSIONS[target] ELSE {}

NumericVersion(v) == CASE Len(v) = 2 -> <<v[1], v[2], 0>>
                       [] Len(v) = 3 -> v
                       [] OTHER -> <<-1, -1, -1>>

TargetAtLeast(target, floor) ==
  LET t == NumericVersion(target)
      f == NumericVersion(floor)
  IN \/ target = NoTarget
     \/ t = f
     \/ \E i \in 1..3 : t[i] > f[i] /\ \A j \in 1..(i-1) : t[j] = f[j]
=============================================================================
