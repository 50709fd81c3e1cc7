---------------------------- MODULE AgentRecords ----------------------------
(***************************************************************************)
(* The rules for what is written down around an agent's act: the requests, *)
(* advice, approvals and records of the human gate                         *)
(* (scripts/validate_human_approved_execution_gate.py), the trace of its   *)
(* decisions (validate_agent_decision_trace.py) and the profile it runs    *)
(* under (validate_execution_profile.py); fields as in AgentArtifacts.     *)
(***************************************************************************)
EXTENDS AgentArtifacts

(* The human gate.  d.kind: the type is that of the schema.                *)

RequestErrors(d) ==
  When(~ d.kind, "invalid_type")
  \cup When(~ d.id, "missing_proposal_id")
  \cup When(\/ d.producer \notin {"private_assistant", "development_agent",
                                  "skill_runner", "human_operator"}
            \/ d.action \notin {"run_script", "apply_patch",
                                "generate_artifact", "read_only_check"}
            \/ d.risk \notin {"", "low", "medium", "high", "critical"},
            "invalid_execution_proposal")
  \cup When(d.action # "not an object" /\ ~ d.sandbox, "missing_sandbox_required")
  \cup When(d.scope \cap {"absolute", "parent"} # {}, "scope_expansion_detected")
  \cup When(d.approval = "no", "missing_human_approval")

AdviceErrors(d) ==
  When(~ d.kind \/ d.verdict \notin {"", "approve", "approve_with_conditions",
                                     "clarification_requested", "reject"},
       "invalid_type")
  \cup When(d.authority # "advisory_only", "llm_authority_rejected")

BundleErrors(d) ==
  When(~ d.kind \/ d.agreement \notin {"", "unanimous_approval", "partial",
                                       "unanimous_rejection"}, "invalid_type")
  \cup When(d.human # "yes", "expert_divergence_requires_human")
  \cup When(d.agreement = "partial" /\ ~ d.divergence,
            "missing_divergence_summary")
  \cup When(d.agreement = "unanimous_approval" /\ d.human # "yes",
            "advisory_consensus_not_authority")

\* A record that says no decision at all is not refused for it.
ApprovalErrors(d) ==
  When(\/ ~ d.kind
       \/ d.decision \notin {"", "approved_for_sandbox_execution", "rejected",
                             "clarification_required"}
       \/ d.fingerprint = "malformed", "invalid_type")

SandboxErrors(d) ==
  When(~ d.kind, "invalid_type")
  \cup When(~ d.profile, "missing_sandbox_profile")

SkillErrors(d) ==
  When(~ d.kind, "invalid_type")
  \cup When(d.activation # "disabled", "skill_auto_activation_rejected")
  \cup When(d.approval # "yes", "missing_human_approval")
  \cup When(~ d.execution, "missing_execution_evidence")

AmbiguityErrors(d) ==
  When(~ d.kind \/ d.sort \notin {"", "scope_interpretation",
                                  "risk_tier_ambiguity",
                                  "output_format_ambiguity",
                                  "authorization_boundary"}, "invalid_type")
  \cup When(d.interpretations < 2 \/ ~ d.resolution,
            "ambiguity_requires_resolution")

-----------------------------------------------------------------------------
(* The trace of an agent's decisions.  An entry: id, Absent when it has    *)
(* none; type; summary, "missing", "blank" or a text; ref, whether it      *)
(* names a source; hash, of that source; at, the rank of its timestamp     *)
(* among texts, Absent without one; violation, of governance.  d.root is   *)
(* the chain root: of what entries, when it is one.                        *)

EntryTypes == {"observation", "proposal", "outcome", "approval", "rejection"}

\* What the chain root is the hash of: each entry without its evidence hash.
Chained(entries) ==
  [i \in DOMAIN entries |-> [entries[i] EXCEPT !.hash = "left out"]]

\* Mutant of Backwards: an entry is compared with the one right before it, if
\* both are dated.
BackwardsAtOnce(entries) ==
  \E i \in DOMAIN entries \ {1} :
     /\ entries[i - 1].at # Absent /\ entries[i].at # Absent
     /\ entries[i].at < entries[i - 1].at

\* A dated entry is compared with the dated one before it.
Backwards(entries) ==
  \E i, j \in DOMAIN entries :
     /\ i < j /\ entries[i].at # Absent /\ entries[j].at # Absent
     /\ \A k \in i + 1 .. j - 1 : entries[k].at = Absent
     /\ entries[j].at < entries[i].at

Violations(entries) ==
  {i \in DOMAIN entries : entries[i].type = "rejection" /\ entries[i].violation}

TypeCounts(entries) ==
  [t \in {entries[i].type : i \in DOMAIN entries} |->
     Cardinality({i \in DOMAIN entries : entries[i].type = t})]

EntryErrors(e) ==
  When(e.type \notin EntryTypes \cup {""}, "invalid_entry_type")
  \cup When(e.summary = "missing", "missing_entry_summary")
  \cup When(e.summary = "blank", "empty_entry_summary")
  \cup When(e.ref /\ e.hash = "missing", "missing_evidence_hash_for_ref")
  \cup When(e.hash = "malformed", "invalid_evidence_hash_format")

\* Which entry is which: an entry without an id has its position for one.
EntryIds(entries) ==
  [i \in DOMAIN entries |-> IF entries[i].id = Absent THEN i - 1
                            ELSE entries[i].id]

NumberingErrors(entries) ==
  LET ids == EntryIds(entries)
      repeated == Cardinality(Range(ids)) < Len(entries)
  IN When(repeated, "duplicate_entry_id")
     \cup When(~ repeated /\ \E i \in DOMAIN ids : ids[i] # i - 1,
               "non_contiguous_entry_ids")

GovernanceErrors(d) ==
  LET found == Cardinality(Violations(d.entries))
  IN When(found # d.claimed, "governance_violation_count_mismatch")
     \cup When(found > 0 /\ ~ d.review, "requires_review_not_set")

IntegrityErrors(d) ==
  When(d.root.hash = "missing", "missing_chain_root_hash")
  \cup When(d.root.hash = "malformed", "invalid_chain_root_hash_format")
  \cup When(d.root.hash = "ok" /\ d.root.of # Chained(d.entries),
            "chain_root_hash_mismatch")
  \cup When(~ d.immutable, "immutability_guarantee_not_true")
  \cup When(d.count \notin {Absent, Len(d.entries)}, "entry_count_mismatch")

SummaryErrors(d) ==
  When(d.total \notin {Absent, Len(d.entries)},
       "trace_summary_entry_count_mismatch")
  \cup When(d.counts.given /\ d.counts.of # TypeCounts(d.entries),
            "entry_type_counts_mismatch")

TraceHeadErrors(d) ==
  When(~ d.kind, "invalid_type")
  \cup IdErrors(d.id, "missing_trace_id", "invalid_trace_id_format")
  \cup IdErrors(d.session, "missing_session_ref", "invalid_session_ref_format")
  \cup When(d.plan = "malformed", "invalid_plan_ref_format")
  \cup When(d.entries = <<>>, "empty_trace_entries")

DecisionTraceErrors(d) ==
  TraceHeadErrors(d)
  \cup IF d.entries = <<>> THEN {}
       ELSE (UNION {EntryErrors(d.entries[i]) : i \in DOMAIN d.entries})
            \cup NumberingErrors(d.entries)
            \cup When(Backwards(d.entries), "non_monotonic_timestamps")
            \cup GovernanceErrors(d) \cup IntegrityErrors(d)
            \cup SummaryErrors(d)

-----------------------------------------------------------------------------
(* Execution profiles.  given: the fields there are; mistyped: those of    *)
(* them whose value is not of the type; says: of the safety flags, which   *)
(* are "yes".                                                              *)

RootFields == {"profile_schema", "profile_id", "profile_name", "description",
               "requirements", "safety", "expected_use", "notes"}

RequirementFields ==
  {"audit_level", "requires_batch_report", "requires_certified_evidence",
   "requires_deterministic_evaluation", "requires_explainability",
   "requires_replay_certification", "requires_structural_validation"}

SafetyFields == {"allows_runtime_mutation", "allows_tool_execution"}

FieldErrors(x, fields, missing, unknown, mistyped) ==
  When(~ fields \subseteq x.given, missing)
  \cup When(~ x.given \subseteq fields, unknown)
  \cup When(x.mistyped \cap fields # {}, mistyped)

\* An object that is missing or not an object is not looked into.
Object(d, field) == field \in d.root.given \ d.root.mistyped

ProfileErrors(d) ==
  FieldErrors(d.root, RootFields, "missing_required_field", "unknown_field",
              "invalid_field_type")
  \cup When(~ d.schema, "invalid_profile_schema")
  \cup When(d.id = "malformed", "invalid_profile_id_format")
  \cup When(d.id = "of another name", "profile_id_name_mismatch")
  \cup (IF Object(d, "requirements")
        THEN FieldErrors(d.requirements, RequirementFields,
                         "missing_requirement_field",
                         "unknown_requirement_field", "invalid_requirement_type")
        ELSE {})
  \cup (IF Object(d, "safety")
        THEN FieldErrors(d.safety, SafetyFields, "missing_safety_field",
                         "unknown_safety_field", "invalid_safety_type")
             \cup When("allows_tool_execution" \in d.says,
                       "unsafe_tool_execution_allowed")
             \cup When("allows_runtime_mutation" \in d.says,
                       "unsafe_runtime_mutation_allowed")
        ELSE {})
  \cup When("absolute path" \in d.content, "absolute_path_detected")
  \cup When("secret" \in d.content, "secret_like_content_detected")
  \cup When("claim" \in d.content, "unverified_claim_detected")
=============================================================================
