---------------------------- MODULE ContractRules ----------------------------
(***************************************************************************)
(* The semantic rules of the public contracts                              *)
(* (core_runtime/core/contract_evaluator.py), the causal trace and the     *)
(* safety case excepted: each operator is the set of error codes of one    *)
(* semantic validator.  A document keeps the fields a rule reads; a        *)
(* payload, a list of references or a text that is only tested for being   *)
(* empty is TRUE when it is not, and a timestamp is a number, Naive        *)
(* without a timezone.                                                     *)
(***************************************************************************)
EXTENDS Integers, Sequences, FiniteSets, SequencesExt

Naive == -1
Absent == -2

IsSequence(s) == s \in Seq(ToSet(s))

\* The code c if its rule is broken.
When(broken, c) == IF broken THEN {c} ELSE {}

Zoned(t) == t >= 0
TimestampErrors(t) == When(t # Absent /\ ~ Zoned(t), "invalid_timestamp")

Grave(reversibility) == reversibility \in {"irreversible", "unknown"}

EntropyErrors(d) ==
  When(~ d.measurement, "measurement_required")
  \cup When(d.severity = "critical"
              /\ d.response \in {"ignore", "allow", "continue"},
            "critical_signal_cannot_be_ignored")
  \cup TimestampErrors(d.at)

DecisionErrors(d) ==
  When(d.decision = "allow" /\ Grave(d.reversibility), "unsafe_allow_decision")
  \cup When(d.decision \in {"allow", "require_confirmation"} /\ ~ d.evidence,
            "required_evidence_missing")
  \cup TimestampErrors(d.at)

ReceiptErrors(d) ==
  When(d.status = "succeeded" /\ ~ d.transitions,
       "successful_receipt_requires_transition")
  \cup When(d.status \in {"skipped", "simulated"} /\ d.transitions,
            "simulated_transition_forbidden")
  \cup TimestampErrors(d.at)

MemoryErrors(d) ==
  When(d.retention = "forget"
         /\ (d.facts \/ d.decisions \/ d.invariants \/ d.risks),
       "unsafe_memory_forgetting")
  \cup TimestampErrors(d.at)

CloseoutErrors(d) ==
  When(d.status \notin {"passed", "failed", "blocked", "partial"},
       "invalid_closeout_status")
  \cup When(d.status = "passed"
              /\ ~ (d.report \/ d.events \/ d.effects \/ d.memory),
            "closeout_evidence_required")

EffectErrors(d) ==
  When((d.status = "dry_run") # d.dry_run, "effect_status_dry_run_mismatch")
  \cup When(d.status \in {"sent", "applied"} /\ d.dry_run,
            "applied_effect_cannot_be_dry_run")
  \cup When(d.status \in {"sent", "applied"} /\ ~ (d.provider /\ d.target),
            "effect_destination_required")
  \cup When(d.status = "failed" /\ ~ d.error, "failed_effect_requires_error")

GenerationErrors(d) ==
  LET referenced == d.memory_id /\ d.memory_ref
  IN When(d.status \notin {"passed", "failed", "skipped"},
          "invalid_memory_result_status")
     \cup When(d.status = "passed" /\ ~ referenced, "memory_reference_required")
     \cup When(d.reused /\ ~ referenced, "reused_memory_reference_required")
     \cup When(d.status = "failed" /\ d.reused, "failed_memory_cannot_be_reused")

\* d.grants: the authority some nested field of the payload asks for.
LearningErrors(d) ==
  When(d.status \notin {"recorded", "candidate", "accepted", "rejected",
                        "quarantined"}, "invalid_learning_status")
  \cup When(~ d.payload, "learning_payload_required")
  \cup When(d.grants \in {"auto_execute", "self_modify", "binding",
                          "execution_authority", "enabled", "automatic"},
            "learning_event_authority_escalation")
  \cup TimestampErrors(d.at)

LifecycleErrors(d) ==
  When(~ Zoned(d.from), "invalid_effective_from")
  \cup When(d.to = Naive, "invalid_effective_to")
  \cup When(Zoned(d.from) /\ Zoned(d.to) /\ d.to <= d.from,
            "invalid_effective_interval")
  \cup When(d.status \in {"superseded", "retired"} /\ ~ Zoned(d.to),
            "closed_policy_requires_end")
  \cup When(d.supersedes = d.policy, "policy_cannot_supersede_itself")

ThresholdErrors(d) ==
  When(\E p \in {d.current, d.previous, d.ema, d.threshold} :
          p # Absent /\ p \notin 0..100, "invalid_percentage")
  \cup When(d.current # Absent /\ d.threshold # Absent
              /\ d.compress # (d.current >= d.threshold),
            "threshold_decision_mismatch")
  \cup When(d.status \notin {"passed", "failed", "skipped"},
            "invalid_threshold_status")

GateErrors(d) ==
  When(d.status \notin {"passed", "applied", "skipped", "blocked", "failed"},
       "invalid_context_gate_status")
  \cup When(d.mode = "dry-run" /\ d.status = "applied", "dry_run_cannot_apply")
  \cup When(d.mode = "apply" /\ d.status = "applied" /\ ~ d.result,
            "apply_result_required")

RetentionErrors(d) ==
  LET bad(classes, field) ==
        \E i \in DOMAIN d.entries :
           d.entries[i].class \in classes /\ field \notin d.entries[i].has
  IN When(d.entries = <<>>, "retention_entries_required")
     \cup When(\E i, j \in DOMAIN d.entries :
                  i # j /\ d.entries[i].artifact = d.entries[j].artifact,
               "duplicate_artifact_ref")
     \cup When(bad({"compress", "forget", "quarantine"}, "checksum"),
               "retention_checksum_required")
     \cup When(bad({"forget", "quarantine"}, "restore_ref"),
               "retention_restore_required")

ReversibilityErrors(d) ==
  When(Grave(d.reversibility) /\ ~ d.approval, "responsible_approval_required")
  \cup When(d.reversibility = "compensable" /\ ~ d.compensation,
            "compensation_plan_required")
  \cup TimestampErrors(d.at)

ResponsibleActors == {"human", "human_operator", "responsible_operator",
                      "authorized_signer", "human_directed_software"}

TransitionErrors(d) ==
  When(d.before = d.after, "state_transition_noop")
  \cup When(Grave(d.reversibility) /\ d.actor \notin ResponsibleActors,
            "irreversible_actor_not_responsible")
  \cup TimestampErrors(d.at)

PromotionErrors(d) ==
  When(~ (d.inputs /\ d.evidence /\ d.stops), "promotion_contract_incomplete")
  \cup When(d.risk \in {"medium", "high"} /\ ~ d.approval,
            "promotion_approval_required")
  \cup When(d.risk = "high" /\ ~ d.sources,
            "promotion_source_evidence_required")

\* d.confidence in hundredths; d.action: what the suggested action mentions.
PatternErrors(d) ==
  When(~ d.signature, "normalized_signature_required")
  \cup When(d.class = "candidate_for_template"
              /\ (d.occurrences < 2 \/ d.confidence < 80),
            "insufficient_pattern_support")
  \cup When(d.class = "candidate_for_template" /\ ~ (d.evidence /\ d.examples),
            "pattern_evidence_required")
  \cup When(d.class = "too_ambiguous"
              /\ d.action \in {"promote", "activate", "auto", "template"},
            "ambiguous_pattern_cannot_promote")
  \cup TimestampErrors(d.at)
=============================================================================
