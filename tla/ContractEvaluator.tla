-------------------------- MODULE ContractEvaluator --------------------------
(***************************************************************************)
(* evaluate_contract_payload of core_runtime/core/contract_evaluator.py:   *)
(* the schema, the references, the fingerprint and then the semantic rules *)
(* of a document.  A document is an envelope of facts about its form and   *)
(* the body its rules read.  The registries and rules in force are a       *)
(* parameter, because the audit of ContractAudit looks for what is missing *)
(* from them.                                                              *)
(***************************************************************************)
EXTENDS CausalTrace, SafetyCase, ContractProgram

CONSTANTS
  Documents   \* the documents there are: [name, form, body]

VARIABLES
  document,   \* the document to be evaluated
  report      \* the error codes, Unjudged before the evaluation

documentVars == <<document, report, searchVars>>

Unjudged == {"unjudged"}

\* SEMANTIC_VALIDATORS: the name stands for core.<name>.v1.
\* cycle: what the search of a causal trace found.
RuleErrors(name, b, cycle) ==
  CASE name = "causal_trace" -> TraceErrors(b, cycle)
    [] name = "contract_program" -> ProgramErrors(b)
    [] name = "context_gate" -> GateErrors(b)
    [] name = "context_threshold" -> ThresholdErrors(b)
    [] name = "control_decision" -> DecisionErrors(b)
    [] name = "effect_result" -> EffectErrors(b)
    [] name = "entropy_signal" -> EntropyErrors(b)
    [] name = "execution_receipt" -> ReceiptErrors(b)
    [] name = "memory_artifact" -> MemoryErrors(b)
    [] name = "memory_generation_result" -> GenerationErrors(b)
    [] name = "operational_learning_event" -> LearningErrors(b)
    [] name = "pattern_candidate" -> PatternErrors(b)
    [] name = "physical_safety_assurance_case" -> SafetyErrors(b)
    [] name = "policy_lifecycle" -> LifecycleErrors(b)
    [] name = "retention_manifest" -> RetentionErrors(b)
    [] name = "reversibility_policy" -> ReversibilityErrors(b)
    [] name = "state_transition" -> TransitionErrors(b)
    [] name = "task_closeout" -> CloseoutErrors(b)
    [] name = "template_promotion_candidate" -> PromotionErrors(b)

\* An object of the right shape, strictly evaluated.
Form == [file |-> "readable", object |-> TRUE, schema |-> TRUE,
         declared |-> TRUE, strict |-> TRUE, refs |-> {},
         fingerprint |-> "bound"]

StructuralErrors(f) ==
  When(~ f.schema, "schema_validation_error")
  \cup When(f.strict /\ ~ f.declared, "undeclared_field")

\* f.refs: what is wrong with the references of the document.
ReferenceErrors(f) == f.refs \cap {"unsafe_reference", "duplicate_reference"}

FingerprintErrors(f) ==
  CASE f.fingerprint = "malformed" -> {"invalid_fingerprint"}
    [] f.fingerprint = "stale" -> {"fingerprint_mismatch"}
    [] OTHER -> {}

\* The semantic rules are applied to a document with a known schema and rules,
\* and the right structure.  w: the names with a schema, those with rules, and
\* the rules that are not enforced.
RulesApply(d, w) ==
  /\ d.form.object /\ d.name \in w.loaded /\ d.name \in w.evaluators
  /\ StructuralErrors(d.form) = {}

\* evaluate_contract_payload.
Evaluate(d, w, cycle) ==
  CASE ~ d.form.object -> {"invalid_artifact"}
    [] d.form.object /\ d.name \notin w.loaded -> {"unknown_schema_version"}
    [] OTHER ->
         StructuralErrors(d.form) \cup ReferenceErrors(d.form)
         \cup FingerprintErrors(d.form)
         \cup When(d.name \notin w.evaluators, "semantic_evaluator_missing")
         \cup (IF RulesApply(d, w)
               THEN RuleErrors(d.name, d.body, cycle) \ w.broken ELSE {})

EvaluateFile(d, w, cycle) ==
  CASE d.form.file = "missing" -> {"unknown_schema_version"}
    [] d.form.file = "invalid" -> {"invalid_json"}
    [] OTHER -> Evaluate(d, w, cycle)

\* What the schemas of a causal trace and of a safety case make sure of.
ASSUME DocumentAssumption ==
  \A d \in Documents : d.form.schema =>
     /\ d.name = "causal_trace" => IsSequence(d.body.nodes)
     /\ d.name = "physical_safety_assurance_case" =>
          /\ IsSequence(d.body.evidence)
          /\ \A e \in ToSet(d.body.evidence) : e.at \in Int
          /\ d.body.at \in Int
          /\ d.body.requested \in {"simulation_only", "evidence_ready",
                                   "independent_evidence_ready"}

\* executable_contract_versions, sorted.
Contracts ==
  <<"causal_trace", "context_gate", "context_threshold", "contract_program",
    "control_decision", "effect_result", "entropy_signal", "execution_receipt",
    "memory_artifact", "memory_generation_result",
    "operational_learning_event", "pattern_candidate",
    "physical_safety_assurance_case", "policy_lifecycle",
    "retention_manifest", "reversibility_policy", "state_transition",
    "task_closeout", "template_promotion_candidate">>
Names == ToSet(Contracts)

Published == [loaded |-> Names, evaluators |-> Names, broken |-> {}]

EvaluatorInit(documents) ==
  /\ document \in documents
  /\ report = Unjudged
  /\ SearchInit

\* A trace whose rules apply is searched before it is judged.
Searched(d) ==
  /\ d.name = "causal_trace" /\ d.form.file = "readable"
  /\ RulesApply(d, Published)

Search ==
  /\ report = Unjudged /\ Searched(document)
  /\ SearchNext(document.body)
  /\ UNCHANGED <<document, report>>

Judge ==
  /\ report = Unjudged
  /\ Searched(document) => SearchOver(document.body)
  /\ report' = EvaluateFile(document, Published, cyclic)
  /\ UNCHANGED <<document, searchVars>>

EvaluatorNext == Search \/ Judge

EvaluatorSpec == EvaluatorInit(Documents) /\ [][EvaluatorNext]_documentVars

Accepted(name) == document.name = name /\ report = {}

-----------------------------------------------------------------------------
\* Accepting a trace shows that its causes come before their effects: no node
\* causes itself through a chain of edges, every edge joins two nodes and the
\* root is one; and a trace is refused for a cycle only if it has one.  (Depth-
\* first search with the nodes done and the nodes on the path kept apart;
\* _validate_causal_trace.)
AcceptedTraceIsCausal ==
  report # Unjudged /\ Searched(document) =>
    LET d == document.body
    IN /\ "causal_cycle" \in report <=> CausesItself(d)
       /\ report = {} => /\ ~ CausesItself(d)
                         /\ d.root \in Refs(d)
                         /\ \A e \in ToSet(d.edges) :
                               {e.from, e.to} \subseteq Refs(d)

\* An accepted safety case has earned the level it asks for: each hazard was
\* met in each mandatory scenario by a test that named it, passed without
\* actuation and rests on evidence of the case captured before its evaluation;
\* by one that is no simulation from "evidence_ready" on, and by an assessment
\* with an independent assessor's evidence at the highest level.
AssuranceEarned ==
  Accepted("physical_safety_assurance_case") =>
    LET c == document.body
        seen(t) == \A r \in t.evidence :
                      \E e \in ToSet(c.evidence) : e.id = r /\ e.at \in 0..c.at
        assessed(t) == \E e \in ToSet(c.evidence) :
                          e.id \in t.evidence /\ e.source = "independent_assessor"
    IN \A h \in ToSet(c.hazards), s \in Scenarios :
         \E t \in ToSet(c.tests) :
            /\ h.id \in t.hazards /\ t.scenario = s
            /\ t.result = "passed" /\ ~ t.actuation /\ t.expected = t.observed
            /\ seen(t)
            /\ c.requested # "simulation_only" => t.method # "simulation"
            /\ c.requested = "independent_evidence_ready" =>
                  t.method = "independent_assessment" /\ assessed(t)

\* What is staged was earned: at the end of a replay either nothing is staged,
\* or the program ran to a passing end with every assertion held by the sealed
\* inputs, every transition staged in order and everything emitted.
StagedAllOrNothing ==
  phase = "done" /\ staged # <<>> =>
    LET code == program.instructions
        transitions == At(code, "transition")
    IN /\ status = "passed"
       /\ \A k \in At(code, "assert") :
             /\ code[k].key \in DOMAIN sealed
             /\ SameValue(sealed[code[k].key], code[k].equals)
       /\ Len(staged) = Cardinality(transitions)
       /\ \A k \in transitions :
             staged[Cardinality({j \in transitions : j <= k})] = Staged(code[k])
       /\ Len(emitted) = Cardinality(At(code, "emit"))

\* An output has one value for the whole replay: what an instruction read is
\* what a later one reads, and what was emitted is never taken back.
OutputsAreFinal ==
  [][/\ \A o \in DOMAIN values :
           o \in DOMAIN values' /\ values'[o] = values[o]
     /\ Len(emitted') >= Len(emitted)]_programVars
=============================================================================
