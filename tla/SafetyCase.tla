----------------------------- MODULE SafetyCase ------------------------------
(***************************************************************************)
(* _validate_physical_safety_case of contract_evaluator.py: hazards, the   *)
(* barriers against them, the tests of them and the evidence below it all, *)
(* tied together by references, and the assurance level they reach.  The   *)
(* lists are sequences of records; a list of references is a set, which    *)
(* the schema makes it.                                                    *)
(***************************************************************************)
EXTENDS ContractRules

CONSTANTS
  Scenarios,      \* SAFETY_REQUIRED_SCENARIOS
  LedgerEvents    \* SAFETY_REQUIRED_LEDGER_EVENTS

\* There are scenarios to test, and finitely many.
ASSUME ScenarioAssumption == IsFiniteSet(Scenarios) /\ Scenarios # {}

Rank(level) == CASE level = "rejected" -> 0
                 [] level = "simulation_only" -> 1
                 [] level = "evidence_ready" -> 2
                 [] level = "independent_evidence_ready" -> 3

Ids(items) == {items[i].id : i \in DOMAIN items}
Repeated(items) == Cardinality(Ids(items)) # Len(items)

\* barrier_by_id and the like: the last item with the identifier.
ById(items, id) ==
  items[CHOOSE k \in DOMAIN items :
          /\ items[k].id = id
          /\ \A j \in DOMAIN items : items[j].id = id => j <= k]

DuplicateErrors(c) ==
  When(\E items \in {c.evidence, c.barriers, c.hazards, c.tests, c.extremes} :
          Repeated(items), "duplicate_identifier")

ClaimErrors(c) ==
  When(c.claim.absolute, "absolute_safety_claim_forbidden")
  \cup When(c.claim.status = "demonstrated_within_model"
              /\ (c.claim.proofs = {} \/ ~ c.claim.formal),
            "formal_demonstration_evidence_required")

EnvelopeErrors(c) ==
  When(Cardinality({x.direction : x \in ToSet(c.extremes)}) < 2,
       "extreme_diversity_required")
  \cup When(c.samples < Cardinality(Ids(c.extremes)),
            "sample_count_below_extremes")
  \cup When(\E x \in ToSet(c.extremes) : ~ Zoned(x.at),
            "invalid_extreme_timestamp")

EvidenceErrors(c) ==
  When(~ Zoned(c.at), "invalid_evaluated_at")
  \cup When(\E e \in ToSet(c.evidence) : e.fingerprint = "zero",
            "zero_evidence_fingerprint")
  \cup When(\E e \in ToSet(c.evidence) : ~ Zoned(e.at),
            "invalid_evidence_timestamp")
  \cup When(Zoned(c.at) /\ \E e \in ToSet(c.evidence) : e.at > c.at,
            "future_evidence_forbidden")
  \cup When(\E i, j \in DOMAIN c.evidence :
               i # j /\ c.evidence[i].fingerprint = c.evidence[j].fingerprint,
            "duplicate_evidence_fingerprint")

\* Whatever points to evidence; c.refs: the references of epistemic_dignity,
\* lifecycle and traceability.
EvidenceRefs(c) ==
  {x.evidence : x \in ToSet(c.extremes)} \cup c.claim.proofs \cup c.refs
  \cup UNION {x.evidence : x \in ToSet(c.barriers) \cup ToSet(c.tests)}

UnresolvedErrors(c) ==
  When(EvidenceRefs(c) \ Ids(c.evidence) # {}, "unresolved_evidence_ref")
  \cup When(LedgerEvents \ c.recorded # {}, "critical_ledger_event_missing")

IndependenceErrors(c) ==
  LET pairs == {p \in ToSet(c.barriers) \X (UNION {b.independent :
                                             b \in ToSet(c.barriers)}) :
                  p[2] \in p[1].independent}
  IN When(\E p \in pairs : p[2] = p[1].id, "barrier_self_independence")
     \cup When(\E p \in pairs : p[2] \notin Ids(c.barriers),
               "unresolved_barrier_ref")
     \cup When(\E p \in pairs :
                  /\ p[2] # p[1].id
                  /\ p[2] \in Ids(c.barriers)
                  /\ p[1].id \notin ById(c.barriers, p[2]).independent,
               "asymmetric_barrier_independence")

TestErrors(c) ==
  LET tests == ToSet(c.tests)
  IN When(\E t \in tests : t.result # "passed", "safety_test_not_passed")
     \cup When(\E t \in tests : t.actuation, "hazardous_actuation_observed")
     \cup When(\E t \in tests : t.expected # t.observed, "safe_state_mismatch")
     \cup When(\E t \in tests : t.hazards \ Ids(c.hazards) # {},
               "unresolved_hazard_ref")

\* Mutant of Methods: the scenarios are looked up for the case, not for each hazard.
MethodsOfAnyHazard(c, h, s) ==
  {t.method : t \in {t \in ToSet(c.tests) : t.scenario = s}}

\* methods_by_hazard_scenario[h][s]: a test counts for the hazards it names,
\* whether or not the hazard names the test.
Methods(c, h, s) ==
  {t.method : t \in {t \in ToSet(c.tests) : h \in t.hazards /\ t.scenario = s}}

Independent(c, t) ==
  \E r \in t.evidence \cap Ids(c.evidence) :
     /\ ById(c.evidence, r).source = "independent_assessor"
     /\ ById(c.evidence, r).class = "independent_assessment"

CatastropheErrors(c, h) ==
  LET firm == {b \in ToSet(c.barriers) : b.id \in h.barriers /\ ~ b.bypassable}
      kinds == {b.kind : b \in firm}
  IN When(Cardinality(firm) < 2 \/ Cardinality({b.domain : b \in firm}) < 2,
          "catastrophic_hazard_needs_independent_barriers")
     \cup When("isolated_safety_controller" \notin kinds,
               "isolated_safety_controller_required")
     \cup When(kinds \cap {"physical_energy_isolation", "mechanical_limit"} = {},
               "physical_isolation_required")

HazardErrors(c, h) ==
  When(h.barriers \ Ids(c.barriers) # {}, "unresolved_barrier_ref")
  \cup When(h.tests \ Ids(c.tests) # {}, "unresolved_test_ref")
  \cup When(\E t \in h.tests \cap Ids(c.tests) :
               h.id \notin ById(c.tests, t).hazards,
            "test_hazard_link_mismatch")
  \cup (IF h.severity = "catastrophic" THEN CatastropheErrors(c, h) ELSE {})
  \cup When(\E s \in Scenarios : Methods(c, h.id, s) = {},
            "required_scenario_missing")

Achieved(c) ==
  LET assessed == {t \in ToSet(c.tests) : t.method = "independent_assessment"}
  IN IF /\ c.hazards # <<>>
        /\ \A h \in Ids(c.hazards), s \in Scenarios :
              "independent_assessment" \in Methods(c, h, s)
        /\ assessed # {} /\ \A t \in assessed : Independent(c, t)
     THEN "independent_evidence_ready"
     ELSE IF /\ c.hazards # <<>>
             /\ \A h \in Ids(c.hazards), s \in Scenarios :
                   Methods(c, h, s) \ {"simulation"} # {}
          THEN "evidence_ready" ELSE "simulation_only"

SafetyErrors(c) ==
  DuplicateErrors(c) \cup ClaimErrors(c) \cup EnvelopeErrors(c)
  \cup EvidenceErrors(c) \cup UnresolvedErrors(c) \cup IndependenceErrors(c)
  \cup TestErrors(c) \cup (UNION {HazardErrors(c, h) : h \in ToSet(c.hazards)})
  \cup When(Rank(Achieved(c)) < Rank(c.requested),
            "requested_assurance_level_not_met")
=============================================================================
