---------------------------- MODULE MCEvaluation -----------------------------
(***************************************************************************)
(* A small instance of everything that judges a document: the documents of *)
(* ContractEvaluator, the programs it lets be replayed, the audit of the   *)
(* evaluator itself, and the Merkle batches of rule sets.  They share no   *)
(* state, so a behaviour moves one of them and the others are idle.        *)
(***************************************************************************)
EXTENDS ContractAudit, MerkleBatch, Explanation, MCAgents,
        AnchorPreparation

CONSTANTS original, amended, MaxRule

evaluationVars == <<documentVars, programVars, auditVars, merkleVars, trailVars,
                    explanationVars, gateVars, preparationVars>>

-----------------------------------------------------------------------------
(* Causal traces: four nodes and up to five edges between two of them, of  *)
(* one with itself or leading nowhere; and a few with nodes that clash or  *)
(* without the root.                                                       *)

MCEdges ==
  {e \in [from : 1..4, to : 1..4] : e.from = e.to => e.from = 3}
  \cup {[from |-> 1, to |-> 9], [from |-> 9, to |-> 2]}

MCNodes == [i \in 1..4 |-> [id |-> i, ref |-> i]]

MCTraces ==
  {[nodes |-> MCNodes, edges |-> SetToSeq(E), root |-> 1, at |-> 0] :
     E \in {E \in SUBSET MCEdges : Cardinality(E) <= 5}}
  \cup {[nodes |-> n, edges |-> <<[from |-> 1, to |-> 2]>>, root |-> r,
         at |-> t] :
          n \in {MCNodes, [MCNodes EXCEPT ![2].id = 1],
                 [MCNodes EXCEPT ![3].ref = 2]},
          r \in {1, 9}, t \in {0, Naive}}

-----------------------------------------------------------------------------
(* Safety cases: two hazards, each tested in some of two scenarios by some *)
(* methods; "claimed" is an independent assessment without the assessor's  *)
(* evidence.  And single defects of a case that is otherwise accepted.     *)

MCScenarios == {"startup", "power_loss"}
MCLedgerEvents == {"safety_test", "decision"}

MCMethods == {"simulation", "bench", "independent_assessment", "claimed"}

MCTest(s, m, h) ==
  [TestOf(s, IF m = "claimed" THEN "independent_assessment" ELSE m) EXCEPT
     !.id = <<s, m, h>>, !.hazards = {h},
     !.evidence = {IF m = "independent_assessment" THEN "assessor"
                                                   ELSE "suite"}]

MCCase(tests, requested) ==
  [SafetyCaseOf("simulation") EXCEPT
     !.evidence = Append(@, [EvidenceOf("independent_assessment") EXCEPT
                               !.id = "assessor", !.fingerprint = "assessor"]),
     !.tests = SetToSeq(tests),
     !.hazards = [i \in 1..2 |-> [@[1] EXCEPT
        !.id = <<"motion", "heat">>[i],
        !.severity = <<"catastrophic", "serious">>[i],
        !.tests = {t.id : t \in {t \in tests :
                                   <<"motion", "heat">>[i] \in t.hazards}}]],
     !.requested = requested]

MCLevels == {"simulation_only", "evidence_ready", "independent_evidence_ready"}

MCTests == {MCTest(s, m, h) : s \in MCScenarios, m \in MCMethods,
                              h \in {"motion", "heat"}}

MCDefects(c) ==
  {[c EXCEPT !.claim.absolute = TRUE],
   [c EXCEPT !.claim.status = "demonstrated_within_model"],
   [c EXCEPT !.samples = 1],
   [c EXCEPT !.extremes[2].direction = "lower"],
   [c EXCEPT !.extremes[1].at = Naive],
   [c EXCEPT !.at = Naive],
   [c EXCEPT !.at = 9],
   [c EXCEPT !.evidence[1].fingerprint = "zero"],
   [c EXCEPT !.evidence[1].fingerprint = "high"],
   [c EXCEPT !.evidence[6].at = Naive],
   [c EXCEPT !.evidence = SubSeq(@, 1, 5)],
   [c EXCEPT !.evidence = Append(@, @[1])],
   [c EXCEPT !.recorded = {}],
   [c EXCEPT !.refs = {"elsewhere"}],
   [c EXCEPT !.barriers[1].independent = {"controller"}],
   [c EXCEPT !.barriers[1].independent = {}],
   [c EXCEPT !.barriers[1].bypassable = TRUE],
   [c EXCEPT !.barriers[1].domain = "electrical_hardware"],
   [c EXCEPT !.barriers[1].kind = "mechanical_limit"],
   [c EXCEPT !.barriers[2].kind = "software_limit"],
   [c EXCEPT !.barriers = SubSeq(@, 1, 1)],
   [c EXCEPT !.tests[1].result = "failed"],
   [c EXCEPT !.tests[1].actuation = TRUE],
   [c EXCEPT !.tests[1].observed = "moving"],
   [c EXCEPT !.tests[1].hazards = {"noise"}],
   [c EXCEPT !.hazards[1].tests = {"shutdown"}]}

MCCases ==
  {MCCase(T, r) : T \in {T \in SUBSET MCTests : Cardinality(T) \in 2..4},
                  r \in MCLevels}
  \cup UNION {MCDefects(SafetyCaseOf(m)) : m \in {"simulation", "bench"}}

-----------------------------------------------------------------------------
(* The form of a document: one thing wrong at a time.                      *)

MCForms ==
  {[Form EXCEPT !.file = "missing"], [Form EXCEPT !.file = "invalid"],
   [Form EXCEPT !.object = FALSE], [Form EXCEPT !.schema = FALSE],
   [Form EXCEPT !.declared = FALSE],
   [Form EXCEPT !.declared = FALSE, !.strict = FALSE],
   [Form EXCEPT !.refs = {"unsafe_reference"}],
   [Form EXCEPT !.refs = {"duplicate_reference"}],
   [Form EXCEPT !.fingerprint = "stale"],
   [Form EXCEPT !.fingerprint = "malformed"]}

MCDocuments ==
  {Doc("causal_trace", t) : t \in MCTraces}
  \cup {Doc("physical_safety_assurance_case", c) : c \in MCCases}
  \cup {[Doc(n, b) EXCEPT !.form = f] :
          f \in MCForms, n \in {"unknown"}, b \in {0}}
  \cup UNION {{[Doc(n, b) EXCEPT !.form = f] : f \in MCForms \cup {Form},
                 b \in {AcceptedBody(n), Mutated(n)}} : n \in Names}

-----------------------------------------------------------------------------
(* Programs of up to three instructions and an end.                        *)

MCInstructions ==
  {[opcode |-> "load", key |-> "k", output |-> "v"],
   [opcode |-> "load", key |-> "l", output |-> "w"],
   [opcode |-> "assert", key |-> "k", equals |-> Bool(TRUE)],
   [opcode |-> "derive", operation |-> "copy", inputs |-> <<"v">>,
    output |-> "w"],
   [opcode |-> "derive", operation |-> "count", inputs |-> <<"w">>,
    output |-> "w"],
   [opcode |-> "derive", operation |-> "registry",
    registry |-> "rank.quantity.v1", inputs |-> <<"v">>, output |-> "r"],
   [opcode |-> "derive", operation |-> "registry",
    registry |-> "member.scale_adapter.v1",
    inputs |-> <<"v", "v", "w", "w">>, output |-> "r"],
   [opcode |-> "derive", operation |-> "registry",
    registry |-> "regex.grammar_context.v1", inputs |-> <<"v", "w">>,
    output |-> "r"],
   [opcode |-> "derive", operation |-> "registry", registry |-> "exec.v1",
    inputs |-> <<"v">>, output |-> "r"],
   [opcode |-> "transition", before |-> "pending", after |-> "reviewed"],
   [opcode |-> "transition", before |-> "reviewed", after |-> "closed"],
   [opcode |-> "emit", value |-> "v"],
   [opcode |-> "emit", value |-> "r"]}

MCEndings ==
  {[opcode |-> "halt", status |-> s] : s \in {"passed", "blocked"}}
  \cup {[opcode |-> "emit", value |-> "v"]}

MCLimits == {[steps |-> 4, items |-> 2, emits |-> 1],
             [steps |-> 3, items |-> 1, emits |-> 2]}

MCCapabilities == {ProgramProbe.capabilities, {"read_input", "assert"},
                   {"read_input", "network_access"}}

Number(n) == [kind |-> "int", n |-> n]
Texts(n) == [kind |-> "text", n |-> n]

MCSealedInputs ==
  {("k" :> Number(1)) @@ ("l" :> [kind |-> "list", n |-> 2]),
   ("k" :> Texts(7)) @@ ("l" :> Texts(8)),
   ("k" :> Bool(TRUE))}

-----------------------------------------------------------------------------
(* What may be wrong where the audit runs.                                 *)

MCStandalone == {"tool_invocation", "agent_session"}

Fault(kind, name, code) == [kind |-> kind, name |-> name, code |-> code]

\* The codes of every rule: those the documents above bring out, and the rest.
MCRuleCodes ==
  {Expected(n) : n \in Names}
  \cup {"causal_cycle", "missing_root_node", "program_output_redefined",
        "effect_destination_required", "invalid_timestamp",
        "applied_effect_cannot_be_dry_run", "requested_assurance_level_not_met"}

MCFaults ==
  {Fault("none", "", ""), Fault("schema unclassified", "stray", ""),
   Fault("schema unreadable", "", ""), Fault("validator not importable", "", ""),
   Fault("validator not callable", "", "")}
  \cup {Fault("rule dropped", "", c) : c \in MCRuleCodes}
  \cup {Fault(k, n, "") :
          k \in {"evaluator unregistered", "schema unlisted", "probe missing",
                 "unstable", "negative breaks the schema", "rules unlisted",
                 "execution authorized", "deployment authorized"}, n \in Names}

-----------------------------------------------------------------------------
(* Batches of one to six rule sets, one of which comes in two versions: a  *)
(* level of odd size appears at the bottom (5), above it (6), and at both  *)
(* (5: 5, 3, 2, 1).                                                        *)

MCEntry ==
  [rule : 1..MaxRule, content : {original}] \cup [rule : {1}, content : {amended}]

-----------------------------------------------------------------------------
(* Reports to make an audit trail of, and what an execution leaves behind. *)

Item(id, sub, s) == [id |-> id, sub |-> sub, status |-> s, certified |-> sub = 21]

Side(experts, proposal) == {[expert |-> x, proposal |-> proposal] : x \in experts}

MCEvaluationOf(fp, routing, selected, rejected) ==
  [type |-> "expert_router_evaluation", fp |-> fp, routing |-> routing,
   selected |-> selected, rejected |-> rejected]

MCReports ==
  {[type |-> "compatibility_matrix", fp |-> 50,
    items |-> <<Item(12, 21, "compatible"), Item(11, 22, "compatible"),
                Item(11, 21, "incompatible")>>],
   [type |-> "compatibility_matrix", fp |-> 51,
    items |-> <<Item(12, 22, "incompatible"), Item(0, 21, "compatible")>>],
   [type |-> "expert_report", fp |-> 52,
    items |-> <<Item(14, 21, "certified"), Item(13, 21, "accepted"),
                Item(15, 21, "unsafe"), Item(16, 21, "unsupported"),
                Item(17, 21, "missing_evidence"), Item(18, 21, "?")>>],
   [type |-> "expert_router_validation", fp |-> 60, routing |-> 1],
   MCEvaluationOf(61, 1, Side({7}, 13), Side({8}, 14)),
   MCEvaluationOf(62, 1, Side({7}, 13), Side({8}, 0) \cup Side({0}, 14)),
   MCEvaluationOf(63, 2, Side({8}, 13), {}),
   MCEvaluationOf(64, 0, Side({7}, 0), Side({7}, 14)),
   [type |-> "expert_router_replay_certification", fp |-> 65, routing |-> 1,
    status |-> "diverged"],
   [type |-> "expert_router_replay_certification", fp |-> 66, routing |-> 1,
    status |-> "certified"],
   [type |-> "expert_router_report", fp |-> 67, files |-> {1}],
   [type |-> "expert_router_report", fp |-> 68, files |-> {2, 3}],
   [type |-> "gaia_surrogate", fp |-> 70, routing |-> 4,
    mismatches |-> <<9, NoRow, 7>>]}

Node(k, type, seq, order, refs) ==
  [id |-> <<"node", k>>, type |-> <<"type", type>>, seq |-> <<"number", seq>>,
   order |-> <<"number", order>>, events |-> {<<"event", k>>} \cap refs,
   facts |-> {<<"fact", k>>} \cap refs, others |-> {},
   payload |-> {<<"projection", k>>} \cap refs]

MCGraph(refs) ==
  {Node(1, "ProjectionCommitted", 1, 2, refs), Node(2, "FactStored", 2, 1, refs),
   Node(3, "ConstraintVerified", 5, 3, {})}

LogEvent(id, seq, type, projections, mentions) ==
  [id |-> id, seq |-> <<"number", seq>>, type |-> <<"type", type>>,
   task |-> <<"task", 1>>, projections |-> projections, mentions |-> mentions]

MCLog(mentions) ==
  <<LogEvent(<<"event", 1>>, 1, "TaskStarted", {}, mentions),
    LogEvent(NoId, 2, "ProjectionCommitted", {<<"projection", 1>>}, {}),
    LogEvent(<<"event", 3>>, 3, "ProjectionCommitted", {}, mentions)>>

Fact(k, projections, parents, ofEvents) ==
  [id |-> <<"fact", k>>, hash |-> <<"hash", k>>, transaction |-> <<"task", 1>>,
   projections |-> projections, parents |-> parents, events |-> ofEvents,
   others |-> {}]

MCFacts(parents) ==
  {Fact(1, {<<"projection", 1>>}, {}, {<<"number", 2>>}),
   Fact(2, {}, parents, {<<"event", 3>>})}

MCEdge(k, l) == [source |-> <<"node", k>>, target |-> <<"node", l>>]

MCArtifacts ==
  {[present |-> TRUE, nodes |-> MCGraph(r), edges |-> E, log |-> MCLog(m),
    facts |-> MCFacts(p)] :
     E \in SUBSET {MCEdge(1, 2), MCEdge(2, 3), MCEdge(3, 1), MCEdge(3, 9),
                   MCEdge(9, 2), MCEdge(1, 3)},
     r \in {{}, {<<"event", 1>>, <<"fact", 2>>, <<"projection", 1>>}},
     m \in {{}, {<<"fact", 1>>}}, p \in {{}, {<<"fact", 1>>, <<"fact", 7>>}}}

MCTargets ==
  {<<"node", k>> : k \in {1, 2, 9}} \cup {<<"event", 1>>, <<"event", 3>>}
  \cup {<<"seq:", 2>>, <<"number", 2>>, <<"projection", 1>>, <<"fact", 1>>,
        <<"fact", 2>>, <<"task", 1>>, <<"name", 99>>}

MCQueries == {"cause_of_projection", "origin_projection", "lineage_of_fact",
              "trace_of_event", "cause_of_event"}

MCRouterQueries ==
  {"trace_of_router_decision", "evidence_for_router_decision"}

MCQuestionsOnArtifacts == [query : MCQueries, target : MCTargets]

MCQuestionsOnTrails ==
  [query : {"trace_of_event", "cause_of_event"},
        target : {<<"name", 7>>, <<"router::", 1>>,
                  <<"audit", "RouterReplayDiverged", 0, <<"router::", 1>>, 65>>}]
  \cup [query : {"trace_of_report", "trace_of_router_report"},
        target : {<<"name", 50>>, <<"name", 67>>, <<"name", 99>>}]
  \cup [query : MCRouterQueries, target : {<<"name", 1>>, <<"name", 99>>}]
  \cup [query : {"cause_of_router_selection", "cause_of_router_rejection"},
        target : {<<"name", 1>>, <<"name", 2>>, <<"name", 64>>, <<"name", 99>>},
        expert : {7, 8, 9}]

-----------------------------------------------------------------------------
(* Requests to anchor and to deploy: what may be asked for on the command  *)
(* line, one wrong thing at a time beside a node's prices, and edits.      *)

MCOption(kind) ==
  [kind |-> kind, rpc |-> TRUE, gas |-> Unset, max |-> Unset,
   priority |-> Unset, price |-> Unset, reserve |-> 2, multiplier |-> 12500,
   count |-> 3, batch |-> TRUE, address |-> TRUE, taken |-> FALSE]

MCOptions ==
  UNION {
    LET o == MCOption(kind)
    IN  {[o EXCEPT !.reserve = r] : r \in {0, 1, 3}}
        \cup {[o EXCEPT !.multiplier = m] : m \in {9999, 10000}}
        \cup {[o EXCEPT !.batch = FALSE], [o EXCEPT !.address = FALSE],
              [o EXCEPT !.taken = TRUE], [o EXCEPT !.gas = 3]}
        \cup {[o EXCEPT !.rpc = FALSE, !.gas = g, !.max = m, !.priority = p,
                        !.price = q] :
                g \in {Unset, 0, 3}, m \in {Unset, -1, 2},
                p \in {Unset, -1, 1, 3}, q \in {Unset, 2}}
    : kind \in {"anchor", "deployment"}}

MCBaseFees == {Unset, 2}

\* Single edits, and edits that agree with each other: what the document would
\* say with another balance, or with every price rounded down.
MCEdits(r) ==
  {[r EXCEPT !.gas = 5], [r EXCEPT !.gas = Unset], [r EXCEPT !.max = 1],
   [r EXCEPT !.price = 1], [r EXCEPT !.priority = 9], [r EXCEPT !.nonce = 0],
   [r EXCEPT !.reserve = 1], [r EXCEPT !.multiplier = 9999],
   [r EXCEPT !.count = 1], [r EXCEPT !.observed = 90], [r EXCEPT !.code = TRUE],
   [r EXCEPT !.code = FALSE], [r EXCEPT !.readiness = "ready"],
   [r EXCEPT !.readiness = "contract_unverified"], [r EXCEPT !.secrets = TRUE],
   [r EXCEPT !.lower = FALSE], [r EXCEPT !.warned = FALSE],
   [r EXCEPT !.manifest = "other"], [r EXCEPT !.runtime = "other"],
   [r EXCEPT !.data.selector = "other"], [r EXCEPT !.data.count = 9],
   [r EXCEPT !.data.manifest = "other"], [r EXCEPT !.data.root = "other"],
   [r EXCEPT !.to = "elsewhere"], [r EXCEPT !.sealed = FALSE],
   [r EXCEPT !.reserved.balance.sufficient = TRUE],
   [r EXCEPT !.reserved.balance.sufficient = TRUE, !.readiness = "ready",
             !.reserved.balance.shortfall = 0]}
  \cup {Filled([r EXCEPT !.observed = n]) : n \in {0, 90}}
  \cup IF Priced(r)
       THEN LET cost == (r.gas * FeePerGas(r) * r.multiplier) \div FullRate
                balance == Compared(cost * r.reserve, r.observed)
            IN  {[r EXCEPT !.reserved.perRule = r.reserved.cost \div r.count],
                 [r EXCEPT !.reserved.cost = cost,
                           !.reserved.perRule = cost \div r.count,
                           !.reserved.balance = balance,
                           !.readiness = Readiness(r, balance.sufficient)]}
       ELSE {}

-----------------------------------------------------------------------------
NoDocument == Doc("none", 0)
NoDesk == Desk("nobody", "nothing", <<>>)
NoOptions == [kind |-> "none"]

Idle(parts) ==
  /\ IF "document" \in parts THEN EvaluatorInit({NoDocument}) ELSE TRUE
  /\ IF "program" \in parts THEN ProgramInit("idle") ELSE TRUE
  /\ IF "audit" \in parts THEN AuditInit(Fault("idle", "", ""), <<>>) ELSE TRUE
  /\ IF "merkle" \in parts THEN MerkleInit(TRUE) ELSE TRUE
  /\ IF "trail" \in parts
     THEN TrailInit("none") /\ ExplanationInit({NothingLeft}) ELSE TRUE
  /\ IF "gate" \in parts THEN GateInit({NoDesk}) ELSE TRUE
  /\ IF "request" \in parts THEN PreparationInit({NoOptions}, {0}) ELSE TRUE

Parts ==
  {"document", "program", "audit", "merkle", "trail", "gate", "request"}

\* Questions are asked of a trail once it is built, and of what else is left.
AskNow ==
  \/ artifacts.present /\ ExplanationNext(MCQuestionsOnArtifacts)
  \/ trail.state = "built" /\ ExplanationNext(MCQuestionsOnTrails)

Init ==
  \/ EvaluatorInit(Documents) /\ Idle(Parts \ {"document"})
  \/ ProgramInit("writing") /\ Idle(Parts \ {"program"})
  \/ /\ \E f \in MCFaults : AuditInit(f, AuditParts)
     /\ Idle(Parts \ {"audit"})
  \/ MerkleInit(FALSE) /\ Idle(Parts \ {"merkle"})
  \/ /\ TrailInit("collecting") /\ ExplanationInit({NothingLeft})
     /\ Idle(Parts \ {"trail"})
  \/ /\ TrailInit("none") /\ ExplanationInit(Artifacts)
     /\ Idle(Parts \ {"trail"})
  \/ GateInit(Desks) /\ Idle(Parts \ {"gate"})
  \/ PreparationInit(Options, Balances) /\ Idle(Parts \ {"request"})

Next ==
  \/ /\ document # NoDocument /\ EvaluatorNext
     /\ UNCHANGED <<programVars, auditVars, merkleVars, trailVars,
                    explanationVars, gateVars, preparationVars>>
  \/ ProgramNext /\ UNCHANGED <<documentVars, auditVars, merkleVars, trailVars,
                                explanationVars, gateVars, preparationVars>>
  \/ AuditNext /\ UNCHANGED <<documentVars, programVars, merkleVars, trailVars,
                              explanationVars, gateVars, preparationVars>>
  \/ MerkleNext /\ UNCHANGED <<documentVars, programVars, auditVars, trailVars,
                               explanationVars, gateVars, preparationVars>>
  \/ TrailNext /\ UNCHANGED <<documentVars, programVars, auditVars, merkleVars,
                              explanationVars, gateVars, preparationVars>>
  \/ AskNow /\ UNCHANGED <<documentVars, programVars, auditVars, merkleVars,
                           trailVars, gateVars, preparationVars>>
  \/ GateNext /\ UNCHANGED <<documentVars, programVars, auditVars, merkleVars,
                             trailVars, explanationVars, preparationVars>>
  \/ /\ job.options.kind # "none"
     /\ PreparationNext
     /\ UNCHANGED <<documentVars, programVars, auditVars, merkleVars, trailVars,
                    explanationVars, gateVars>>

Spec == Init /\ [][Next]_evaluationVars
=============================================================================
