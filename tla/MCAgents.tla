------------------------------ MODULE MCAgents -------------------------------
(***************************************************************************)
(* The files of the small instance of AgentGate: one that each script      *)
(* accepts, of each kind, and what can be wrong with it, one thing at a    *)
(* time; and many plans and traces.                                        *)
(***************************************************************************)
EXTENDS AgentGate

File(schema, body) ==
  [state |-> "artifact", schema |-> schema, type |-> schema, body |-> body]

Unread(state) ==
  [state |-> state, schema |-> "", type |-> "", body |-> [kind |-> FALSE]]

-----------------------------------------------------------------------------
PlanStep(at, after) ==
  [at |-> at, after |-> after, intent |-> TRUE, tool |-> TRUE, approval |-> TRUE,
   supervised |-> TRUE, risk |-> "low", result |-> "ok"]

PlanOf(steps) ==
  [kind |-> TRUE, id |-> "ok", session |-> TRUE, steps |-> steps, max |-> 4,
   approval |-> TRUE, sequential |-> TRUE, private |-> FALSE]

TwoSteps == PlanOf(<<PlanStep(0, {}), PlanStep(1, {0})>>)

PlanDefects ==
  {[TwoSteps EXCEPT !.id = "missing"], [TwoSteps EXCEPT !.id = "malformed"],
   [TwoSteps EXCEPT !.session = FALSE], [TwoSteps EXCEPT !.steps = <<>>],
   [TwoSteps EXCEPT !.max = 1], [TwoSteps EXCEPT !.approval = FALSE],
   [TwoSteps EXCEPT !.sequential = FALSE], [TwoSteps EXCEPT !.private = TRUE]}
  \cup {[TwoSteps EXCEPT !.steps[2] = s] :
          s \in {PlanStep(0, {}), PlanStep(Absent, {}), PlanStep(2, {}),
                 PlanStep(2, {0}), PlanStep(1, {2}),
                 [PlanStep(1, {0}) EXCEPT !.intent = FALSE],
                 [PlanStep(1, {0}) EXCEPT !.approval = FALSE],
                 [PlanStep(1, {0}) EXCEPT !.supervised = FALSE],
                 [PlanStep(1, {0}) EXCEPT !.risk = "extreme"],
                 [PlanStep(1, {0}) EXCEPT !.result = "missing"],
                 [PlanStep(1, {0}) EXCEPT !.result = "unknown"]}}

\* Plans of three steps with any dependencies, listed in two orders, and of
\* four steps each of which depends on at most one.
Plans ==
  {PlanOf([i \in 1..3 |-> PlanStep(p[i], after[p[i]])]) :
     after \in [0..2 -> SUBSET (0..2)], p \in {<<0, 1, 2>>, <<2, 0, 1>>}}
  \cup {PlanOf([i \in 1..4 |-> PlanStep(i - 1, {after[i]} \ {9})]) :
          after \in [1..4 -> 0..3 \cup {9}]}

StepFile == PlanStep(0, {}) @@ [kind |-> TRUE, id |-> "ok", plan |-> TRUE,
                                private |-> FALSE]
DependencyFile == [kind |-> TRUE, id |-> "ok", plan |-> TRUE, from |-> 0,
                   to |-> 1, sort |-> "sequential", private |-> FALSE]
ResultFile == [kind |-> TRUE, id |-> "ok", plan |-> TRUE, session |-> TRUE,
               status |-> "completed", results |-> <<"ok", "">>,
               fingerprints |-> {"ok"}, private |-> FALSE]

PlanFiles ==
  {File("agent_plan", d) : d \in PlanDefects \cup Plans \cup {TwoSteps}}
  \cup {File("agent_plan_step", d) :
          d \in {StepFile, [StepFile EXCEPT !.id = "malformed"],
                 [StepFile EXCEPT !.plan = FALSE],
                 [StepFile EXCEPT !.approval = FALSE]}}
  \cup {File("agent_plan_dependency", d) :
          d \in {DependencyFile, [DependencyFile EXCEPT !.to = 0],
                 [DependencyFile EXCEPT !.id = "missing"],
                 [DependencyFile EXCEPT !.sort = "magic"]}}
  \cup {File("agent_plan_result", d) :
          d \in {ResultFile, [ResultFile EXCEPT !.results = <<>>],
                 [ResultFile EXCEPT !.results = <<"malformed">>],
                 [ResultFile EXCEPT !.session = FALSE],
                 [ResultFile EXCEPT !.status = "done"],
                 [ResultFile EXCEPT !.fingerprints = {"malformed"}]}}

-----------------------------------------------------------------------------
SessionFile ==
  [kind |-> TRUE, id |-> "ok", agent |-> "ok", task |-> TRUE, budget |-> TRUE,
   policy |-> "bounded_read_only", bounded |-> TRUE, trace |-> TRUE,
   approval |-> "yes", supervised |-> "yes", authority |-> "",
   private |-> FALSE]
TaskFile == [kind |-> TRUE, id |-> "ok", intent |-> TRUE, validation |-> "yes",
             private |-> FALSE]
BudgetFile == [kind |-> TRUE, id |-> "ok", proposals |-> "yes",
               private |-> FALSE]
ShortTraceFile ==
  [kind |-> TRUE, id |-> "ok", session |-> TRUE, private |-> FALSE,
   decisions |-> {[action |-> "propose", outcome |-> "deferred"]}]

SessionFiles ==
  {File("agent_session", d) :
     d \in {SessionFile, [SessionFile EXCEPT !.id = "malformed"],
            [SessionFile EXCEPT !.agent = "anonymous"],
            [SessionFile EXCEPT !.agent = "unknown kind"],
            [SessionFile EXCEPT !.task = FALSE],
            [SessionFile EXCEPT !.budget = FALSE],
            [SessionFile EXCEPT !.policy = "anything"],
            [SessionFile EXCEPT !.policy = "no_access", !.bounded = FALSE],
            [SessionFile EXCEPT !.bounded = FALSE],
            [SessionFile EXCEPT !.trace = FALSE],
            [SessionFile EXCEPT !.approval = "no"],
            [SessionFile EXCEPT !.approval = "unsaid"],
            [SessionFile EXCEPT !.supervised = "no"],
            [SessionFile EXCEPT !.authority = "llm"],
            [SessionFile EXCEPT !.private = TRUE]}}
  \cup {File("agent_task", d) :
          d \in {TaskFile, [TaskFile EXCEPT !.id = "malformed"],
                 [TaskFile EXCEPT !.intent = FALSE],
                 [TaskFile EXCEPT !.validation = "no"]}}
  \cup {File("agent_context_budget", d) :
          d \in {BudgetFile, [BudgetFile EXCEPT !.id = "missing"],
                 [BudgetFile EXCEPT !.proposals = "no"]}}
  \cup {File("agent_decision_trace", d) :
          d \in {ShortTraceFile, [ShortTraceFile EXCEPT !.decisions = {}],
                 [ShortTraceFile EXCEPT !.session = FALSE],
                 [ShortTraceFile EXCEPT !.id = "missing"],
                 [ShortTraceFile EXCEPT !.decisions =
                    {[action |-> "execute", outcome |-> "success"]}]}}

InvocationFile ==
  [kind |-> TRUE, id |-> "ok", session |-> TRUE, step |-> TRUE, tool |-> "ok",
   version |-> "ok", category |-> "write", arguments |-> {"flat"},
   risk |-> "medium", effects |-> "writes_state", reversible |-> "reversible",
   approval |-> "yes", reason |-> TRUE, evidence |-> "ok",
   supervised |-> "yes", timeout |-> [whole |-> TRUE, n |-> 30],
   retries |-> [whole |-> TRUE, n |-> 0], private |-> FALSE]

InvocationFiles ==
  {File("tool_invocation_proposal", d) :
     d \in [kind : {TRUE}, id : {"ok"}, session : {TRUE}, step : {TRUE},
            tool : {"ok"}, version : {"ok"}, category : {"write"},
            arguments : {{"flat"}}, risk : Tiers \cup {""},
            effects : {"none", "read_only", "writes_state", ""},
            reversible : {"reversible"},
            approval : {"yes", "no", "unsaid", "other"},
            reason : {TRUE}, evidence : {"ok"}, supervised : {"yes"},
            timeout : {InvocationFile.timeout},
            retries : {InvocationFile.retries}, private : {FALSE}]
       \cup {[InvocationFile EXCEPT !.id = "missing"],
             [InvocationFile EXCEPT !.tool = "malformed"],
             [InvocationFile EXCEPT !.version = "missing"],
             [InvocationFile EXCEPT !.category = "read"],
             [InvocationFile EXCEPT !.arguments = {}],
             [InvocationFile EXCEPT !.arguments = {"flat", "nested"}],
             [InvocationFile EXCEPT !.reversible = ""],
             [InvocationFile EXCEPT !.reason = FALSE],
             [InvocationFile EXCEPT !.evidence = "missing"],
             [InvocationFile EXCEPT !.evidence = "bare"],
             [InvocationFile EXCEPT !.supervised = "unsaid"],
             [InvocationFile EXCEPT !.timeout.n = 3601],
             [InvocationFile EXCEPT !.timeout.whole = FALSE],
             [InvocationFile EXCEPT !.retries.n = 4],
             [InvocationFile EXCEPT !.step = FALSE]}}

-----------------------------------------------------------------------------
RequestFile ==
  [kind |-> TRUE, id |-> TRUE, producer |-> "private_assistant",
   action |-> "run_script", sandbox |-> TRUE, risk |-> "high",
   scope |-> {"inside"}, approval |-> "yes"]
AdviceFile == [kind |-> TRUE, verdict |-> "approve",
               authority |-> "advisory_only"]
BundleFile == [kind |-> TRUE, agreement |-> "partial", human |-> "yes",
               divergence |-> TRUE]
ApprovalFile == [kind |-> TRUE, decision |-> "approved_for_sandbox_execution",
                 fingerprint |-> "ok"]
SandboxFile == [kind |-> TRUE, profile |-> TRUE]
SkillFile == [kind |-> TRUE, activation |-> "disabled", approval |-> "yes",
              execution |-> TRUE]
AmbiguityFile == [kind |-> TRUE, sort |-> "scope_interpretation",
                  interpretations |-> 2, resolution |-> TRUE]

GateFiles ==
  {File("execution_proposal", d) :
     d \in {RequestFile, [RequestFile EXCEPT !.id = FALSE],
            [RequestFile EXCEPT !.producer = "nobody"],
            [RequestFile EXCEPT !.action = "not an object"],
            [RequestFile EXCEPT !.sandbox = FALSE],
            [RequestFile EXCEPT !.scope = {"inside", "parent"}],
            [RequestFile EXCEPT !.approval = "no"],
            [RequestFile EXCEPT !.approval = "unsaid"]}}
  \cup {File("advisory_review", d) :
          d \in {AdviceFile, [AdviceFile EXCEPT !.authority = "binding"],
                 [AdviceFile EXCEPT !.verdict = "execute"]}}
  \cup {File("multi_expert_review_bundle", d) :
          d \in [kind : {TRUE}, human : {"yes", "no", "unsaid"},
                 agreement : {"unanimous_approval", "partial", ""},
                 divergence : BOOLEAN]}
  \cup {File("human_approval_record", d) :
          d \in {ApprovalFile, [ApprovalFile EXCEPT !.decision = ""],
                 [ApprovalFile EXCEPT !.decision = "perhaps"],
                 [ApprovalFile EXCEPT !.fingerprint = "malformed"]}}
  \cup {File("sandbox_execution_record", d) :
          d \in {SandboxFile, [SandboxFile EXCEPT !.profile = FALSE]}}
  \cup {File("skill_promotion_candidate", d) :
          d \in {SkillFile, [SkillFile EXCEPT !.activation = "enabled"],
                 [SkillFile EXCEPT !.approval = "unsaid"],
                 [SkillFile EXCEPT !.execution = FALSE]}}
  \cup {File("ambiguity_resolution_record", d) :
          d \in {AmbiguityFile, [AmbiguityFile EXCEPT !.interpretations = 1],
                 [AmbiguityFile EXCEPT !.resolution = FALSE],
                 [AmbiguityFile EXCEPT !.sort = "none"]}}

-----------------------------------------------------------------------------
\* Traces of three entries, dated or not, sealed as they are written.
Entry3(i, at, type, violation) ==
  [id |-> IF i = 2 THEN Absent ELSE i - 1, type |-> type,
   summary |-> <<"first", "second", "third">>[i], ref |-> i = 1,
   hash |-> IF i = 1 THEN "of the source" ELSE "missing", at |-> at,
   violation |-> violation]

TraceOf(entries) ==
  [kind |-> TRUE, id |-> "ok", session |-> "ok", plan |-> "ok",
   entries |-> entries, claimed |-> Cardinality(Violations(entries)),
   review |-> Violations(entries) # {},
   root |-> [hash |-> "ok", of |-> Chained(entries)], immutable |-> TRUE,
   count |-> Len(entries), total |-> Len(entries),
   counts |-> [given |-> TRUE, of |-> TypeCounts(entries)]]

WrittenTraces ==
  {TraceOf([i \in 1..3 |-> Entry3(i, at[i],
              IF i = 3 THEN "rejection" ELSE "proposal", v)]) :
     at \in [1..3 -> {Absent, 1, 2}], v \in BOOLEAN}

\* What may become of a trace once it is sealed.
Edits(d) ==
  {d, [d EXCEPT !.entries[2].summary = "missing"],
   [d EXCEPT !.entries[2].summary = "rewritten"],
   [d EXCEPT !.entries[1].hash = "of another"],
   [d EXCEPT !.entries[1].hash = "missing"],
   [d EXCEPT !.entries[3].violation = ~ @],
   [d EXCEPT !.entries[3].type = "verdict"],
   [d EXCEPT !.entries = SubSeq(@, 1, 2)], [d EXCEPT !.entries = <<>>],
   [d EXCEPT !.entries = <<@[2], @[1], @[3]>>],
   [d EXCEPT !.claimed = 0], [d EXCEPT !.review = FALSE],
   [d EXCEPT !.root.hash = "missing"], [d EXCEPT !.root.hash = "malformed"],
   [d EXCEPT !.immutable = FALSE], [d EXCEPT !.count = 2],
   [d EXCEPT !.total = Absent], [d EXCEPT !.total = 4],
   [d EXCEPT !.counts.of = TypeCounts(<<>>)], [d EXCEPT !.id = "malformed"],
   [d EXCEPT !.session = "missing"], [d EXCEPT !.plan = "malformed"]}

TraceFiles ==
  {File("agent_decision_trace", d) : d \in UNION {Edits(t) : t \in WrittenTraces}}

-----------------------------------------------------------------------------
ProfileFile ==
  [kind |-> TRUE, schema |-> TRUE, id |-> "ok",
   root |-> [given |-> RootFields, mistyped |-> {}],
   requirements |-> [given |-> RequirementFields, mistyped |-> {}],
   safety |-> [given |-> SafetyFields, mistyped |-> {}],
   says |-> {}, content |-> {}]

ProfileFiles ==
  {File("execution_profile", d) :
     d \in {ProfileFile, [ProfileFile EXCEPT !.schema = FALSE],
            [ProfileFile EXCEPT !.id = "malformed"],
            [ProfileFile EXCEPT !.id = "of another name"],
            [ProfileFile EXCEPT !.requirements.given = @ \ {"audit_level"}],
            [ProfileFile EXCEPT !.requirements.mistyped = {"audit_level"}],
            [ProfileFile EXCEPT !.content = {"secret"}],
            [ProfileFile EXCEPT !.content = {"claim", "absolute path"}]}
         \cup {[ProfileFile EXCEPT !.root.given = g, !.root.mistyped = m,
                                   !.safety.given = f, !.safety.mistyped = n,
                                   !.says = y \cap (f \ n)] :
                 g \in {RootFields, RootFields \ {"safety"},
                        RootFields \cup {"extra"}},
                 m \in {{}, {"safety"}, {"requirements"}},
                 f \in SUBSET SafetyFields \cup {SafetyFields \cup {"more"}},
                 n \in SUBSET SafetyFields, y \in SUBSET SafetyFields}}

-----------------------------------------------------------------------------
FilesFor(script) ==
  CASE script = "plan" -> PlanFiles
    [] script = "session" -> SessionFiles
    [] script = "gate" -> GateFiles
    [] script = "invocation" -> InvocationFiles
    [] script = "trace" -> TraceFiles
    [] script = "profile" -> ProfileFiles

\* A file each script accepts, to be followed by others in a directory.
GoodFile(script) ==
  CASE script = "plan" -> File("agent_plan", TwoSteps)
    [] script = "session" -> File("agent_session", SessionFile)
    [] script = "gate" -> File("advisory_review", AdviceFile)
    [] script = "invocation" -> File("tool_invocation_proposal", InvocationFile)
    [] script = "trace" ->
         File("agent_decision_trace", CHOOSE d \in WrittenTraces :
                                        ~ Backwards(d.entries))

Scripts == {"plan", "session", "gate", "invocation", "trace", "profile"}

Mislabelled(file) ==
  {[file EXCEPT !.schema = ""], [file EXCEPT !.schema = "unheard of"],
   [file EXCEPT !.type = "another"], [file EXCEPT !.schema = "", !.type = ""]}

Unreadable == {Unread(s) : s \in {"unreadable", "not text", "not json",
                                  "not an object"}}

Desk(script, target, files) ==
  [script |-> script, target |-> target, files |-> files]

MCDesks ==
  UNION {{Desk(s, "file", <<f>>) : f \in FilesFor(s) \cup Unreadable} : s \in Scripts}
  \cup UNION {{Desk(s, "directory", <<GoodFile(s), f, GoodFile(s)>>) :
                 f \in Unreadable \cup Mislabelled(GoodFile(s)) \cup {GoodFile(s)}} :
                s \in Scripts \ {"profile"}}
  \cup {Desk(s, "directory", <<>>) : s \in Scripts \ {"profile"}}
  \cup {Desk(s, "nothing", <<Unread("missing")>>) : s \in Scripts}
=============================================================================
