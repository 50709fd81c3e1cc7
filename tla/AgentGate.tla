------------------------------ MODULE AgentGate ------------------------------
(***************************************************************************)
(* The scripts that judge an agent's files, as processes: one of them is   *)
(* given a file or a directory, reads the files in their order, judges     *)
(* each with the rules of AgentArtifacts and AgentRecords, sorts the steps *)
(* of a plan as in PlanOrder, and reports.  A file some script cannot read *)
(* is a failure or the end of the whole run, as that script has it.        *)
(***************************************************************************)
EXTENDS AgentRecords, PlanOrder

CONSTANTS
  Desks   \* [script, target, files]: who is given what

VARIABLES
  desk,      \* the run that is made
  judged,    \* the rejection codes of the files read so far
  sorting,   \* the plan being read is being sorted
  ended      \* [status, exit] of the run

gateVars == <<desk, judged, sorting, ended, orderVars>>

Running == [status |-> "running", exit |-> 0]
Crashed == [status |-> "crashed", exit |-> 1]

Knows(script) ==
  CASE script = "plan" -> {"agent_plan", "agent_plan_step",
                           "agent_plan_dependency", "agent_plan_result"}
    [] script = "session" -> {"agent_session", "agent_task",
                              "agent_context_budget", "agent_decision_trace"}
    [] script = "gate" -> {"execution_proposal", "advisory_review",
                           "multi_expert_review_bundle",
                           "human_approval_record", "sandbox_execution_record",
                           "skill_promotion_candidate",
                           "ambiguity_resolution_record"}
    [] script = "invocation" -> {"tool_invocation_proposal"}
    [] script = "trace" -> {"agent_decision_trace"}
    [] script = "profile" -> {"execution_profile"}

\* As what a script judges a file: by its schema, and at the human gate by
\* its type when it names no schema.
JudgedAs(script, file) ==
  IF script = "profile" THEN "execution_profile"
  ELSE IF script = "gate" /\ file.schema = "" THEN file.type
  ELSE file.schema

Rules(script, as, d) ==
  CASE as = "agent_plan" -> PlanErrors(d)
    [] as = "agent_plan_step" -> PlanStepErrors(d)
    [] as = "agent_plan_dependency" -> PlanDependencyErrors(d)
    [] as = "agent_plan_result" -> PlanResultErrors(d)
    [] as = "agent_session" -> SessionErrors(d)
    [] as = "agent_task" -> TaskErrors(d)
    [] as = "agent_context_budget" -> BudgetErrors(d)
    [] as = "agent_decision_trace" -> IF script = "trace"
                                      THEN DecisionTraceErrors(d)
                                      ELSE ShortTraceErrors(d)
    [] as = "tool_invocation_proposal" -> InvocationErrors(d)
    [] as = "execution_proposal" -> RequestErrors(d)
    [] as = "advisory_review" -> AdviceErrors(d)
    [] as = "multi_expert_review_bundle" -> BundleErrors(d)
    [] as = "human_approval_record" -> ApprovalErrors(d)
    [] as = "sandbox_execution_record" -> SandboxErrors(d)
    [] as = "skill_promotion_candidate" -> SkillErrors(d)
    [] as = "ambiguity_resolution_record" -> AmbiguityErrors(d)
    [] as = "execution_profile" -> ProfileErrors(d)

\* What is wrong with an artifact, but for what the sort of a plan says.
ArtifactErrors(script, file) ==
  LET as == JudgedAs(script, file)
  IN IF as \in Knows(script)
     THEN Rules(script, as, [file.body EXCEPT !.kind = file.type = as])
     ELSE {IF file.schema = "" THEN "missing_schema_version"
           ELSE "unknown_schema_version"}

\* How a file can be unreadable, for each script: with which of them it goes
\* on, and the others end the run with an exception.
Tolerates(script) ==
  CASE script = "plan" -> {"not json", "not an object"}
    [] script = "session" -> {"not json", "not text"}
    [] script = "gate" -> {"not json", "not text"}
    [] script = "invocation" -> {"not json", "not an object"}
    [] script = "trace" -> {"not json", "missing", "unreadable"}
    [] script = "profile" -> {"not json", "not an object", "missing",
                              "unreadable"}

Sorts(script, file) ==
  script = "plan" /\ file.state = "artifact" /\ file.schema = "agent_plan"
    /\ file.body.steps # <<>>

Breaks(script, file) ==
  \/ file.state # "artifact" /\ file.state \notin Tolerates(script)
  \/ Sorts(script, file) /\ SortFails(file.body.steps)

\* The fields that say whether a person decides, and what else is compared.
FieldsOf(as) ==
  CASE as = "agent_plan" -> {"steps"}
    [] as = "agent_session" -> {"approval"}
    [] as = "tool_invocation_proposal" -> {"approval", "risk", "effects"}
    [] as = "execution_proposal" -> {"approval"}
    [] as = "multi_expert_review_bundle" -> {"human"}
    [] as = "advisory_review" -> {"authority"}
    [] as = "skill_promotion_candidate" -> {"approval", "activation"}
    [] as = "execution_profile" -> {"root", "safety", "says"}
    [] OTHER -> {}

\* A file that can be read holds what its rules read: lists are sequences,
\* dates are numbers, a profile says things of the safety fields. Nothing is
\* said of the flags: the rules compare them with null and False only.
WellFormed(script, file) ==
  LET as == JudgedAs(script, file)
      d == file.body
  IN file.state = "artifact" /\ as \in Knows(script) =>
       /\ FieldsOf(as) \cup {"kind"} \subseteq DOMAIN d
       /\ as = "agent_plan" => IsSequence(d.steps)
       /\ script = "trace" =>
            /\ {"entries", "root", "review"} \subseteq DOMAIN d
            /\ IsSequence(d.entries)
            /\ \A i \in DOMAIN d.entries : d.entries[i].at \in Int
            /\ d.root.hash \in {"ok", "missing", "malformed"}
       /\ as = "execution_profile" => d.says \subseteq SafetyFields

ASSUME DeskAssumption ==
  \A d \in Desks :
    /\ d.script \in {"plan", "session", "gate", "invocation", "trace", "profile"}
    /\ IsSequence(d.files)
    /\ \A k \in DOMAIN d.files : WellFormed(d.script, d.files[k])

-----------------------------------------------------------------------------
GateInit(desks) ==
  /\ desk \in desks
  /\ judged = <<>> /\ sorting = FALSE
  /\ ended = IF desk.script = "nobody" THEN Crashed ELSE Running
  /\ OrderInit(0, {})

Current == desk.files[Len(judged) + 1]

\* The scripts that look at the target before they read; the others find out
\* by reading.
Refuse ==
  /\ ended = Running /\ judged = <<>>
  /\ \/ /\ desk.target = "nothing"
        /\ desk.script \in {"session", "gate", "invocation"}
        /\ ended' = [status |-> "failed",
                     exit |-> IF desk.script = "invocation" THEN 2 ELSE 1]
     \/ /\ desk.target = "directory" /\ desk.files = <<>>
        /\ desk.script = "gate"
        /\ ended' = [status |-> "failed", exit |-> 1]
  /\ UNCHANGED <<desk, judged, sorting, orderVars>>

MayRead ==
  /\ ended = Running /\ ~ sorting
  /\ Len(judged) < Len(desk.files)
  /\ ~ (desk.target = "nothing"
          /\ desk.script \in {"session", "gate", "invocation"})

Crash ==
  /\ MayRead /\ Breaks(desk.script, Current)
  /\ ended' = Crashed
  /\ UNCHANGED <<desk, judged, sorting, orderVars>>

JudgeFile ==
  /\ MayRead
  /\ ~ Breaks(desk.script, Current) /\ ~ Sorts(desk.script, Current)
  /\ judged' = Append(judged, IF Current.state = "artifact"
                              THEN ArtifactErrors(desk.script, Current)
                              ELSE {Current.state})
  /\ UNCHANGED <<desk, sorting, ended, orderVars>>

StartSort ==
  /\ MayRead
  /\ Sorts(desk.script, Current) /\ ~ Breaks(desk.script, Current)
  /\ sorting' = TRUE
  /\ StartOrder(Len(Current.body.steps), PlanLinks(Current.body.steps))
  /\ UNCHANGED <<desk, judged, ended>>

VisitStep ==
  /\ sorting /\ OrderNext
  /\ UNCHANGED <<desk, judged, sorting, ended>>

EndSort ==
  /\ sorting /\ queue = {}
  /\ sorting' = FALSE
  /\ judged' = Append(judged, ArtifactErrors("plan", Current)
                               \cup When(~ AllVisited, "circular_dependency"))
  /\ UNCHANGED <<desk, ended, orderVars>>

\* validate_agent_plan.py and validate_agent_decision_trace.py exit with 0
\* whatever they report.
ExitCode(script, status) ==
  IF status = "passed" \/ script \in {"plan", "trace"} THEN 0
  ELSE IF script = "profile" /\ \E k \in DOMAIN desk.files :
            desk.files[k].state \in {"missing", "unreadable"} THEN 2
  ELSE 1

WriteReport ==
  /\ ended = Running /\ ~ sorting
  /\ Len(judged) = Len(desk.files)
  /\ ~ (desk.script = "gate" /\ desk.files = <<>>)
  /\ LET status == IF \A k \in DOMAIN judged : judged[k] = {} THEN "passed"
                   ELSE "failed"
     IN ended' = [status |-> status, exit |-> ExitCode(desk.script, status)]
  /\ UNCHANGED <<desk, judged, sorting, orderVars>>

GateNext ==
  Refuse \/ Crash \/ JudgeFile \/ StartSort \/ VisitStep \/ EndSort \/ WriteReport

GateSpec == GateInit(Desks) /\ [][GateNext]_gateVars

-----------------------------------------------------------------------------
\* The steps of a plan can be put in an order in which each comes after the
\* other steps it depends on.
PlanCanBeCarriedOut(steps) ==
  LET n == Len(steps)
  IN \E position \in [0 .. n - 1 -> 0 .. n - 1] :
        /\ \A i, j \in 0 .. n - 1 : position[i] = position[j] => i = j
        /\ \A i \in DOMAIN steps : \A p \in steps[i].after \ {steps[i].at} :
              p \in 0 .. n - 1 /\ position[p] < position[steps[i].at]

\* A trace tells things in the order they happened, as its dates say, is the
\* one its chain root was computed of (the evidence hashes apart), and does
\* not hide a violation of governance.
TraceIsHistory(d) ==
  /\ \A i, j \in DOMAIN d.entries :
        (i < j /\ d.entries[i].at # Absent /\ d.entries[j].at # Absent)
          => d.entries[i].at <= d.entries[j].at
  /\ d.root.of = Chained(d.entries)
  /\ Violations(d.entries) # {} => d.review

\* Nothing an agent may do lets it act without a person: a step that uses a
\* tool, a tool with risk or effects, a skill that is learnt, advice that
\* binds, a profile that lets tools run. A tool, a session and a proposal waive
\* it by null or False; any other value of their flag, 0 or "false" say, is
\* taken for a demand of approval.
WaivesApproval(as, d) ==
  \/ as = "agent_plan" /\ \E i \in DOMAIN d.steps :
        (d.steps[i].tool /\ ~ d.steps[i].approval) \/ ~ d.steps[i].supervised
  \/ as = "tool_invocation_proposal" /\ d.approval \in {"no", "unsaid"}
       /\ (d.risk # "none" \/ d.effects \in {"writes_state",
                                              "external_side_effect"})
  \/ as \in {"agent_session", "execution_proposal"} /\ d.approval = "no"
  \/ as = "multi_expert_review_bundle" /\ d.human # "yes"
  \/ as = "advisory_review" /\ d.authority # "advisory_only"
  \/ as = "skill_promotion_candidate"
       /\ (d.approval # "yes" \/ d.activation # "disabled")
  \/ as = "execution_profile"
       /\ (d.says # {} \/ ~ SafetyFields \subseteq d.safety.given
            \/ ~ Object(d, "safety"))

\* A file is what it has to be: it is of a kind the script knows, its plan can
\* be carried out, its trace is history, and it waives no approval.
Sound(script, file) ==
  LET as == JudgedAs(script, file)
  IN /\ file.state = "artifact" /\ as \in Knows(script)
     /\ file.type = as \/ script = "profile"
     /\ ~ WaivesApproval(as, file.body)
     /\ as = "agent_plan" => PlanCanBeCarriedOut(file.body.steps)
     /\ script = "trace" => TraceIsHistory(file.body)

\* When a run passes, each of its files was read whole and is what it has to
\* be: its plans can be carried out in some order, its traces are history,
\* and nothing in it waives the approval of a person.
PassedFilesAreSound ==
  ended.status = "passed" =>
    \A k \in DOMAIN desk.files : Sound(desk.script, desk.files[k])
=============================================================================
