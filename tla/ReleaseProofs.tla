---------------------------- MODULE ReleaseProofs ----------------------------
(***************************************************************************)
(* What a passed release gate and a passed profile show, for any command   *)
(* lines and any one command that misbehaves.                              *)
(***************************************************************************)
EXTENDS ReleaseCheck, SequenceTheorems, WellFoundedInduction, TLAPS

allVars == <<gateVars, checkVars>>

ReleaseSafety == ReleaseInit /\ [][ReleaseNext]_allVars

-----------------------------------------------------------------------------
(* The gate.                                                               *)

Phases == {"idle", "tooling", "bridges", "loops", "manifests", "attestations",
           "v10", "v102", "v12", "audit", "router_audit", "replay", "tests",
           "verdict", "answered"}

Statuses == {"passed", "failed", "blocked", "pending_runtime", "skipped",
             "excluded", "historical_baseline_preserved"}

Suites == [todo : Seq(Groups), status : {"passed", "failed", "blocked"},
           exit : 0..3, blocked : BOOLEAN]

GateTypes ==
  /\ sick \in Sicknesses
  /\ phase \in Phases
  /\ \A c \in DOMAIN checks : checks[c] \in Statuses
  /\ ran \subseteq DOMAIN checks
  /\ suite \in Suites
  /\ payload.exit \in 0..3 \cup {NoCode}
  /\ request.target \in Seq(Nat)

\* Which groups come through which phases.
PhaseInv ==
  /\ phase = "tooling" => request.group \in VerifyGroups
  /\ phase \in {"bridges", "loops", "manifests", "attestations", "v10", "v102",
                "v12"} => request.group \in VerifyGroups \ {"tooling"}
  /\ phase \in {"audit", "router_audit", "verdict"} => request.group = "none"
  /\ phase = "replay" => request.group \in {"none", "replay"}
  /\ phase = "tests" => \/ request.group = "none"
                        \/ request.group \notin VerifyGroups \cup {"replay"}
  /\ phase \notin {"idle", "answered"} =>
       request.group \in Groups /\ ~ request.list /\ ~ request.plan

\* A set of numbers has a least one.
LEMMA LeastNumber ==
  ASSUME NEW S, S \subseteq Nat, S # {}
  PROVE  \E n \in S : \A m \in S : n <= m
<1>1. IsWellFoundedOn(OpToRel(<, Nat), Nat)
  BY NatLessThanWellFounded
<1>2. PICK n \in S : \A m \in S : ~ (<<m, n>> \in OpToRel(<, Nat))
  BY <1>1, WFMin
<1>3. \A m \in S : ~ (m < n)
  BY <1>2 DEF OpToRel
<1> QED
  BY <1>3

\* What is recorded over what was there.
LEMMA Recorded ==
  ASSUME NEW f, NEW selected, Record(f, selected)
  PROVE  /\ DOMAIN checks' = DOMAIN f \cup DOMAIN checks
         /\ \A c \in DOMAIN f : checks'[c] = f[c]
         /\ \A c \in DOMAIN checks \ DOMAIN f : checks'[c] = checks[c]
         /\ ran' = ran \cup {c \in selected : sick.check = c => sick.fixture}
BY DEF Record, ++

LEMMA RecordKeepsTypes ==
  ASSUME GateTypes, NEW f, NEW selected, Record(f, selected),
         selected \subseteq DOMAIN f, \A c \in DOMAIN f : f[c] \in Statuses
  PROVE  /\ \A c \in DOMAIN checks' : checks'[c] \in Statuses
         /\ ran' \subseteq DOMAIN checks'
<1>1. /\ DOMAIN checks' = DOMAIN f \cup DOMAIN checks
      /\ \A c \in DOMAIN f : checks'[c] = f[c]
      /\ \A c \in DOMAIN checks \ DOMAIN f : checks'[c] = checks[c]
      /\ ran' = ran \cup {c \in selected : sick.check = c => sick.fixture}
  BY Recorded
<1>2. /\ \A c \in DOMAIN checks : checks[c] \in Statuses
      /\ ran \subseteq DOMAIN checks
  BY DEF GateTypes
<1>3. \A c \in DOMAIN checks' : checks'[c] \in Statuses
  BY <1>1, <1>2
<1>4. ran' \subseteq DOMAIN checks'
  BY <1>1, <1>2
<1> QED
  BY <1>3, <1>4

\* The status of one command, of a loop and of a list of loops.
LEMMA CommandStatus ==
  /\ \A e : Status(e) \in {"passed", "failed"}
  /\ \A b : SameOutput(b) \in {"passed", "failed", "pending_runtime"}
  /\ \A b : SameResult(b) \in {"passed", "failed", "pending_runtime"}
  /\ \A b, x : RecordedOutput(b, x) \in {"passed", "failed", "pending_runtime"}
BY DEF Status, SameOutput, SameResult, RecordedOutput

\* A check of several tables has the status the last of them gives it.
LEMMA LastLoop ==
  ASSUME NEW loops, NEW n \in Nat, DOMAIN loops = 1 .. n,
         NEW c \in UNION {DOMAIN loops[i].table : i \in DOMAIN loops}
  PROVE  \E i \in 1 .. n : /\ c \in DOMAIN loops[i].table
                            /\ LoopsStatus(loops)[c] = LoopStatus(loops[i])[c]
<1> DEFINE having == {i \in 1 .. n : c \in DOMAIN loops[i].table}
           after == {n - i : i \in having}
           last == CHOOSE i \in DOMAIN loops :
                     /\ c \in DOMAIN loops[i].table
                     /\ \A j \in DOMAIN loops :
                          c \in DOMAIN loops[j].table => j <= i
<1>1. after \subseteq Nat /\ after # {}
  OBVIOUS
<1>2. PICK m \in after : \A k \in after : m <= k
  BY <1>1, LeastNumber
<1>3. PICK i \in having : m = n - i
  BY <1>2
<1>4. ASSUME NEW j \in having
      PROVE  j <= i
  <2>1. n - j \in after
    OBVIOUS
  <2>2. n - i <= n - j
    BY <1>2, <1>3, <2>1
  <2> QED
    BY <2>2
<1>5. \E k \in DOMAIN loops :
         /\ c \in DOMAIN loops[k].table
         /\ \A j \in DOMAIN loops : c \in DOMAIN loops[j].table => j <= k
  BY <1>3, <1>4
<1>6. last \in DOMAIN loops /\ c \in DOMAIN loops[last].table
  BY <1>5
<1>7. LoopsStatus(loops)[c] = LoopStatus(loops[last])[c]
  BY DEF LoopsStatus
<1> QED
  BY <1>6, <1>7

LEMMA LoopsAreStatuses ==
  ASSUME NEW loops, NEW n \in Nat, DOMAIN loops = 1 .. n,
         \A i \in 1 .. n : loops[i].run \in {"output", "result"}
  PROVE  /\ DOMAIN LoopsStatus(loops)
              = UNION {DOMAIN loops[i].table : i \in DOMAIN loops}
         /\ \A c \in DOMAIN LoopsStatus(loops) : LoopsStatus(loops)[c] \in Statuses
         /\ LoopsRun(loops) \subseteq DOMAIN LoopsStatus(loops)
<1>1. DOMAIN LoopsStatus(loops)
        = UNION {DOMAIN loops[i].table : i \in DOMAIN loops}
  BY DEF LoopsStatus
<1>2. LoopsRun(loops) \subseteq DOMAIN LoopsStatus(loops)
  BY <1>1 DEF LoopsRun, LoopRuns
<1>3. ASSUME NEW c \in DOMAIN LoopsStatus(loops)
      PROVE  LoopsStatus(loops)[c] \in Statuses
  <2>1. PICK i \in 1 .. n : /\ c \in DOMAIN loops[i].table
                            /\ LoopsStatus(loops)[c] = LoopStatus(loops[i])[c]
    BY <1>1, LastLoop
  <2>2. LoopStatus(loops[i])[c] \in Statuses
    BY <2>1, CommandStatus DEF LoopStatus, RunStatus, Statuses
  <2> QED
    BY <2>1, <2>2
<1> QED
  BY <1>1, <1>2, <1>3

LEMMA FirstLoopsAreStatuses ==
  LET f == LoopsStatus(FirstLoops)
  IN (\A c \in DOMAIN f : f[c] \in Statuses) /\ LoopsRun(FirstLoops) \subseteq DOMAIN f
<1>1. DOMAIN FirstLoops = 1 .. 7
        /\ \A i \in 1 .. 7 : FirstLoops[i].run \in {"output", "result"}
  BY DEF FirstLoops, Loop
<1> QED
  BY <1>1, LoopsAreStatuses

LEMMA SecondLoopsAreStatuses ==
  LET f == LoopsStatus(SecondLoops)
  IN (\A c \in DOMAIN f : f[c] \in Statuses) /\ LoopsRun(SecondLoops) \subseteq DOMAIN f
<1>1. DOMAIN SecondLoops = 1 .. 5
        /\ \A i \in 1 .. 5 : SecondLoops[i].run \in {"output", "result"}
  BY DEF SecondLoops, Loop
<1> QED
  BY <1>1, LoopsAreStatuses

LEMMA ThirdLoopsAreStatuses ==
  LET f == LoopsStatus(ThirdLoops)
  IN (\A c \in DOMAIN f : f[c] \in Statuses) /\ LoopsRun(ThirdLoops) \subseteq DOMAIN f
<1>1. DOMAIN ThirdLoops = 1 .. 3
        /\ \A i \in 1 .. 3 : ThirdLoops[i].run \in {"output", "result"}
  BY DEF ThirdLoops, Loop
<1> QED
  BY <1>1, LoopsAreStatuses

LEMMA OtherStatuses ==
  /\ \A c \in DOMAIN ManifestStatus : ManifestStatus[c] \in Statuses
  /\ ManifestRuns \subseteq DOMAIN ManifestStatus
  /\ \A c \in DOMAIN NativeStatus : NativeStatus[c] \in Statuses
  /\ NativeRuns \subseteq DOMAIN NativeStatus
  /\ \A p, s : /\ \A c \in DOMAIN AuditStatus(p, s) : AuditStatus(p, s)[c] \in Statuses
               /\ Deterministic(p) \in DOMAIN AuditStatus(p, s)
  /\ DOMAIN ReplayStatus = Replays
  /\ \A c \in Replays : ReplayStatus[c] \in Statuses
<1>1. /\ \A c \in DOMAIN ManifestStatus : ManifestStatus[c] \in Statuses
      /\ ManifestRuns \subseteq DOMAIN ManifestStatus
  BY CommandStatus DEF ManifestStatus, ManifestRuns, Statuses
<1>2. /\ \A c \in DOMAIN NativeStatus : NativeStatus[c] \in Statuses
      /\ NativeRuns \subseteq DOMAIN NativeStatus
  BY CommandStatus DEF NativeStatus, NativeRuns, Statuses
<1>3. ASSUME NEW p, NEW s
      PROVE  /\ \A c \in DOMAIN AuditStatus(p, s) : AuditStatus(p, s)[c] \in Statuses
             /\ Deterministic(p) \in DOMAIN AuditStatus(p, s)
  <2> DEFINE outcome == AuditOutcome(p, s)
             trail == [c \in {Deterministic(p)} |-> outcome]
             manifest == [c \in {p \o "audit_manifest_valid"} |->
                            Status(Exec(p \o "manifest", "accepts"))]
             unknown ==
               [c \in {p \o "audit_trail_unknown_source_type_rejected"} |->
                  UnknownSourceRefused(p)]
  <2>1. outcome \in Statuses
    BY DEF AuditOutcome, Statuses
  <2>2. /\ \A c \in DOMAIN trail : trail[c] \in Statuses
        /\ DOMAIN trail = {Deterministic(p)}
    BY <2>1
  <2>3. \A c \in DOMAIN manifest : manifest[c] \in Statuses
    BY CommandStatus DEF Statuses
  <2>4. \A c \in DOMAIN unknown : unknown[c] \in Statuses
    BY DEF UnknownSourceRefused, Statuses
  <2>5. AuditStatus(p, s) \in {manifest ++ unknown ++ trail, trail}
    BY DEF AuditStatus
  <2> HIDE DEF trail, manifest, unknown, outcome
  <2>6. LET f == manifest ++ unknown ++ trail
        IN (\A c \in DOMAIN f : f[c] \in Statuses) /\ Deterministic(p) \in DOMAIN f
    BY <2>2, <2>3, <2>4 DEF ++
  <2> QED
    BY <2>2, <2>5, <2>6
<1>4. /\ DOMAIN ReplayStatus = Replays
      /\ \A c \in Replays : ReplayStatus[c] \in Statuses
  BY CommandStatus DEF ReplayStatus, StrictReplayStatus, Statuses
<1> QED
  BY <1>1, <1>2, <1>3, <1>4

LEMMA SuiteConstants ==
  /\ NoSuite = [todo |-> <<>>, status |-> "passed", exit |-> 0, blocked |-> FALSE]
  /\ NoSuite \in Suites
  /\ TestGroups \in Seq(Groups)
<1>1. NoSuite = [todo |-> <<>>, status |-> "passed", exit |-> 0, blocked |-> FALSE]
  BY DEF NoSuite
<1>2. <<>> \in Seq(Groups)
  OBVIOUS
<1>3. NoSuite \in Suites
  BY <1>1, <1>2 DEF Suites
<1>4. TestGroups \in Seq(Groups)
  <2>1. TestGroups \in Seq({TestGroups[i] : i \in DOMAIN TestGroups})
    BY DEF TestGroups
  <2>2. {TestGroups[i] : i \in DOMAIN TestGroups} \subseteq Groups
    BY DEF Groups
  <2> QED
    BY <2>1, <2>2, SeqMonotonic
<1> QED
  BY <1>1, <1>3, <1>4

LEMMA CaptureKinds ==
  ASSUME NEW c \in {Captures.passes, Captures.fails, Captures.collect,
                    Captures.timeout, Captures.not_run, Captures.exit_code}
  PROVE  /\ c.status \in {"pass", "error", "blocked", "internal_error"}
         /\ c.blocked \in BOOLEAN
<1>1. /\ Captures.passes = [status |-> "pass", blocked |-> FALSE]
      /\ Captures.fails = [status |-> "error", blocked |-> FALSE]
      /\ Captures.collect = [status |-> "blocked", blocked |-> TRUE]
      /\ Captures.timeout = [status |-> "blocked", blocked |-> TRUE]
      /\ Captures.not_run = [status |-> "internal_error", blocked |-> TRUE]
      /\ Captures.exit_code = [status |-> "internal_error", blocked |-> FALSE]
  BY DEF Captures
<1>2. c.status \in {"pass", "error", "blocked", "internal_error"}
  BY <1>1
<1>3. c.blocked = TRUE \/ c.blocked = FALSE
  BY <1>1
<1>4. c.blocked \in BOOLEAN
  BY <1>3, Zenon
<1> QED
  BY <1>2, <1>4

LEMMA AnswersEnd ==
  LET ends == phase' = "answered" /\ payload'.exit \in 0 .. 3
  IN /\ \A s : \A e \in 0 .. 3 : Answer(s, e) => ends
     /\ \A c : AnswerFailed(c) \/ AnswerBlocked(c) => ends
BY DEF Answer, AnswerFailed, AnswerBlocked

\* One step that records the statuses f.
LEMMA RecordingKeepsTypes ==
  ASSUME GateTypes, NEW f, NEW selected, Record(f, selected),
         selected \subseteq DOMAIN f, \A c \in DOMAIN f : f[c] \in Statuses,
         Stay, phase' \in Phases, suite' \in Suites,
         payload'.exit \in 0 .. 3 \cup {NoCode}
  PROVE  GateTypes'
BY RecordKeepsTypes DEF GateTypes, Stay

LEMMA AuditKeeps ==
  ASSUME GateTypes, PhaseInv, RunAudit \/ RunRouterAudit
  PROVE  GateTypes' /\ PhaseInv'
<1>1. CASE RunAudit
  <2> DEFINE f == AuditStatus("", {"compatibility_matrix_report"})
  <2>1. /\ Record(f, {Deterministic("")})
        /\ phase = "audit" /\ phase' = "router_audit"
        /\ UNCHANGED <<suite, payload, sick, request>>
    BY <1>1 DEF RunAudit, Stay
  <2>2. /\ \A c \in DOMAIN f : f[c] \in Statuses
        /\ {Deterministic("")} \subseteq DOMAIN f
    BY OtherStatuses
  <2> HIDE DEF f
  <2>3. GateTypes'
    BY <2>1, <2>2, RecordingKeepsTypes DEF GateTypes, Phases, Stay
  <2> QED
    BY <2>1, <2>3 DEF PhaseInv
<1>2. CASE RunRouterAudit
  <2> DEFINE f == AuditStatus("router_", {"router_validation",
                    "router_evaluation", "router_report", "router_replay"})
  <2>1. /\ Record(f, {Deterministic("router_")})
        /\ phase = "router_audit" /\ phase' = "replay"
        /\ UNCHANGED <<suite, payload, sick, request>>
    BY <1>2 DEF RunRouterAudit, Stay
  <2>2. /\ \A c \in DOMAIN f : f[c] \in Statuses
        /\ {Deterministic("router_")} \subseteq DOMAIN f
    BY OtherStatuses
  <2> HIDE DEF f
  <2>3. GateTypes'
    BY <2>1, <2>2, RecordingKeepsTypes DEF GateTypes, Phases, Stay
  <2> QED
    BY <2>1, <2>3 DEF PhaseInv
<1> QED
  BY <1>1, <1>2

LEMMA TableKeeps ==
  ASSUME GateTypes, PhaseInv,
         \/ RunBridges \/ RunFirstLoops \/ RunManifests
         \/ RunSecondLoops \/ RunV10 \/ RunThirdLoops
  PROVE  GateTypes' /\ PhaseInv'
<1> DEFINE next == CASE phase = "bridges" -> "loops"
                     [] phase = "loops" -> "manifests"
                     [] phase = "manifests" -> "attestations"
                     [] phase = "attestations" -> "v10"
                     [] phase = "v10" -> "v102"
                     [] phase = "v102" -> "v12"
<1>1. PICK f, selected :
        /\ Record(f, selected) /\ selected \subseteq DOMAIN f
        /\ \A c \in DOMAIN f : f[c] \in Statuses
  <2>1. CASE RunBridges
    <3> DEFINE f == [c \in BRIDGES |-> Status(Exec(c, "accepts"))]
    <3>1. \A c \in DOMAIN f : f[c] \in Statuses
      BY CommandStatus DEF Statuses
    <3>2. Record(f, BRIDGES) /\ BRIDGES \subseteq DOMAIN f
      BY <2>1 DEF RunBridges
    <3> QED
      BY <3>1, <3>2
  <2>2. CASE RunFirstLoops
    BY <2>2, FirstLoopsAreStatuses DEF RunFirstLoops
  <2>3. CASE RunManifests
    BY <2>3, OtherStatuses DEF RunManifests
  <2>4. CASE RunSecondLoops
    BY <2>4, SecondLoopsAreStatuses DEF RunSecondLoops
  <2>5. CASE RunV10
    BY <2>5, OtherStatuses DEF RunV10
  <2>6. CASE RunThirdLoops
    BY <2>6, ThirdLoopsAreStatuses DEF RunThirdLoops
  <2> QED
    BY <2>1, <2>2, <2>3, <2>4, <2>5, <2>6
<1>2. /\ phase \in {"bridges", "loops", "manifests", "attestations", "v10", "v102"}
      /\ phase' = next /\ UNCHANGED <<suite, payload, sick, request>>
  BY DEF RunBridges, RunFirstLoops, RunManifests, RunSecondLoops, RunV10,
         RunThirdLoops, Stay
<1>3. GateTypes'
  BY <1>1, <1>2, RecordingKeepsTypes DEF GateTypes, Phases, Stay
<1> QED
  BY <1>2, <1>3 DEF PhaseInv

LEMMA OtherStepsKeep ==
  ASSUME GateTypes, PhaseInv, Crash \/ RunTooling \/ RecordV12 \/ RunReplay
  PROVE  GateTypes' /\ PhaseInv'
<1>1. CASE Crash
  BY <1>1, AnswersEnd DEF Crash, GateTypes, PhaseInv, Stay, Phases, Answer
<1>2. CASE RunTooling
  <2> DEFINE f == [c \in ToolingCommands |-> Status(Exec(c, "accepts"))]
  <2>1. Record(f, ToolingCommands) /\ phase = "tooling" /\ UNCHANGED suite /\ Stay
    BY <1>2 DEF RunTooling
  <2>2. \A c \in DOMAIN f : f[c] \in Statuses
    BY CommandStatus DEF Statuses
  <2>3. ToolingCommands \subseteq DOMAIN f
    OBVIOUS
  <2>4. \/ phase' = "answered" /\ payload'.exit \in 0 .. 3
        \/ phase' = "bridges" /\ request.group # "tooling" /\ payload' = payload
    BY <1>2, AnswersEnd DEF RunTooling
  <2> HIDE DEF f
  <2>5. GateTypes'
    BY <2>1, <2>2, <2>3, <2>4, RecordingKeepsTypes DEF GateTypes, Phases
  <2> QED
    BY <2>1, <2>4, <2>5 DEF PhaseInv, Stay
<1>3. CASE RecordV12
  <2> DEFINE f == [c \in V12_CHECKS |->
               IF c \in Exclusions(request.target) THEN "skipped"
               ELSE IF TargetAtLeast(request.target, <<12, 0>>) THEN "passed"
               ELSE "pending_runtime"]
  <2>1. Record(f, {}) /\ phase = "v12" /\ UNCHANGED suite /\ Stay
    BY <1>3 DEF RecordV12
  <2>2. \A c \in DOMAIN f : f[c] \in Statuses
    BY DEF Statuses
  <2>4. \/ phase' = "answered" /\ payload'.exit \in 0 .. 3
        \/ phase' = "audit" /\ request.group = "none" /\ payload' = payload
    BY <1>3, AnswersEnd DEF RecordV12
  <2> HIDE DEF f
  <2>5. GateTypes'
    BY <2>1, <2>2, <2>4, RecordingKeepsTypes DEF GateTypes, Phases
  <2> QED
    BY <2>1, <2>4, <2>5 DEF PhaseInv, Stay
<1>4. CASE RunReplay
  <2>1. Record(ReplayStatus, Replays) /\ phase = "replay" /\ Stay
    BY <1>4 DEF RunReplay
  <2>2. /\ \A c \in DOMAIN ReplayStatus : ReplayStatus[c] \in Statuses
        /\ Replays \subseteq DOMAIN ReplayStatus
    BY OtherStatuses
  <2>3. NoSuite \in Suites /\ TestGroups \in Seq(Groups) /\ <<>> \in Seq(Groups)
    BY SuiteConstants
  <2>4. \/ /\ phase' = "answered" /\ payload'.exit \in 0 .. 3 /\ suite' = suite
        \/ /\ phase' = "tests" /\ request.group # "replay" /\ payload' = payload
           /\ suite' \in Suites
    <3>1. /\ [NoSuite EXCEPT !.todo = <<>>] \in Suites
          /\ [NoSuite EXCEPT !.todo = TestGroups] \in Suites
      BY <2>3 DEF Suites
    <3> QED
      BY <1>4, <3>1, AnswersEnd DEF RunReplay
  <2>5. GateTypes'
    BY <2>1, <2>2, <2>4, RecordingKeepsTypes DEF GateTypes, Phases
  <2> QED
    BY <2>1, <2>4, <2>5 DEF PhaseInv, Stay
<1> QED
  BY <1>1, <1>2, <1>3, <1>4

LEMMA SuiteKeeps ==
  ASSUME GateTypes, PhaseInv, RunSubgroup \/ EndSuite \/ Verdict
  PROVE  GateTypes' /\ PhaseInv'
<1>1. CASE RunSubgroup
  <2>1. SubgroupCapture(Head(suite.todo)) \in
          {Captures.passes, Captures.fails, Captures.collect,
           Captures.timeout, Captures.not_run, Captures.exit_code}
    BY SicknessAssumption DEF SubgroupCapture, Captures, GateTypes
  <2>2. PICK capture : capture = SubgroupCapture(Head(suite.todo))
    OBVIOUS
  <2>3. /\ capture.status \in {"pass", "error", "blocked", "internal_error"}
        /\ capture.blocked \in BOOLEAN
    BY <2>1, <2>2, CaptureKinds
  <2>4. suite' = CASE capture.status = "pass" ->
                        [suite EXCEPT !.todo = Tail(@)]
                   [] capture.status = "error" ->
                        [todo |-> <<>>, status |-> "failed", exit |-> 1,
                         blocked |-> capture.blocked]
                   [] capture.status = "blocked" ->
                        [todo |-> <<>>, status |-> "blocked", exit |-> 2,
                         blocked |-> capture.blocked]
                   [] capture.status = "internal_error" ->
                        [todo |-> <<>>, status |-> "failed", exit |-> 3,
                         blocked |-> capture.blocked]
    BY <1>1, <2>2 DEF RunSubgroup
  <2>5. Tail(suite.todo) \in Seq(Groups)
    BY <1>1 DEF RunSubgroup, GateTypes, Suites
  <2>6. suite' \in Suites
    <3>1. [suite EXCEPT !.todo = Tail(@)] \in Suites
      BY <2>5 DEF Suites, GateTypes
    <3>2. \A s \in {"failed", "blocked"}, e \in 1 .. 3 :
            [todo |-> <<>>, status |-> s, exit |-> e,
             blocked |-> capture.blocked] \in Suites
      BY <2>3 DEF Suites
    <3> QED
      BY <2>3, <2>4, <3>1, <3>2
  <2> QED
    BY <1>1, <2>6 DEF RunSubgroup, GateTypes, PhaseInv, Stay
<1>2. CASE EndSuite
  <2>1. phase = "tests" /\ UNCHANGED suite /\ Stay
    BY <1>2 DEF EndSuite
  <2>2. PICK f, selected :
          /\ Record(f, selected) /\ selected \subseteq DOMAIN f
          /\ \A c \in DOMAIN f : f[c] \in Statuses
    <3> DEFINE skipped == [c \in {"pytest"} |-> "skipped"]
               result == [c \in {"pytest"} |-> suite.status]
    <3>1. Record(skipped, {}) \/ Record(result, {"pytest"})
      BY <1>2 DEF EndSuite
    <3>2. \A c \in {"pytest"} : skipped[c] \in Statuses /\ result[c] \in Statuses
      BY DEF GateTypes, Suites, Statuses
    <3> QED
      BY <3>1, <3>2
  <2>3. \/ phase' = "answered" /\ payload'.exit \in 0 .. 3
        \/ phase' = "verdict" /\ request.group = "none" /\ payload' = payload
    BY <1>2 DEF EndSuite, Answer, GateTypes, Suites
  <2>4. GateTypes'
    BY <2>1, <2>2, <2>3, RecordingKeepsTypes DEF GateTypes, Phases
  <2> QED
    BY <2>1, <2>3, <2>4 DEF PhaseInv, Stay
<1>3. CASE Verdict
  <2> DEFINE f == [n \in Exclusions(request.target) \cap DOMAIN checks |-> "excluded"]
  <2>1. Record(f, {}) /\ UNCHANGED suite /\ Stay
    BY <1>3 DEF Verdict
  <2>2. \A c \in DOMAIN f : f[c] \in Statuses
    BY DEF Statuses
  <2>3. phase' = "answered" /\ payload'.exit \in 0 .. 3
    BY <1>3, AnswersEnd DEF Verdict
  <2> HIDE DEF f
  <2>4. GateTypes'
    BY <2>1, <2>2, <2>3, RecordingKeepsTypes DEF GateTypes, Phases
  <2> QED
    BY <2>1, <2>3, <2>4 DEF PhaseInv, Stay
<1> QED
  BY <1>1, <1>2, <1>3

LEMMA GateKeepsTypes ==
  ASSUME GateTypes, PhaseInv, GateStep
  PROVE  GateTypes' /\ PhaseInv'
BY AuditKeeps, TableKeeps, OtherStepsKeep, SuiteKeeps DEF GateStep
-----------------------------------------------------------------------------
(* The gate inside the wrapper.                                            *)

WrapperTypes ==
  /\ args \in Arguments \cup {NoArguments}
  /\ host \in Hosts
  /\ stage \in {"shell", "start", "lint", "preflight", "gate", "done"}
  /\ diagnostics \subseteq {"warning", "error", "blocked"}
  /\ report \in {"none", "pass", "warning", "error", "blocked",
                 "internal_error"}

TypesInv == GateTypes /\ PhaseInv /\ WrapperTypes

LEMMA StartKeepsTypes ==
  ASSUME NEW r, r.target \in Seq(Nat), StartGate(r), GateTypes
  PROVE  GateTypes' /\ PhaseInv'
<1>1. /\ request' = r /\ sick' = sick /\ checks' = <<>> /\ ran' = {}
  BY DEF StartGate
<1>2. /\ phase' \in Phases
      /\ payload'.exit \in 0 .. 3 \cup {NoCode}
  BY DEF StartGate, Phases, Answer, NoPayload, NoCode
<1>3. AsTestGroup(r.group) \in Seq(Groups) \/ r.group \notin Groups
  BY SuiteConstants DEF AsTestGroup
<1>4. suite' \in Suites
  <2>1. ASSUME AsTestGroup(r.group) \in Seq(Groups)
        PROVE  [NoSuite EXCEPT !.todo = AsTestGroup(r.group)] \in Suites
    BY <2>1, SuiteConstants DEF Suites
  <2> QED
    BY <1>3, <2>1, SuiteConstants DEF StartGate
<1>5. DOMAIN checks' = {}
  BY <1>1
<1>6. GateTypes'
  BY <1>1, <1>2, <1>4, <1>5 DEF GateTypes
<1>7. PhaseInv'
  BY <1>1 DEF StartGate, Answer, PhaseInv
<1> QED
  BY <1>6, <1>7

LEMMA TargetsAreVersions ==
  ASSUME args \in Arguments \cup {NoArguments}
  PROVE  ResolvedTarget \in Seq(Nat)
BY ArgumentAssumption DEF ResolvedTarget, NoArguments, NoTarget

LEMMA SeveritiesAreKnown ==
  /\ \A c : CaptureStatus(c) \in {"pass", "error", "blocked", "internal_error"}
  /\ \A s \in {"error", "blocked", "internal_error"} :
       Severity(s) \in {"error", "blocked"}
  /\ \A d : FinalStatus(d) \in {"pass", "warning", "error", "blocked"}
<1>1. \A c : CaptureStatus(c) \in {"pass", "error", "blocked", "internal_error"}
  <2>1. TAKE c
  <2>2. CASE c.timed_out
    BY <2>2 DEF CaptureStatus
  <2>3. CASE ~ c.timed_out
    BY <2>3 DEF CaptureStatus
  <2> QED
    BY <2>2, <2>3
<1> QED
  BY <1>1 DEF Severity, FinalStatus

LEMMA CollectKeepsTypes ==
  ASSUME WrapperTypes, NEW c, Collect(c), stage = "gate"
  PROVE  WrapperTypes'
<1> DEFINE status == CaptureStatus(c)
           ignored == args.list \/ args.plan \/ status = "pass"
           severities == IF ignored THEN diagnostics
                         ELSE diagnostics \cup {Severity(status)}
<1>1. severities \subseteq {"warning", "error", "blocked"}
  BY SeveritiesAreKnown DEF WrapperTypes
<1>2. /\ diagnostics' = severities
      /\ \/ stage' = "done" /\ report' = FinalStatus(severities)
         \/ stage' = stage /\ report' = report
      /\ UNCHANGED <<args, host>>
  BY DEF Collect, Report
<1> HIDE DEF severities
<1> QED
  BY <1>1, <1>2, SeveritiesAreKnown DEF WrapperTypes

LEMMA WrapperKeepsTypes ==
  ASSUME TypesInv, WrapperStep
  PROVE  TypesInv'
<1> USE DEF TypesInv
<1>1. CASE CheckMode \/ RunLint \/ Preflight
  <2>1. UNCHANGED gateVars
    BY <1>1 DEF CheckMode, RunLint, Preflight
  <2>2. GateTypes' /\ PhaseInv'
    BY <2>1 DEF gateVars, GateTypes, PhaseInv
  <2>3. CASE CheckMode
    BY <2>2, <2>3 DEF CheckMode, WrapperTypes, Diagnose, Report
  <2>4. CASE RunLint
    BY <2>2, <2>4, SeveritiesAreKnown DEF RunLint, WrapperTypes, Diagnose, Report
  <2>5. CASE Preflight
    BY <2>2, <2>5, SeveritiesAreKnown DEF Preflight, WrapperTypes, Diagnose, Report
  <2> QED
    BY <1>1, <2>2, <2>3, <2>4, <2>5
<1>2. CASE LaunchGate
  <2>1. PICK r : StartGate(r) /\ r.target = ResolvedTarget
    BY <1>2 DEF LaunchGate
  <2>2. GateTypes' /\ PhaseInv'
    BY <2>1, StartKeepsTypes, TargetsAreVersions DEF WrapperTypes
  <2> QED
    BY <1>2, <2>2 DEF LaunchGate, checkVars, WrapperTypes
<1>3. CASE CollectGate \/ Timeout
  <2>1. GateEnded /\ \E c : Collect(c)
    BY <1>3 DEF CollectGate, Timeout
  <2>2. stage = "gate"
    BY <1>3 DEF CollectGate, Timeout
  <2>3. GateTypes' /\ PhaseInv'
    BY <2>1 DEF GateEnded, GateTypes, PhaseInv, Phases
  <2> QED
    BY <2>1, <2>2, <2>3, CollectKeepsTypes
<1> QED
  BY <1>1, <1>2, <1>3 DEF WrapperStep

LEMMA InitialTypes == ReleaseInit => TypesInv
<1> SUFFICES ASSUME ReleaseInit PROVE TypesInv
  OBVIOUS
<1>1. GateInit
  BY DEF ReleaseInit, CheckInit, ShellInit
<1>2. GateTypes
  <2>1. DOMAIN checks = {} /\ NoTarget \in Seq(Nat)
    BY <1>1 DEF GateInit, NoTarget
  <2> QED
    BY <1>1, <2>1, SuiteConstants
    DEF GateInit, GateTypes, Phases, NoPayload, NoCode
<1>3. PhaseInv
  BY <1>1 DEF GateInit, PhaseInv
<1>4. WrapperTypes
  BY ArgumentAssumption DEF ReleaseInit, CheckInit, ShellInit, WrapperTypes
<1> QED
  BY <1>2, <1>3, <1>4 DEF TypesInv

LEMMA ReleaseKeepsTypes ==
  ASSUME TypesInv, [ReleaseNext]_allVars
  PROVE  TypesInv'
<1>1. CASE WrapperStep
  BY <1>1, WrapperKeepsTypes
<1>2. CASE StartFromShell
  <2>1. GateTypes' /\ PhaseInv'
    BY <1>2, StartKeepsTypes, RequestAssumption DEF StartFromShell, TypesInv
  <2> QED
    BY <1>2, <2>1 DEF StartFromShell, TypesInv, WrapperTypes, checkVars
<1>3. CASE GateMoves
  <2>1. GateTypes' /\ PhaseInv'
    BY <1>3, GateKeepsTypes DEF GateMoves, TypesInv
  <2> QED
    BY <1>3, <2>1 DEF GateMoves, TypesInv, WrapperTypes, checkVars
<1>4. CASE UNCHANGED allVars
  BY <1>4 DEF allVars, gateVars, checkVars, TypesInv, GateTypes, PhaseInv,
              WrapperTypes
<1> QED
  BY <1>1, <1>2, <1>3, <1>4 DEF ReleaseNext

\* Whatever the commands do and however the wrapper is called, the gate and the
\* wrapper stay within the phases, statuses, exit codes and reports of the code.
THEOREM ReleaseTypes == ReleaseSafety => []ReleaseTypeOK
<1>1. TypesInv => ReleaseTypeOK
  BY DEF TypesInv, GateTypes, WrapperTypes, Suites, Phases, Statuses,
         ReleaseTypeOK
<1> QED
  BY <1>1, InitialTypes, ReleaseKeepsTypes, PTL DEF ReleaseSafety
-----------------------------------------------------------------------------
(* Versions and what they leave out.                                       *)

\* The keys of TARGET_EXCLUSIONS, up to v11.3.
KeysTo94 == {<<6, 9>>, <<7, 8>>, <<8, 0>>, <<8, 1>>, <<8, 2>>, <<8, 3>>,
             <<8, 4>>, <<8, 5>>, <<9, 0>>, <<9, 1>>, <<9, 2>>, <<9, 3>>,
             <<9, 4>>}
KeysOf10 == {<<10, 0>>, <<10, 0, 1>>, <<10, 1>>, <<10, 2>>, <<10, 3>>,
             <<10, 4>>, <<10, 5>>}
KeysOf11 == {<<11, 0>>, <<11, 0, 1>>, <<11, 1>>, <<11, 2>>, <<11, 3>>}
EarlyKeys == KeysTo94 \cup {<<9, 5>>} \cup KeysOf10 \cup KeysOf11

LEMMA EarlyKeysAreEarly ==
  ASSUME NEW t \in EarlyKeys
  PROVE  /\ Len(t) \in {2, 3} /\ t # <<>>
         /\ t[1] \in Nat /\ t[2] \in Nat
         /\ t[1] < 11 \/ (t[1] = 11 /\ t[2] < 4)
<1>1. CASE t \in KeysTo94
  BY <1>1 DEF KeysTo94
<1>2. CASE t \in KeysOf10
  BY <1>2 DEF KeysOf10
<1>3. CASE t \in KeysOf11
  BY <1>3 DEF KeysOf11
<1>4. CASE t = <<9, 5>>
  BY <1>4
<1> QED
  BY <1>1, <1>2, <1>3, <1>4 DEF EarlyKeys

LEMMA EarlyIsBefore ==
  ASSUME NEW t \in EarlyKeys
  PROVE  ~ TargetAtLeast(t, <<11, 6, 0>>)
<1>1. /\ NumericVersion(t)[1] = t[1] /\ NumericVersion(t)[2] = t[2]
      /\ NumericVersion(<<11, 6, 0>>) = <<11, 6, 0>>
  BY EarlyKeysAreEarly DEF NumericVersion
<1> QED
  BY <1>1, EarlyKeysAreEarly DEF TargetAtLeast, NoTarget

LEMMA KeysAreKnown == DOMAIN TARGET_EXCLUSIONS = EarlyKeys \cup {<<12, 0>>}
<1>1. ASSUME NEW f, NEW g
      PROVE  DOMAIN (f ++ g) = DOMAIN f \cup DOMAIN g
  BY DEF ++
<1> DEFINE first == [t \in KeysTo94 |->
                 From(CASE t = <<6, 9>> -> 1 [] t = <<7, 8>> -> 2
                        [] t[1] = 8 -> 3 + t[2]
                        [] t = <<9, 0>> -> 9
                        [] t[1] = 9 /\ t # <<9, 0>> -> 8 + t[2])]
           v10 == [t \in KeysOf10 |-> V10_CHECKS \cup V111_CHECKS \cup V12_CHECKS]
           v11 == [t \in KeysOf11 |-> V111_CHECKS \cup V12_CHECKS]
           v95 == [t \in {<<9, 5>>} |-> {}]
           v12 == [t \in {<<12, 0>>} |-> V12_CHECKS]
<1>2. TARGET_EXCLUSIONS = first ++ v95 ++ v10 ++ v11 ++ v12
  BY Zenon DEF TARGET_EXCLUSIONS, KeysTo94, KeysOf10, KeysOf11
<1>3. /\ DOMAIN first = KeysTo94 /\ DOMAIN v95 = {<<9, 5>>}
      /\ DOMAIN v10 = KeysOf10 /\ DOMAIN v11 = KeysOf11
      /\ DOMAIN v12 = {<<12, 0>>}
  OBVIOUS
<1> HIDE DEF first, v10, v11, v95, v12
<1> DEFINE to95 == first ++ v95
           to10 == to95 ++ v10
           to11 == to10 ++ v11
<1>4. DOMAIN to95 = KeysTo94 \cup {<<9, 5>>}
  BY <1>1, <1>3, Zenon
<1> HIDE DEF to95
<1>5. DOMAIN to10 = KeysTo94 \cup {<<9, 5>>} \cup KeysOf10
  <2>1. DOMAIN to10 = DOMAIN to95 \cup DOMAIN v10
    BY <1>1
  <2> QED
    BY <2>1, <1>3, <1>4
<1> HIDE DEF to10
<1>6. DOMAIN to11 = EarlyKeys
  <2>1. DOMAIN to11 = DOMAIN to10 \cup DOMAIN v11
    BY <1>1
  <2> QED
    BY <2>1, <1>3, <1>5 DEF EarlyKeys
<1> HIDE DEF to11
<1>7. DOMAIN (to11 ++ v12) = EarlyKeys \cup {<<12, 0>>}
  <2>1. DOMAIN (to11 ++ v12) = DOMAIN to11 \cup DOMAIN v12
    BY <1>1
  <2> QED
    BY <2>1, <1>3, <1>6
<1>8. TARGET_EXCLUSIONS = to11 ++ v12
  BY <1>2 DEF to95, to10, to11
<1> QED
  BY <1>8, <1>7

LEMMA LastKey == <<12, 0>> \notin EarlyKeys /\ TARGET_EXCLUSIONS[<<12, 0>>] = V12_CHECKS
<1>1. <<12, 0>> \notin EarlyKeys
  BY EarlyKeysAreEarly
<1>2. TARGET_EXCLUSIONS[<<12, 0>>] = V12_CHECKS
  BY <1>1 DEF TARGET_EXCLUSIONS, ++, EarlyKeys, KeysTo94, KeysOf10, KeysOf11
<1> QED
  BY <1>1, <1>2

LEMMA LateExclusions ==
  ASSUME NEW t, TargetAtLeast(t, <<11, 6, 0>>)
  PROVE  Exclusions(t) \subseteq V12_CHECKS
BY EarlyIsBefore, KeysAreKnown, LastKey DEF Exclusions
-----------------------------------------------------------------------------
(* The strict replay.                                                      *)

\* Both certifications were judged, and none passed without being run.
ReplaySettled ==
  \A c \in Replays : /\ c \in DOMAIN checks
                     /\ checks[c] \in {"passed", "failed", "blocked"}
                     /\ checks[c] = "passed" => c \in ran

Strict == TargetAtLeast(request.target, <<11, 6, 0>>)

ReplayInv ==
  /\ phase \in {"tests", "verdict"} /\ request.group = "none" /\ Strict
     => ReplaySettled
  /\ StrictReplayExecuted

LEMMA ReplayIsStrict ==
  ASSUME GateTypes, Strict, Record(ReplayStatus, Replays)
  PROVE  ReplaySettled'
<1>1. /\ DOMAIN checks' = Replays \cup DOMAIN checks
      /\ \A c \in Replays : checks'[c] = ReplayStatus[c]
      /\ ran' = ran \cup {c \in Replays : sick.check = c => sick.fixture}
  BY Recorded, OtherStatuses
<1>2. ReplayStatus["replay_certification"] \in {"passed", "failed", "blocked"}
  BY CommandStatus
  DEF ReplayStatus, Replays, StrictReplayStatus, Strict
<1>3. sick.check = "replay_certification" => sick.fixture
  BY SicknessAssumption DEF GateTypes
<1>4. LET b == Behaviour("router_replay_certification", "accepts")
      IN ReplayStatus["router_replay_certification"]
           = StrictReplayStatus(request.target, RecordedOutput(b, TRUE))
  BY DEF ReplayStatus, Replays
<1>5. ReplayStatus["router_replay_certification"] \in {"passed", "failed", "blocked"}
  BY <1>4, CommandStatus DEF StrictReplayStatus, Strict
<1>6. ASSUME ReplayStatus["router_replay_certification"] = "passed",
             sick.check = "router_replay_certification"
      PROVE  sick.fixture
  BY <1>4, <1>6 DEF Behaviour, RecordedOutput, SameOutput, StrictReplayStatus,
                    Strict
<1> QED
  BY <1>1, <1>2, <1>3, <1>5, <1>6 DEF ReplaySettled, Replays

\* Recording checks that are not replays leaves what was settled.
LEMMA SettledStays ==
  ASSUME ReplaySettled, NEW f, NEW selected, Record(f, selected),
         \A c \in DOMAIN f : c \notin Replays
  PROVE  ReplaySettled'
BY Recorded DEF ReplaySettled

LEMMA PassedIsSettled ==
  ASSUME NEW c, AnswerFailed(c), payload'.status = "passed",
         NEW n \in DOMAIN c
  PROVE  c[n] # "failed"
BY DEF AnswerFailed, Answer, Failed

LEMMA GateKeepsReplay ==
  ASSUME GateTypes, PhaseInv, ReplayInv, GateStep
  PROVE  ReplayInv'
<1>1. UNCHANGED request
  BY DEF GateStep, Crash, RunTooling, RunBridges, RunFirstLoops, RunManifests,
         RunSecondLoops, RunV10, RunThirdLoops, RecordV12, RunAudit,
         RunRouterAudit, RunReplay, RunSubgroup, EndSuite, Verdict, Stay
<1>2. CASE Crash
  BY <1>2 DEF Crash, Answer, ReplayInv, StrictReplayExecuted, Answered
<1>3. CASE \/ RunBridges \/ RunFirstLoops \/ RunManifests \/ RunSecondLoops
           \/ RunV10 \/ RunThirdLoops \/ RunAudit \/ RunRouterAudit
  <2>1. phase' \notin {"tests", "verdict", "answered"}
    BY <1>3 DEF RunBridges, RunFirstLoops, RunManifests, RunSecondLoops,
                RunV10, RunThirdLoops, RunAudit, RunRouterAudit
  <2> QED
    BY <2>1 DEF ReplayInv, StrictReplayExecuted, Answered
<1>4. CASE RunTooling
  <2>1. phase' = "bridges" \/ (phase' = "answered" /\ request.group = "tooling")
    BY <1>4 DEF RunTooling, AnswerFailed, Answer
  <2> QED
    BY <1>1, <2>1 DEF ReplayInv, StrictReplayExecuted, Answered, FullGate
<1>5. CASE RecordV12
  <2>1. \/ phase' = "audit"
        \/ phase' = "answered" /\ request.group \in VerifyGroups \ {"none"}
    BY <1>5 DEF RecordV12, AnswerFailed, Answer, PhaseInv
  <2> QED
    BY <1>1, <2>1
    DEF ReplayInv, StrictReplayExecuted, Answered, FullGate, VerifyGroups
<1>6. CASE RunReplay
  <2>1. Strict => ReplaySettled'
    BY <1>6, ReplayIsStrict DEF RunReplay
  <2>2. CASE request.group = "replay"
    <3>1. phase' = "answered" /\ AnswerBlocked(checks')
      BY <1>6, <2>2 DEF RunReplay, AnswerBlocked, AnswerFailed, Answer
    <3>2. payload'.status = "passed" =>
            \A c \in DOMAIN checks' : checks'[c] \notin {"failed", "blocked"}
      BY <3>1 DEF AnswerBlocked, AnswerFailed, Answer, Failed
    <3>3. StrictReplayExecuted'
      BY <1>1, <2>1, <3>2
      DEF StrictReplayExecuted, Strict, ReplaySettled, CatalogGroupChecks
    <3> QED
      BY <3>1, <3>3 DEF ReplayInv
  <2>3. CASE request.group # "replay"
    <3>1. phase' = "tests"
      BY <1>6, <2>3 DEF RunReplay
    <3> QED
      BY <1>1, <2>1, <3>1 DEF ReplayInv, StrictReplayExecuted, Answered, Strict
  <2> QED
    BY <2>2, <2>3
<1>7. CASE RunSubgroup
  BY <1>7, <1>1
  DEF RunSubgroup, ReplayInv, StrictReplayExecuted, Answered, ReplaySettled, Strict
<1>8. CASE EndSuite
  <2>1. PICK f, selected : Record(f, selected) /\ DOMAIN f = {"pytest"}
    BY <1>8 DEF EndSuite
  <2>2. ReplaySettled => ReplaySettled'
    BY <2>1, SettledStays DEF Replays
  <2>3. /\ phase = "tests"
        /\ \/ phase' = "verdict"
           \/ phase' = "answered" /\ request.group \notin {"none", "replay"}
    BY <1>8 DEF EndSuite, Answer, PhaseInv
  <2> QED
    BY <1>1, <2>2, <2>3
    DEF ReplayInv, StrictReplayExecuted, Answered, FullGate, Strict
<1>9. CASE Verdict
  <2> DEFINE f == [n \in Exclusions(request.target) \cap DOMAIN checks |-> "excluded"]
  <2>1. Record(f, {}) /\ phase = "verdict"
    BY <1>9 DEF Verdict
  <2>2. Strict => \A c \in DOMAIN f : c \notin Replays
    BY LateExclusions DEF Strict, V12_CHECKS, Replays
  <2> HIDE DEF f
  <2>3. Strict /\ request.group = "none" => ReplaySettled /\ ReplaySettled'
    BY <2>1, <2>2, SettledStays DEF ReplayInv
  <2>4. /\ phase' = "answered"
        /\ payload'.status = "passed" =>
             /\ \A c \in DOMAIN checks : checks[c] # "blocked"
             /\ \A c \in DOMAIN checks' : checks'[c] # "failed"
    BY <1>9 DEF Verdict, AnswerFailed, Answer, Failed
  <2>5. /\ \A c \in DOMAIN f : f[c] = "excluded"
        /\ \A c \in DOMAIN checks \ DOMAIN f : checks'[c] = checks[c]
        /\ \A c \in DOMAIN f : checks'[c] = f[c]
        /\ DOMAIN checks' = DOMAIN checks \cup DOMAIN f
    <3>1. \A c \in DOMAIN f : f[c] = "excluded"
      BY DEF f
    <3> QED
      BY <2>1, <3>1, Recorded
  <2>6. payload'.status = "passed" /\ Strict /\ request.group = "none"
          => \A c \in Replays : c \in ran' /\ checks'[c] = "passed"
    BY <2>2, <2>3, <2>4, <2>5 DEF ReplaySettled
  <2>7. request.group = "none"
    BY <2>1 DEF PhaseInv
  <2>8. CatalogGroupChecks.replay = Replays
    BY DEF CatalogGroupChecks
  <2> QED
    BY <1>1, <2>4, <2>6, <2>7, <2>8 DEF ReplayInv, StrictReplayExecuted, Strict
<1> QED
  BY <1>2, <1>3, <1>4, <1>5, <1>6, <1>7, <1>8, <1>9 DEF GateStep

LEMMA StartIsNoFullAnswer ==
  ASSUME NEW r, StartGate(r)
  PROVE  /\ phase' = "answered" =>
              /\ ~ FullGate'
              /\ request'.group = "replay" => request'.list \/ request'.plan
         /\ phase' \in {"tests", "verdict"} => request'.group # "none"
         /\ phase' \in {"tooling", "replay", "tests", "answered"}
         /\ phase' = "replay" => request'.group = "replay"
BY DEF StartGate, Answer, FullGate, Groups, VerifyGroups

\* From v11.6.0 on, a passed gate that covers the replay has run and passed
\* both certifications: _strict_replay_status leaves none of them pending.
THEOREM ReplayIsExecuted == ReleaseSafety => []StrictReplayExecuted
<1>1. ReleaseInit => ReplayInv
  BY DEF ReleaseInit, CheckInit, ShellInit, GateInit, ReplayInv,
         StrictReplayExecuted, Answered
<1>2. ASSUME TypesInv, ReplayInv, [ReleaseNext]_allVars
      PROVE  ReplayInv'
  <2>1. CASE GateMoves
    BY <1>2, <2>1, GateKeepsReplay DEF GateMoves, TypesInv
  <2>2. CASE LaunchGate \/ StartFromShell
    <3>1. PICK r : StartGate(r)
      BY <2>2 DEF LaunchGate, StartFromShell
    <3> QED
      BY <3>1, StartIsNoFullAnswer DEF ReplayInv, StrictReplayExecuted, Answered
  <2>3. CASE CollectGate \/ Timeout
    BY <2>3 DEF CollectGate, Timeout, GateEnded, ReplayInv,
                StrictReplayExecuted, Answered
  <2>4. CASE UNCHANGED gateVars
    BY <1>2, <2>4 DEF gateVars, ReplayInv, ReplaySettled, Strict,
                      StrictReplayExecuted, Answered, FullGate
  <2> QED
    BY <1>2, <2>1, <2>2, <2>3, <2>4
    DEF ReleaseNext, WrapperStep, CheckMode, RunLint, Preflight, allVars
<1>3. ReplayInv => StrictReplayExecuted
  BY DEF ReplayInv
<1> QED
  BY <1>1, <1>2, <1>3, InitialTypes, ReleaseKeepsTypes, PTL DEF ReleaseSafety

-----------------------------------------------------------------------------
(* What is listed and what is run.                                         *)

Covered(S) == \A c \in S : \/ c \in ran
                           \/ c \in DOMAIN PreservedFrom
                           \/ sick.check = c /\ ~ sick.fixture

LEMMA RecordCovers ==
  ASSUME NEW f, NEW selected, Record(f, selected), UNCHANGED sick, NEW S,
         \/ Covered(S)
         \/ \A c \in S : c \in selected \/ c \in DOMAIN PreservedFrom
  PROVE  Covered(S)'
BY DEF Record, Covered

LEMMA LaterIsLater ==
  ASSUME NEW t \in Seq(Nat), t = NoTarget \/ TargetAtLeast(t, <<12, 0>>),
         NEW floor, NumericVersion(floor)[1] \in Int,
         NumericVersion(floor)[1] < 12
  PROVE  TargetAtLeast(t, floor)
<1>1. CASE t = NoTarget
  BY <1>1 DEF TargetAtLeast
<1>2. CASE t # NoTarget
  <2> DEFINE v == NumericVersion(t)
             w == NumericVersion(<<12, 0>>)
  <2>1. w = <<12, 0, 0>>
    BY DEF NumericVersion
  <2>2. \/ v = w
        \/ \E i \in 1 .. 3 : v[i] > w[i] /\ \A j \in 1 .. (i - 1) : v[j] = w[j]
    BY <1>2 DEF TargetAtLeast
  <2>3. v[1] \in Int
    <3>1. CASE Len(t) = 2
      BY <3>1 DEF NumericVersion
    <3>2. CASE Len(t) = 3
      BY <3>2 DEF NumericVersion
    <3>3. CASE Len(t) \notin {2, 3}
      BY <3>3 DEF NumericVersion
    <3> QED
      BY <3>1, <3>2, <3>3
  <2>4. v[1] >= 12
    BY <2>1, <2>2, <2>3
  <2>5. v[1] > NumericVersion(floor)[1] /\ \A j \in 1 .. 0 : v[j] = NumericVersion(floor)[j]
    BY <2>3, <2>4
  <2> QED
    BY <2>5 DEF TargetAtLeast
<1> QED
  BY <1>1, <1>2

LEMMA FloorsAreOld ==
  \A floor \in {Always, <<9, 3>>, <<9, 4>>, <<9, 5>>, <<10, 0>>, <<10, 2>>,
                <<10, 3>>, <<10, 4>>, <<10, 5>>, <<11, 1>>, <<11, 2>>,
                <<11, 3>>, <<11, 4>>, <<11, 5>>, <<11, 6, 0>>} :
    NumericVersion(floor)[1] \in Int /\ NumericVersion(floor)[1] < 12
BY DEF NumericVersion, Always

LEMMA CurrentRunsAll ==
  ASSUME GateTypes, CurrentTarget
  PROVE  /\ \A floor \in {Always, <<9, 3>>, <<9, 4>>, <<9, 5>>, <<10, 0>>,
                          <<10, 2>>, <<10, 3>>, <<10, 4>>, <<10, 5>>, <<11, 1>>,
                          <<11, 2>>, <<11, 3>>, <<11, 4>>, <<11, 5>>,
                          <<11, 6, 0>>} :
              TargetAtLeast(request.target, floor)
         /\ Exclusions(request.target) \subseteq V12_CHECKS
BY LaterIsLater, FloorsAreOld, LateExclusions DEF GateTypes, CurrentTarget

LEMMA DomainOfBoth == \A f, g : DOMAIN (f ++ g) = DOMAIN f \cup DOMAIN g
BY DEF ++

LEMMA NamesOfBoth ==
  /\ \A a, c : c \in DOMAIN Accepting(a) <=> c \in a
  /\ \A a, b, c : c \in DOMAIN (Accepting(a) ++ Rejecting(b)) <=> c \in a \/ c \in b
<1>1. \A a : DOMAIN Accepting(a) = a
  BY DEF Accepting
<1>2. \A a : DOMAIN Rejecting(a) = a
  BY DEF Rejecting
<1>3. ASSUME NEW a, NEW b, NEW c
      PROVE  c \in DOMAIN (Accepting(a) ++ Rejecting(b)) <=> c \in a \/ c \in b
  <2>1. DOMAIN (Accepting(a) ++ Rejecting(b)) = DOMAIN Accepting(a) \cup DOMAIN Rejecting(b)
    BY DomainOfBoth
  <2> QED
    BY <1>1, <1>2, <2>1
<1> QED
  BY <1>1, <1>3

LEMMA NamesOfReporting ==
  \A a, b, c : c \in DOMAIN (Accepting(a) ++ Reporting(b)) <=> c \in a \/ c \in b
<1>1. \A a : DOMAIN Accepting(a) = a
  BY DEF Accepting
<1>2. \A a : DOMAIN Reporting(a) = a
  BY DEF Reporting
<1>3. ASSUME NEW a, NEW b, NEW c
      PROVE  c \in DOMAIN (Accepting(a) ++ Reporting(b)) <=> c \in a \/ c \in b
  <2>1. DOMAIN (Accepting(a) ++ Reporting(b)) = DOMAIN Accepting(a) \cup DOMAIN Reporting(b)
    BY DomainOfBoth
  <2> QED
    BY <1>1, <1>2, <2>1
<1> QED
  BY <1>3

\* The v12 gates have names of their own.
LEMMA OlderTables ==
  ASSUME NEW c \in V12_CHECKS
  PROVE  /\ c \notin DOMAIN MERKLE_BATCH_CHECKS
         /\ c \notin DOMAIN DOCUMENT_ATTESTATION_CHECKS
         /\ c \notin DOMAIN PROCESS_ATTESTATION_CHECKS
         /\ c \notin DOMAIN EXECUTION_PROFILE_CHECKS
         /\ c \notin DOMAIN V103_CHECK_MAP /\ c \notin DOMAIN V102_CHECK_MAP
         /\ c \notin DOMAIN V104_CHECK_MAP /\ c \notin DOMAIN V105_CHECK_MAP
         /\ c \notin V10_CHECKS
<1> USE NamesOfBoth DEF V12_CHECKS
<1>1. c \notin DOMAIN MERKLE_BATCH_CHECKS
  BY DEF MERKLE_BATCH_CHECKS
<1>2. c \notin DOMAIN DOCUMENT_ATTESTATION_CHECKS
  BY DEF DOCUMENT_ATTESTATION_CHECKS
<1>3. c \notin DOMAIN PROCESS_ATTESTATION_CHECKS
  BY DEF PROCESS_ATTESTATION_CHECKS
<1>4. c \notin DOMAIN EXECUTION_PROFILE_CHECKS
  BY DEF EXECUTION_PROFILE_CHECKS
<1>5. c \notin DOMAIN V103_CHECK_MAP
  BY DEF V103_CHECK_MAP
<1>6. c \notin DOMAIN V102_CHECK_MAP
  BY DEF V102_CHECK_MAP
<1>7. c \notin DOMAIN V104_CHECK_MAP
  BY DEF V104_CHECK_MAP
<1>8. c \notin DOMAIN V105_CHECK_MAP
  BY DEF V105_CHECK_MAP
<1>9. c \notin V10_CHECKS
  BY DEF V10_CHECKS, V10_NATIVE_CHECKS
<1> QED
  BY <1>1, <1>2, <1>3, <1>4, <1>5, <1>6, <1>7, <1>8, <1>9

\* A loop whose floor is old and that skips nothing runs its whole table.
LEMMA LoopRunsAll ==
  ASSUME NEW l, TargetAtLeast(request.target, l.floor),
         ~ l.skips \/ DOMAIN l.table \cap Exclusions(request.target) = {}
  PROVE  LoopRuns(l) = DOMAIN l.table
BY DEF LoopRuns, Skipped

LEMMA FirstLoopsRun ==
  ASSUME GateTypes, CurrentTarget, NEW i \in 1 .. 7
  PROVE  DOMAIN FirstLoops[i].table \subseteq LoopsRun(FirstLoops)
<1>1. /\ FirstLoops[i].floor \in {Always, <<9, 3>>, <<11, 1>>}
      /\ ~ FirstLoops[i].skips \/ FirstLoops[i].table = MERKLE_BATCH_CHECKS
      /\ DOMAIN FirstLoops = 1 .. 7
  BY DEF FirstLoops, Loop
<1>2. DOMAIN MERKLE_BATCH_CHECKS \cap Exclusions(request.target) = {}
  BY CurrentRunsAll, OlderTables
<1> QED
  BY <1>1, <1>2, CurrentRunsAll, LoopRunsAll DEF LoopsRun

LEMMA SecondLoopsRun ==
  ASSUME GateTypes, CurrentTarget, NEW i \in 1 .. 5
  PROVE  DOMAIN SecondLoops[i].table \subseteq LoopsRun(SecondLoops)
<1>1. /\ SecondLoops[i].floor \in {Always, <<9, 4>>, <<9, 5>>, <<10, 3>>, <<11, 1>>}
      /\ \/ ~ SecondLoops[i].skips
         \/ SecondLoops[i].table \in
              {DOCUMENT_ATTESTATION_CHECKS, PROCESS_ATTESTATION_CHECKS,
               EXECUTION_PROFILE_CHECKS, V103_CHECK_MAP}
      /\ DOMAIN SecondLoops = 1 .. 5
  BY DEF SecondLoops, Loop
<1>2. \A t \in {DOCUMENT_ATTESTATION_CHECKS, PROCESS_ATTESTATION_CHECKS,
                EXECUTION_PROFILE_CHECKS, V103_CHECK_MAP} :
        DOMAIN t \cap Exclusions(request.target) = {}
  BY CurrentRunsAll, OlderTables
<1> QED
  BY <1>1, <1>2, CurrentRunsAll, LoopRunsAll DEF LoopsRun

LEMMA ThirdLoopsRun ==
  ASSUME GateTypes, CurrentTarget, NEW i \in 1 .. 3
  PROVE  DOMAIN ThirdLoops[i].table \subseteq LoopsRun(ThirdLoops)
<1>1. /\ ThirdLoops[i].floor \in {<<10, 2>>, <<10, 4>>, <<10, 5>>}
      /\ ThirdLoops[i].table \in {V102_CHECK_MAP, V104_CHECK_MAP, V105_CHECK_MAP}
      /\ DOMAIN ThirdLoops = 1 .. 3
  BY DEF ThirdLoops, Loop
<1>2. \A t \in {V102_CHECK_MAP, V104_CHECK_MAP, V105_CHECK_MAP} :
        DOMAIN t \cap Exclusions(request.target) = {}
  BY CurrentRunsAll, OlderTables
<1> QED
  BY <1>1, <1>2, CurrentRunsAll, LoopRunsAll DEF LoopsRun

LEMMA ManifestsRun ==
  ASSUME GateTypes, CurrentTarget, NEW c \in DOMAIN FROZEN_RELEASE_MANIFEST_CHECKS,
         c \notin DOMAIN PreservedFrom
  PROVE  c \in ManifestRuns
<1>1. c \in DOMAIN PendingBefore =>
        PendingBefore[c] \in {<<11, 2>>, <<11, 3>>, <<11, 4>>, <<11, 5>>, <<11, 6, 0>>}
  BY DEF PendingBefore
<1> QED
  BY <1>1, CurrentRunsAll DEF ManifestRuns, Preserved

LEMMA NativesRun ==
  ASSUME GateTypes, CurrentTarget
  PROVE  V10_CHECKS \subseteq NativeRuns
<1>1. \A c \in V10_CHECKS : V10_NATIVE_FLOORS[c] \in {<<10, 0>>, <<10, 2>>, <<10, 3>>}
  BY DEF V10_NATIVE_FLOORS
<1>2. V10_CHECKS \cap Exclusions(request.target) = {}
  BY CurrentRunsAll, OlderTables
<1> QED
  BY <1>1, <1>2, CurrentRunsAll DEF NativeRuns

\* The names of the catalog, by the step of verify() that runs them.
NamesOf(loops) == UNION {DOMAIN loops[i].table : i \in DOMAIN loops}

LEMMA CatalogIsOfTheSteps ==
  ASSUME NEW g \in DOMAIN CatalogGroupChecks, NEW c \in CatalogGroupChecks[g]
  PROVE  c \in ToolingCommands \cup BRIDGES \cup NamesOf(FirstLoops)
               \cup DOMAIN FROZEN_RELEASE_MANIFEST_CHECKS
               \cup NamesOf(SecondLoops) \cup V10_CHECKS
               \cup NamesOf(ThirdLoops) \cup Replays
<1> DEFINE unlisted == {"protocol_model_domain_vocabulary_validation",
                   "protocol_model_command_candidate_validation",
                   "protocol_model_command_candidate_compilation",
                   "protocol_model_preintegration_package",
                   "protocol_model_preintegration_readiness"}
           first ==
        {DEVELOPMENT_AUDIT_CHECKS, STATE_WATCHER_CHECKS,
         PRIVATE_DOMAIN_CANDIDATE_CHECKS, CLASSIFICATION_CANDIDATE_CHECKS,
         PARAMETRIC_TEMPLATE_CHECKS, BOUNDED_REFERENCE_INDEX_CHECKS,
         HUMAN_APPROVED_EXECUTION_GATE_CHECKS,
         EXPERT_CONFLICT_PRE_RESOLUTION_CHECKS, AGENT_SESSION_CHECKS,
         AGENT_PLAN_CHECKS, TOOL_INVOCATION_CHECKS,
         AGENT_DECISION_TRACE_CHECKS, DOWNSTREAM_BRIDGE_ADAPTER_CHECKS,
         AGENT_BOUNDARY_FREEZE_CHECKS, ANCHORING_SUBMISSION_CHECKS,
         CHAIN_ADAPTER_CHECKS, MERKLE_BATCH_CHECKS, FROZEN_RULE_ANCHOR_CHECKS}
           second ==
        {EXECUTABLE_CONTRACT_CHECKS, DOCUMENT_ATTESTATION_CHECKS,
         PROCESS_ATTESTATION_CHECKS, EXECUTION_PROFILE_CHECKS, V103_CHECK_MAP}
           third == {V102_CHECK_MAP, V104_CHECK_MAP, V105_CHECK_MAP}
<1>1. \/ c \in ToolingCommands \cup BRIDGES \cup DOMAIN REPORT_CHECKS \cup Replays
      \/ \E t \in first \cup second \cup third
               \cup {FROZEN_RELEASE_MANIFEST_CHECKS, V10_NATIVE_CHECKS} :
           c \in DOMAIN t
  BY DEF CatalogGroupChecks, ToolingCommands
<1>2. DOMAIN REPORT_CHECKS \subseteq NamesOf(FirstLoops)
  BY DEF NamesOf, FirstLoops, Loop
<1>3. \A t \in first : DOMAIN t \subseteq NamesOf(FirstLoops)
  <2>1. DOMAIN FirstLoops = 1 .. 7
    BY DEF FirstLoops
  <2>2. /\ FirstLoops[2].table = DEVELOPMENT_AUDIT_CHECKS
        /\ FirstLoops[3].table =
             STATE_WATCHER_CHECKS ++ PRIVATE_DOMAIN_CANDIDATE_CHECKS ++
             CLASSIFICATION_CANDIDATE_CHECKS ++ PARAMETRIC_TEMPLATE_CHECKS ++
             BOUNDED_REFERENCE_INDEX_CHECKS ++
             HUMAN_APPROVED_EXECUTION_GATE_CHECKS ++
             EXPERT_CONFLICT_PRE_RESOLUTION_CHECKS ++ AGENT_SESSION_CHECKS ++
             AGENT_PLAN_CHECKS ++ TOOL_INVOCATION_CHECKS ++
             AGENT_DECISION_TRACE_CHECKS ++ DOWNSTREAM_BRIDGE_ADAPTER_CHECKS
        /\ FirstLoops[4].table = AGENT_BOUNDARY_FREEZE_CHECKS
        /\ FirstLoops[5].table = ANCHORING_SUBMISSION_CHECKS ++ CHAIN_ADAPTER_CHECKS
        /\ FirstLoops[6].table = MERKLE_BATCH_CHECKS
        /\ FirstLoops[7].table = FROZEN_RULE_ANCHOR_CHECKS
    BY DEF FirstLoops, Loop
  <2>3. \A i \in 1 .. 7 : DOMAIN FirstLoops[i].table \subseteq NamesOf(FirstLoops)
    BY <2>1 DEF NamesOf
  <2>4. \A s, t : DOMAIN s \subseteq DOMAIN (s ++ t) /\ DOMAIN t \subseteq DOMAIN (s ++ t)
    BY DomainOfBoth
  <2>5. \A t \in {STATE_WATCHER_CHECKS, PRIVATE_DOMAIN_CANDIDATE_CHECKS,
           CLASSIFICATION_CANDIDATE_CHECKS, PARAMETRIC_TEMPLATE_CHECKS,
           BOUNDED_REFERENCE_INDEX_CHECKS, HUMAN_APPROVED_EXECUTION_GATE_CHECKS,
           EXPERT_CONFLICT_PRE_RESOLUTION_CHECKS, AGENT_SESSION_CHECKS,
           AGENT_PLAN_CHECKS, TOOL_INVOCATION_CHECKS,
           AGENT_DECISION_TRACE_CHECKS, DOWNSTREAM_BRIDGE_ADAPTER_CHECKS} :
          DOMAIN t \subseteq DOMAIN FirstLoops[3].table
    BY <2>2, <2>4
  <2>6. \A t \in {ANCHORING_SUBMISSION_CHECKS, CHAIN_ADAPTER_CHECKS} :
          DOMAIN t \subseteq DOMAIN FirstLoops[5].table
    BY <2>2, <2>4
  <2> QED
    BY <2>2, <2>3, <2>5, <2>6
<1>4. \A t \in second : DOMAIN t \subseteq NamesOf(SecondLoops)
  BY DEF NamesOf, SecondLoops, Loop
<1>5. \A t \in third : DOMAIN t \subseteq NamesOf(ThirdLoops)
  BY DEF NamesOf, ThirdLoops, Loop
<1>6. DOMAIN V10_NATIVE_CHECKS = V10_CHECKS
  BY DEF V10_CHECKS
<1> HIDE DEF first, second, third
<1> QED
  BY <1>1, <1>2, <1>3, <1>4, <1>5, <1>6

\* What a full gate of the current line has run when it is where it is.
Ahead == [tooling |-> {"idle", "answered", "tooling"},
          bridges |-> {"idle", "answered", "tooling", "bridges"},
          loops |-> {"idle", "answered", "tooling", "bridges", "loops"},
          manifests |-> {"idle", "answered", "tooling", "bridges", "loops",
                         "manifests"},
          attestations |-> {"idle", "answered", "tooling", "bridges", "loops",
                            "manifests", "attestations"},
          v10 |-> {"idle", "answered", "tooling", "bridges", "loops",
                   "manifests", "attestations", "v10"},
          v102 |-> {"idle", "answered", "tooling", "bridges", "loops",
                    "manifests", "attestations", "v10", "v102"}]

RanSoFar ==
  /\ phase \notin Ahead.tooling => Covered(ToolingCommands)
  /\ phase \notin Ahead.bridges => Covered(BRIDGES)
  /\ phase \notin Ahead.loops => Covered(NamesOf(FirstLoops))
  /\ phase \notin Ahead.manifests => Covered(DOMAIN FROZEN_RELEASE_MANIFEST_CHECKS)
  /\ phase \notin Ahead.attestations => Covered(NamesOf(SecondLoops))
  /\ phase \notin Ahead.v10 => Covered(V10_CHECKS)
  /\ phase \notin Ahead.v102 => Covered(NamesOf(ThirdLoops))
  /\ phase \in {"tests", "verdict"} => Covered(Replays)

RanInv == /\ request.group = "none" /\ CurrentTarget => RanSoFar
          /\ ListedChecksRun

\* At the verdict of a full gate, everything that is listed was run.
LEMMA VerdictHasRunAll ==
  ASSUME RanSoFar, phase = "verdict", ran' = ran, sick' = sick,
         NEW g \in DOMAIN CatalogGroupChecks, NEW c \in CatalogGroupChecks[g]
  PROVE  \/ c \in ran' \/ c \in DOMAIN PreservedFrom
         \/ sick'.check = c /\ ~ sick'.fixture
BY CatalogIsOfTheSteps DEF RanSoFar, Ahead, Covered

LEMMA GateRunsOn ==
  ASSUME GateTypes, PhaseInv, RanInv, GateStep,
         request.group = "none", CurrentTarget
  PROVE  RanSoFar'
<1>1. UNCHANGED <<request, sick>>
  BY DEF GateStep, Crash, RunTooling, RunBridges, RunFirstLoops, RunManifests,
         RunSecondLoops, RunV10, RunThirdLoops, RecordV12, RunAudit,
         RunRouterAudit, RunReplay, RunSubgroup, EndSuite, Verdict, Stay
<1>2. RanSoFar
  BY DEF RanInv
<1>3. ASSUME NEW f, NEW selected, Record(f, selected)
      PROVE  \A S : Covered(S) => Covered(S)'
  BY <1>1, <1>3, RecordCovers
<1>4. CASE Crash \/ Verdict
  <2>1. phase' = "answered"
    BY <1>4 DEF Crash, Verdict, Answer, AnswerFailed
  <2> QED
    BY <2>1 DEF RanSoFar, Ahead
<1>5. CASE RunTooling
  <2>1. PICK f : Record(f, ToolingCommands)
    BY <1>5 DEF RunTooling
  <2>2. Covered(ToolingCommands)'
    BY <1>1, <2>1, RecordCovers
  <2>3. phase' \in {"bridges", "answered"}
    BY <1>5 DEF RunTooling, AnswerFailed, Answer
  <2> QED
    BY <2>2, <2>3 DEF RanSoFar, Ahead
<1>6. CASE RunBridges
  <2>1. PICK f : Record(f, BRIDGES)
    BY <1>6 DEF RunBridges
  <2>2. Covered(BRIDGES)'
    BY <1>1, <2>1, RecordCovers
  <2>3. phase = "bridges" /\ phase' = "loops"
    BY <1>6 DEF RunBridges
  <2> QED
    BY <1>2, <1>3, <2>1, <2>2, <2>3 DEF RanSoFar, Ahead
<1>7. CASE RunFirstLoops
  <2>1. PICK f : Record(f, LoopsRun(FirstLoops))
    BY <1>7 DEF RunFirstLoops
  <2>2. NamesOf(FirstLoops) \subseteq LoopsRun(FirstLoops)
    <3>1. DOMAIN FirstLoops = 1 .. 7
      BY DEF FirstLoops
    <3> QED
      BY <3>1, FirstLoopsRun DEF NamesOf
  <2>3. Covered(NamesOf(FirstLoops))'
    BY <1>1, <2>1, <2>2, RecordCovers
  <2>4. phase = "loops" /\ phase' = "manifests"
    BY <1>7 DEF RunFirstLoops
  <2> QED
    BY <1>2, <1>3, <2>1, <2>3, <2>4 DEF RanSoFar, Ahead
<1>8. CASE RunManifests
  <2>1. PICK f : Record(f, ManifestRuns)
    BY <1>8 DEF RunManifests
  <2>2. Covered(DOMAIN FROZEN_RELEASE_MANIFEST_CHECKS)'
    BY <1>1, <2>1, ManifestsRun, RecordCovers
  <2>3. phase = "manifests" /\ phase' = "attestations"
    BY <1>8 DEF RunManifests
  <2> QED
    BY <1>2, <1>3, <2>1, <2>2, <2>3 DEF RanSoFar, Ahead
<1>9. CASE RunSecondLoops
  <2>1. PICK f : Record(f, LoopsRun(SecondLoops))
    BY <1>9 DEF RunSecondLoops
  <2>2. NamesOf(SecondLoops) \subseteq LoopsRun(SecondLoops)
    <3>1. DOMAIN SecondLoops = 1 .. 5
      BY DEF SecondLoops
    <3> QED
      BY <3>1, SecondLoopsRun DEF NamesOf
  <2>3. Covered(NamesOf(SecondLoops))'
    BY <1>1, <2>1, <2>2, RecordCovers
  <2>4. phase = "attestations" /\ phase' = "v10"
    BY <1>9 DEF RunSecondLoops
  <2> QED
    BY <1>2, <1>3, <2>1, <2>3, <2>4 DEF RanSoFar, Ahead
<1>10. CASE RunV10
  <2>1. PICK f : Record(f, NativeRuns)
    BY <1>10 DEF RunV10
  <2>2. Covered(V10_CHECKS)'
    BY <1>1, <2>1, NativesRun, RecordCovers
  <2>3. phase = "v10" /\ phase' = "v102"
    BY <1>10 DEF RunV10
  <2> QED
    BY <1>2, <1>3, <2>1, <2>2, <2>3 DEF RanSoFar, Ahead
<1>11. CASE RunThirdLoops
  <2>1. PICK f : Record(f, LoopsRun(ThirdLoops))
    BY <1>11 DEF RunThirdLoops
  <2>2. NamesOf(ThirdLoops) \subseteq LoopsRun(ThirdLoops)
    <3>1. DOMAIN ThirdLoops = 1 .. 3
      BY DEF ThirdLoops
    <3> QED
      BY <3>1, ThirdLoopsRun DEF NamesOf
  <2>3. Covered(NamesOf(ThirdLoops))'
    BY <1>1, <2>1, <2>2, RecordCovers
  <2>4. phase = "v102" /\ phase' = "v12"
    BY <1>11 DEF RunThirdLoops
  <2> QED
    BY <1>2, <1>3, <2>1, <2>3, <2>4 DEF RanSoFar, Ahead
<1>12. CASE RecordV12 \/ RunAudit \/ RunRouterAudit
  <2>1. PICK f, selected : Record(f, selected)
    BY <1>12 DEF RecordV12, RunAudit, RunRouterAudit
  <2>2. /\ phase \in {"v12", "audit", "router_audit"}
        /\ phase' \in {"audit", "router_audit", "replay", "answered"}
    BY <1>12 DEF RecordV12, RunAudit, RunRouterAudit, AnswerFailed, Answer
  <2> QED
    BY <1>2, <1>3, <2>1, <2>2 DEF RanSoFar, Ahead
<1>13. CASE RunReplay
  <2>1. Record(ReplayStatus, Replays) /\ phase = "replay" /\ phase' = "tests"
    BY <1>13 DEF RunReplay
  <2>2. Covered(Replays)'
    BY <1>1, <2>1, RecordCovers
  <2> QED
    BY <1>2, <1>3, <2>1, <2>2 DEF RanSoFar, Ahead
<1>14. CASE RunSubgroup
  BY <1>1, <1>2, <1>14 DEF RunSubgroup, RanSoFar, Ahead, Covered
<1>15. CASE EndSuite
  <2>1. PICK f, selected : Record(f, selected)
    BY <1>15 DEF EndSuite
  <2>2. phase = "tests" /\ phase' \in {"verdict", "answered"}
    BY <1>15 DEF EndSuite, Answer
  <2> QED
    BY <1>2, <1>3, <2>1, <2>2 DEF RanSoFar, Ahead
<1> QED
  BY <1>4, <1>5, <1>6, <1>7, <1>8, <1>9, <1>10, <1>11, <1>12, <1>13, <1>14,
     <1>15 DEF GateStep

LEMMA GateAnswersHavingRunAll ==
  ASSUME GateTypes, PhaseInv, RanInv, GateStep
  PROVE  ListedChecksRun'
<1>1. UNCHANGED <<request, sick>>
  BY DEF GateStep, Crash, RunTooling, RunBridges, RunFirstLoops, RunManifests,
         RunSecondLoops, RunV10, RunThirdLoops, RecordV12, RunAudit,
         RunRouterAudit, RunReplay, RunSubgroup, EndSuite, Verdict, Stay
<1> SUFFICES ASSUME phase' = "answered", request.group = "none", CurrentTarget,
                    payload'.status # "crashed"
             PROVE  \A c \in UNION {CatalogGroupChecks[g] :
                                      g \in DOMAIN CatalogGroupChecks} :
                      \/ c \in ran' \/ c \in DOMAIN PreservedFrom
                      \/ sick'.check = c /\ ~ sick'.fixture
  BY <1>1 DEF ListedChecksRun, Answered, FullGate, CurrentTarget
<1>2. Verdict
  BY DEF GateStep, Crash, RunTooling, RunBridges, RunFirstLoops, RunManifests,
         RunSecondLoops, RunV10, RunThirdLoops, RecordV12, RunAudit,
         RunRouterAudit, RunReplay, RunSubgroup, EndSuite, Answer
<1>3. ran' = ran /\ phase = "verdict" /\ RanSoFar
  BY <1>2 DEF Verdict, Record, RanInv
<1> QED
  BY <1>1, <1>3, VerdictHasRunAll

\* What --list-checks lists, a full gate of the current line executes, whatever
\* else it is asked and whichever command misbehaves.
THEOREM WhatIsListedRuns == ReleaseSafety => []ListedChecksRun
<1>1. ReleaseInit => RanInv
  BY DEF ReleaseInit, CheckInit, ShellInit, GateInit, RanInv, RanSoFar, Ahead,
         ListedChecksRun, Answered
<1>2. ASSUME TypesInv, RanInv, [ReleaseNext]_allVars
      PROVE  RanInv'
  <2>1. CASE GateMoves
    <3>1. request' = request
      BY <2>1 DEF GateMoves, GateStep, Crash, RunTooling, RunBridges,
         RunFirstLoops, RunManifests, RunSecondLoops, RunV10, RunThirdLoops,
         RecordV12, RunAudit, RunRouterAudit, RunReplay, RunSubgroup, EndSuite,
         Verdict, Stay
    <3> QED
      BY <1>2, <2>1, <3>1, GateRunsOn, GateAnswersHavingRunAll
      DEF GateMoves, TypesInv, RanInv, CurrentTarget
  <2>2. CASE LaunchGate \/ StartFromShell
    <3>1. PICK r : StartGate(r)
      BY <2>2 DEF LaunchGate, StartFromShell
    <3> QED
      BY <3>1, StartIsNoFullAnswer
      DEF RanInv, RanSoFar, Ahead, ListedChecksRun, Answered
  <2>3. CASE CollectGate \/ Timeout
    BY <2>3 DEF CollectGate, Timeout, GateEnded, RanInv, RanSoFar, Ahead,
                ListedChecksRun, Answered
  <2>4. CASE UNCHANGED gateVars
    BY <1>2, <2>4 DEF gateVars, RanInv, RanSoFar, Covered, ListedChecksRun,
                      Answered, FullGate, CurrentTarget
  <2> QED
    BY <1>2, <2>1, <2>2, <2>3, <2>4
    DEF ReleaseNext, WrapperStep, CheckMode, RunLint, Preflight, allVars
<1>3. RanInv => ListedChecksRun
  BY DEF RanInv
<1> QED
  BY <1>1, <1>2, <1>3, InitialTypes, ReleaseKeepsTypes, PTL DEF ReleaseSafety

-----------------------------------------------------------------------------
(* The runs of a profile.                                                  *)

\* pytest goes wrong in the group g.
Sickly(g) == /\ sick.check = "pytest" /\ sick.first # "passes"
             /\ g = TestGroup(sick.file)

OneGroup == request.group \in {TestGroups[i] : i \in DOMAIN TestGroups}

SuiteInv ==
  /\ phase = "tests" /\ OneGroup =>
       \/ suite.todo = << request.group >>
       \/ suite.todo = <<>> /\ (suite.exit = 0 => ~ Sickly(request.group))
  /\ phase = "answered" /\ OneGroup /\ ~ request.list /\ ~ request.plan
     /\ payload.exit = 0 => ~ Sickly(request.group)

LEMMA SingleGroups ==
  ASSUME OneGroup
  PROVE  /\ request.group \notin VerifyGroups \cup {"replay", "tests", "tests-full"}
         /\ request.group \in Groups
BY DEF OneGroup, TestGroups, VerifyGroups, Groups

LEMMA PassIsHealthy ==
  ASSUME GateTypes, NEW g, SubgroupCapture(g).status = "pass"
  PROVE  ~ Sickly(g)
<1> SUFFICES ASSUME Sickly(g) PROVE FALSE
  OBVIOUS
<1>1. SubgroupCapture(g) = Captures[sick.first]
  BY DEF Sickly, SubgroupCapture
<1>2. sick.first \in DOMAIN Captures
  BY SicknessAssumption DEF GateTypes, Sickly
<1>3. sick.first # "passes"
  BY DEF Sickly
<1> QED
  BY <1>1, <1>2, <1>3 DEF Captures

LEMMA GateKeepsSuite ==
  ASSUME GateTypes, PhaseInv, SuiteInv, GateStep
  PROVE  SuiteInv'
<1>1. UNCHANGED <<request, sick>>
  BY DEF GateStep, Crash, RunTooling, RunBridges, RunFirstLoops, RunManifests,
         RunSecondLoops, RunV10, RunThirdLoops, RecordV12, RunAudit,
         RunRouterAudit, RunReplay, RunSubgroup, EndSuite, Verdict, Stay
<1>2. CASE ~ OneGroup
  BY <1>1, <1>2 DEF SuiteInv, OneGroup
<1>3. CASE OneGroup
  <2>1. phase \in {"tests", "v12", "tooling", "replay"} => phase = "tests"
    BY <1>3, SingleGroups DEF PhaseInv, VerifyGroups
  <2>2. RunSubgroup \/ EndSuite
    BY <1>3, SingleGroups
    DEF PhaseInv, VerifyGroups, GateStep, Crash, RunTooling, RunBridges,
        RunFirstLoops, RunManifests, RunSecondLoops, RunV10, RunThirdLoops,
        RecordV12, RunAudit, RunRouterAudit, RunReplay, Verdict
  <2>3. CASE RunSubgroup
    <3>1. PICK capture : capture = SubgroupCapture(request.group)
      OBVIOUS
    <3>2. /\ suite.todo = << request.group >> /\ phase = "tests" /\ phase' = phase
      BY <1>3, <2>3 DEF RunSubgroup, SuiteInv
    <3>3. suite' = CASE capture.status = "pass" ->
                        [suite EXCEPT !.todo = Tail(@)]
                   [] capture.status = "error" ->
                        [todo |-> <<>>, status |-> "failed", exit |-> 1,
                         blocked |-> capture.blocked]
                   [] capture.status = "blocked" ->
                        [todo |-> <<>>, status |-> "blocked", exit |-> 2,
                         blocked |-> capture.blocked]
                   [] capture.status = "internal_error" ->
                        [todo |-> <<>>, status |-> "failed", exit |-> 3,
                         blocked |-> capture.blocked]
      <4>1. Head(suite.todo) = request.group
        BY <3>2
      <4> QED
        BY <2>3, <3>1, <4>1 DEF RunSubgroup
    <3>4. /\ capture.status \in {"pass", "error", "blocked", "internal_error"}
      <4>1. SubgroupCapture(request.group) \in
              {Captures.passes, Captures.fails, Captures.collect,
               Captures.timeout, Captures.not_run, Captures.exit_code}
        BY SicknessAssumption DEF SubgroupCapture, Captures, GateTypes
      <4> QED
        BY <3>1, <4>1, CaptureKinds
    <3>5. CASE capture.status = "pass"
      <4>1. suite'.todo = <<>>
        BY <3>2, <3>3, <3>5 DEF GateTypes, Suites
      <4>2. ~ Sickly(request.group)
        BY <3>1, <3>5, PassIsHealthy
      <4> QED
        BY <1>1, <3>2, <4>1, <4>2 DEF SuiteInv, Sickly, OneGroup
    <3>6. CASE capture.status # "pass"
      <4>1. suite'.todo = <<>> /\ suite'.exit # 0
        BY <3>3, <3>4, <3>6
      <4> QED
        BY <1>1, <3>2, <4>1 DEF SuiteInv, OneGroup
    <3> QED
      BY <3>5, <3>6
  <2>4. CASE EndSuite
    <3>1. /\ phase = "tests" /\ suite.todo = <<>>
          /\ phase' = "answered" /\ payload'.exit = suite.exit
      BY <1>3, <2>4, SingleGroups DEF EndSuite, Answer, VerifyGroups
    <3>2. suite.exit = 0 => ~ Sickly(request.group)
      BY <1>3, <3>1 DEF SuiteInv
    <3> QED
      BY <1>1, <3>1, <3>2 DEF SuiteInv, Sickly, OneGroup
  <2> QED
    BY <2>2, <2>3, <2>4
<1> QED
  BY <1>2, <1>3

LEMMA StartKeepsSuite ==
  ASSUME NEW r, StartGate(r)
  PROVE  SuiteInv'
<1>1. request' = r /\ sick' = sick
  BY DEF StartGate
<1>2. phase' = "tests" /\ OneGroup' => suite'.todo = << request'.group >>
  <2> SUFFICES ASSUME phase' = "tests", OneGroup'
               PROVE  suite'.todo = << r.group >>
    BY <1>1
  <2>1. r.group \notin {"tests", "tests-full"}
    BY <1>1 DEF OneGroup, TestGroups
  <2>2. suite' = [NoSuite EXCEPT !.todo = AsTestGroup(r.group)]
    BY DEF StartGate, Answer
  <2> QED
    BY <2>1, <2>2, SuiteConstants DEF AsTestGroup
<1>3. phase' = "answered" /\ OneGroup' => request'.list \/ request'.plan
  <2> SUFFICES ASSUME phase' = "answered", OneGroup' PROVE r.list \/ r.plan
    BY <1>1
  <2>1. r.group \in Groups
    BY <1>1 DEF OneGroup, Groups
  <2> QED
    BY <2>1 DEF StartGate
<1> QED
  BY <1>2, <1>3 DEF SuiteInv

LEMMA ProfilesAreLists ==
  ASSUME NEW p \in DOMAIN RELEASE_CHECK_PROFILES
  PROVE  /\ RELEASE_CHECK_PROFILES[p] \in Seq(Groups)
         /\ RELEASE_CHECK_PROFILES[p] # <<>>
<1> DEFINE two == <<"tooling", "release-metadata">>
           three == <<"tooling", "release-metadata", "replay">>
<1>1. two \in Seq(Groups) /\ three \in Seq(Groups)
  BY DEF Groups, VerifyGroups
<1>2. Len(two) = 2 /\ Len(three) = 3 /\ Len(TestGroups) = 5
  BY DEF TestGroups
<1>3. TestsBelow(1) \in Seq(Groups) /\ TestsBelow(3) \in Seq(Groups)
  <2>1. \A n \in {1, 3} : n <= Len(TestGroups)
    BY <1>2
  <2> QED
    BY <2>1, SuiteConstants, SubSeqProperties, SMTT(30) DEF TestsBelow
<1>4. RELEASE_CHECK_PROFILES[p] \in {two \o TestsBelow(1), two \o TestsBelow(3),
                                     three \o TestGroups}
  <2>1. p \in {"fast", "local", "full", "candidate"}
    BY DEF RELEASE_CHECK_PROFILES
  <2>2. /\ RELEASE_CHECK_PROFILES.fast = two \o TestsBelow(1)
        /\ RELEASE_CHECK_PROFILES.local = two \o TestsBelow(3)
        /\ RELEASE_CHECK_PROFILES.full = three \o TestGroups
        /\ RELEASE_CHECK_PROFILES.candidate = three \o TestGroups
    BY DEF RELEASE_CHECK_PROFILES
  <2> HIDE DEF two, three
  <2> QED
    BY <2>1, <2>2
<1> HIDE DEF two, three
<1>5. \A s, t \in Seq(Groups) : s \o t \in Seq(Groups) /\ Len(s \o t) = Len(s) + Len(t)
  BY ConcatProperties
<1>6. \A s, t \in Seq(Groups) : Len(s) > 0 => s \o t \in Seq(Groups) /\ s \o t # <<>>
  BY <1>5
<1>7. \A s \in {two \o TestsBelow(1), two \o TestsBelow(3), three \o TestGroups} :
         s \in Seq(Groups) /\ s # <<>>
  <2>1. Len(two) > 0 /\ Len(three) > 0
    BY <1>2
  <2> QED
    BY <1>1, <1>3, <1>6, <2>1, SuiteConstants
<1> QED
  BY <1>4, <1>7

RunsProfile == args.profile # "none" /\ ~ args.plan /\ ~ args.list

ofProfile == RELEASE_CHECK_PROFILES[args.profile]

\* The first i runs of the profile were made, and nothing went wrong in them.
MadeWell(made) ==
  /\ Len(made) <= Len(ofProfile)
  /\ \A i \in 1 .. Len(made) :
       /\ made[i].group = ofProfile[i]
       /\ made[i].returncode = 0 /\ made[i].json
       /\ ~ Sickly(ofProfile[i])

Progress ==
  /\ groups \in Seq(Groups) /\ groups # <<>>
  /\ \E S : captures \in Seq(S)
  /\ MadeWell(captures)
  /\ Len(captures) + Len(groups) = Len(ofProfile)
  /\ \A j \in 1 .. Len(groups) : groups[j] = ofProfile[Len(captures) + j]

ProfileInv ==
  /\ stage = "shell" => args.profile = "none"
  /\ stage \notin {"shell", "gate"} => phase = "idle"
  /\ stage \in {"start", "lint", "preflight"} =>
       captures = <<>> /\ groups = <<>> /\ diagnostics \subseteq {"warning"}
  /\ stage \in {"lint", "preflight", "gate"} => ~ InvalidMode
  /\ stage # "done" => report = "none"
  /\ stage = "gate" /\ RunsProfile =>
       /\ Progress
       /\ phase # "idle" =>
            request.group = Head(groups) /\ ~ request.list /\ ~ request.plan
  /\ ProfilePassMeansAllRan

\* Every test file is of a test group, or ignored.
LEMMA FilesHaveTestGroups ==
  \A file : TestGroup(file) \notin VerifyGroups \cup {"replay", "tests", "tests-full"}
<1> TAKE file
<1> DEFINE fits == {i \in DOMAIN TestRules : TestRules[i][1] \cap file # {}}
           first == CHOOSE i \in fits : \A j \in fits : i <= j
<1>1. DOMAIN TestRules = 1 .. 6
  BY DEF TestRules
<1>2. \A i \in 1 .. 6 : TestRules[i][2] \in
        {"ignored", "tests-tooling", "tests-integration", "tests-replay",
         "tests-contracts"}
  BY DEF TestRules
<1>3. CASE fits = {}
  BY <1>3 DEF TestGroup, VerifyGroups
<1>4. CASE fits # {}
  <2>1. fits \subseteq Nat
    BY <1>1
  <2>2. \E i \in fits : \A j \in fits : i <= j
    BY <1>4, <2>1, LeastNumber
  <2>3. first \in 1 .. 6
    BY <1>1, <2>2
  <2>4. TestGroup(file) = TestRules[first][2]
    BY <1>4 DEF TestGroup
  <2> HIDE DEF first, fits
  <2> QED
    BY <1>2, <2>3, <2>4 DEF VerifyGroups
<1> QED
  BY <1>3, <1>4

LEMMA CapturePasses ==
  ASSUME NEW c, CaptureStatus(c) = "pass"
  PROVE  c.returncode = 0 /\ c.json /\ ~ c.timed_out
<1>1. CASE c.timed_out
  BY <1>1 DEF CaptureStatus
<1>2. CASE ~ c.timed_out
  BY <1>2 DEF CaptureStatus
<1> QED
  BY <1>1, <1>2

\* A list that was made well and to the end is what the property asks for.
LEMMA WholeProfile ==
  ASSUME NEW whole \in Seq(Groups), NEW S, NEW made \in Seq(S),
         Len(made) = Len(whole),
         \A i \in 1 .. Len(made) : /\ made[i].group = whole[i]
                                   /\ made[i].returncode = 0 /\ made[i].json
  PROVE  /\ [i \in DOMAIN made |-> made[i].group] = whole
         /\ \A i \in DOMAIN made : made[i].returncode = 0 /\ made[i].json
         /\ DOMAIN whole = 1 .. Len(made)
<1>1. DOMAIN made = 1 .. Len(made) /\ DOMAIN whole = 1 .. Len(whole)
  OBVIOUS
<1>2. [i \in DOMAIN made |-> made[i].group] = whole
  BY <1>1
<1> QED
  BY <1>1, <1>2

LEMMA CollectKeepsProfile ==
  ASSUME ProfileInv, TypesInv, stage = "gate", phase # "idle",
         NEW c, c.group = Head(groups), Collect(c), GateEnded,
         CaptureStatus(c) = "pass" /\ RunsProfile => ~ Sickly(Head(groups))
  PROVE  ProfileInv'
<1>1. CASE ~ RunsProfile
  BY <1>1 DEF Collect, GateEnded, Report, ProfileInv, RunsProfile, InvalidMode,
              ProfilePassMeansAllRan
<1>2. CASE RunsProfile /\ CaptureStatus(c) # "pass"
  <2>1. /\ report' = FinalStatus(diagnostics \cup {Severity(CaptureStatus(c))})
        /\ stage' = "done" /\ phase' = "idle" /\ args' = args
    BY <1>2 DEF Collect, Report, RunsProfile, GateEnded
  <2>2. report' \notin {"pass", "warning"}
    BY <1>2, <2>1, SeveritiesAreKnown DEF FinalStatus
  <2> QED
    BY <2>1, <2>2 DEF ProfileInv, ProfilePassMeansAllRan
<1>3. CASE RunsProfile /\ CaptureStatus(c) = "pass"
  <2>1. /\ captures' = Append(captures, c)
        /\ groups' = Tail(groups)
        /\ phase' = "idle"
        /\ IF Tail(groups) = <<>> THEN stage' = "done"
                                  ELSE stage' = stage /\ report' = report
        /\ UNCHANGED <<args, host, sick>>
    BY <1>3 DEF Collect, Report, RunsProfile, GateEnded
  <2>2. Progress
    BY <1>3 DEF ProfileInv
  <2>3. PICK S : captures \in Seq(S)
    BY <2>2 DEF Progress
  <2>4. /\ captures \in Seq(S \cup {c}) /\ c \in S \cup {c}
    BY <2>3, SeqMonotonic
  <2>5. /\ captures' \in Seq(S \cup {c})
        /\ Len(captures') = Len(captures) + 1
        /\ \A i \in 1 .. Len(captures) : captures'[i] = captures[i]
        /\ captures'[Len(captures) + 1] = c
    BY <2>1, <2>4, AppendProperties
  <2>6. /\ groups' \in Seq(Groups) /\ Len(groups') = Len(groups) - 1
        /\ \A j \in 1 .. Len(groups') : groups'[j] = groups[j + 1]
        /\ Len(groups) \in Nat \ {0} /\ Len(captures) \in Nat
        /\ Head(groups) = groups[1]
    BY <2>1, <2>2, <2>3, HeadTailProperties, EmptySeq DEF Progress
  <2>7. ofProfile' = ofProfile
    BY <2>1 DEF ofProfile
  <2>8. /\ c.group = ofProfile[Len(captures) + 1]
        /\ Len(captures) + 1 <= Len(ofProfile)
    <3>1. 1 \in 1 .. Len(groups)
      BY <2>6
    <3> QED
      BY <2>2, <2>6, <3>1 DEF Progress
  <2>9. c.returncode = 0 /\ c.json /\ ~ Sickly(ofProfile[Len(captures) + 1])
    BY <1>3, <2>8, CapturePasses
  <2>10. \A i \in 1 .. Len(captures') :
            /\ captures'[i].group = ofProfile[i]
            /\ captures'[i].returncode = 0 /\ captures'[i].json
            /\ ~ Sickly(ofProfile[i])
    <3>1. TAKE i \in 1 .. Len(captures')
    <3>2. CASE i \in 1 .. Len(captures)
      BY <2>2, <2>5, <3>2 DEF Progress, MadeWell
    <3>3. CASE i = Len(captures) + 1
      BY <2>5, <2>8, <2>9, <3>3
    <3> QED
      BY <2>5, <2>6, <3>2, <3>3
  <2>11. MadeWell(captures)'
    BY <2>1, <2>5, <2>7, <2>8, <2>10 DEF MadeWell, Sickly
  <2>12. Len(captures') + Len(groups') = Len(ofProfile')
    <3>1. Len(captures) + Len(groups) = Len(ofProfile)
      BY <2>2 DEF Progress
    <3>2. Len(captures') = Len(captures) + 1 /\ Len(groups') = Len(groups) - 1
      BY <2>5, <2>6
    <3>3. Len(captures) \in Nat /\ Len(groups) \in Nat
      BY <2>6
    <3>4. Len(captures') + Len(groups') = Len(ofProfile)
      BY <3>1, <3>2, <3>3
    <3> QED
      BY <2>7, <3>4
  <2>13. CASE Tail(groups) = <<>>
    <3>1. Len(captures') = Len(ofProfile')
      <4>1. Len(groups') = 0
        BY <2>1, <2>13
      <4>2. Len(captures') \in Nat
        BY <2>5, <2>6
      <4> QED
        BY <2>12, <4>1, <4>2
    <3>2. ofProfile \in Seq(Groups)
      BY <1>3, ProfilesAreLists DEF ProfileInv, InvalidMode, RunsProfile, ofProfile
    <3>3. /\ [i \in DOMAIN captures' |-> captures'[i].group] = ofProfile
          /\ \A i \in DOMAIN captures' :
               captures'[i].returncode = 0 /\ captures'[i].json
          /\ DOMAIN ofProfile = 1 .. Len(captures')
      BY <2>5, <2>7, <2>10, <3>1, <3>2, WholeProfile
    <3>4. ~ /\ sick.check = "pytest" /\ sick.first # "passes"
            /\ \E i \in DOMAIN ofProfile : ofProfile[i] = TestGroup(sick.file)
      BY <2>10, <3>3 DEF Sickly
    <3>5. ProfilePassMeansAllRan'
      BY <2>1, <2>7, <3>3, <3>4 DEF ProfilePassMeansAllRan, ofProfile
    <3> QED
      BY <2>1, <2>13, <3>5 DEF ProfileInv
  <2>14. CASE Tail(groups) # <<>>
    <3>1. \A j \in 1 .. Len(groups') : groups'[j] = ofProfile[Len(captures') + j]
      <4>1. TAKE j \in 1 .. Len(groups')
      <4>2. /\ j + 1 \in 1 .. Len(groups)
            /\ Len(captures') + j = Len(captures) + (j + 1)
        BY <2>5, <2>6
      <4> QED
        BY <2>2, <2>6, <4>2 DEF Progress
    <3>2. Progress'
      BY <2>1, <2>5, <2>6, <2>7, <2>11, <2>12, <2>14, <3>1 DEF Progress
    <3>3. ProfilePassMeansAllRan'
      BY <2>1, <2>14 DEF ProfileInv, ProfilePassMeansAllRan
    <3> QED
      BY <2>1, <2>14, <3>2, <3>3 DEF ProfileInv, RunsProfile, InvalidMode
  <2> QED
    BY <2>13, <2>14
<1> QED
  BY <1>1, <1>2, <1>3

LEMMA SameProfile ==
  ASSUME ProfilePassMeansAllRan, UNCHANGED <<args, report, captures, sick>>
  PROVE  ProfilePassMeansAllRan'
BY DEF ProfilePassMeansAllRan

LEMMA WrapperKeepsProfile ==
  ASSUME ProfileInv, SuiteInv, TypesInv, WrapperStep
  PROVE  ProfileInv'
<1>1. CASE CheckMode
  <2>1. /\ stage = "start" /\ UNCHANGED <<args, captures, groups, gateVars>>
        /\ \/ stage' = "done" /\ report' = "blocked"
           \/ /\ stage' \in {"lint", "preflight"} /\ ~ InvalidMode
              /\ report' = report /\ diagnostics' = diagnostics
    BY <1>1 DEF CheckMode, Report
  <2> QED
    BY <2>1 DEF ProfileInv, ProfilePassMeansAllRan, InvalidMode, gateVars
<1>2. CASE RunLint
  <2>1. /\ stage = "lint" /\ UNCHANGED <<args, captures, groups, gateVars>>
        /\ \/ /\ stage' = "done"
              /\ report' \in {"blocked", "error", "internal_error"}
           \/ /\ stage' = "preflight" /\ report' = report
              /\ diagnostics' \subseteq diagnostics \cup {"warning"}
    BY <1>2 DEF RunLint, Report, Diagnose
  <2> QED
    BY <2>1 DEF ProfileInv, ProfilePassMeansAllRan, InvalidMode, gateVars
<1>3. CASE Preflight
  <2>1. stage = "preflight" /\ UNCHANGED <<args, captures, gateVars>>
    BY <1>3 DEF Preflight
  <2>2. ~ InvalidMode /\ phase = "idle" /\ captures = <<>> /\ report = "none"
    BY <2>1 DEF ProfileInv
  <2>3. CASE stage' = "done"
    <3>1. report' = "blocked" \/ args.preflight_only
      BY <1>3, <2>1, <2>3 DEF Preflight, Report
    <3>2. report' = "blocked" \/ args.profile = "none"
      BY <2>2, <3>1 DEF InvalidMode
    <3> QED
      BY <2>1, <2>2, <2>3, <3>2 DEF ProfileInv, ProfilePassMeansAllRan, gateVars
  <2>4. CASE stage' # "done"
    <3>1. groups' = GroupsToRun /\ stage' = "gate" /\ UNCHANGED report
      BY <1>3, <2>4 DEF Preflight, Report
    <3>2. ASSUME RunsProfile
          PROVE  Progress'
      <4>1. /\ groups' = ofProfile /\ groups' \in Seq(Groups) /\ groups' # <<>>
        BY <2>2, <3>1, <3>2, ProfilesAreLists
        DEF RunsProfile, GroupsToRun, InvalidMode, ofProfile
      <4>2. ofProfile' = ofProfile /\ captures' = <<>>
        BY <2>1, <2>2 DEF ofProfile
      <4>3. captures' \in Seq({}) /\ Len(captures') = 0 /\ Len(ofProfile) \in Nat
        BY <4>1, <4>2
      <4>4. MadeWell(captures)'
        BY <4>2, <4>3 DEF MadeWell
      <4> QED
        BY <4>1, <4>2, <4>3, <4>4 DEF Progress
    <3>3. ProfilePassMeansAllRan'
      BY <2>2, <3>1 DEF ProfilePassMeansAllRan
    <3> QED
      BY <2>1, <2>2, <3>1, <3>2, <3>3
      DEF ProfileInv, InvalidMode, RunsProfile, gateVars
  <2> QED
    BY <2>3, <2>4
<1>4. CASE LaunchGate
  <2>1. PICK r : /\ StartGate(r) /\ r.group = Head(groups)
                 /\ r.list = args.list /\ r.plan = args.plan
    BY <1>4 DEF LaunchGate
  <2>2. request' = r /\ sick' = sick /\ stage = "gate" /\ UNCHANGED checkVars
    BY <1>4, <2>1 DEF LaunchGate, StartGate
  <2>3. ProfilePassMeansAllRan'
    BY <2>2, SameProfile DEF checkVars, ProfileInv
  <2> QED
    BY <2>1, <2>2, <2>3 DEF checkVars, ProfileInv, Progress, MadeWell, Sickly,
                           RunsProfile, InvalidMode, ofProfile
<1>5. CASE CollectGate
  <2>1. /\ stage = "gate" /\ phase = "answered" /\ GateEnded
        /\ Collect(Capture(Head(groups), FALSE, payload.exit,
                           payload.status # "crashed"))
    BY <1>5 DEF CollectGate
  <2>2. PICK c : /\ c = Capture(Head(groups), FALSE, payload.exit,
                                payload.status # "crashed")
                 /\ Collect(c)
    BY <2>1
  <2>3. c.group = Head(groups) /\ c.returncode = payload.exit
    BY <2>2 DEF Capture
  <2>4. ASSUME CaptureStatus(c) = "pass", RunsProfile
        PROVE  ~ Sickly(Head(groups))
    <3>1. payload.exit = 0
      BY <2>3, <2>4, CapturePasses
    <3>2. request.group = Head(groups) /\ ~ request.list /\ ~ request.plan
      BY <2>1, <2>4 DEF ProfileInv
    <3>3. CASE OneGroup
      BY <2>1, <3>1, <3>2, <3>3 DEF SuiteInv
    <3>4. CASE ~ OneGroup
      <4>1. Head(groups) \in Groups
        BY <2>1, <2>4 DEF ProfileInv, Progress
      <4>2. Head(groups) \in VerifyGroups \cup {"replay", "tests", "tests-full"}
        BY <3>2, <3>4, <4>1 DEF OneGroup, Groups
      <4> QED
        BY <4>2, FilesHaveTestGroups DEF Sickly
    <3> QED
      BY <3>3, <3>4
  <2> QED
    BY <2>1, <2>2, <2>3, <2>4, CollectKeepsProfile
<1>6. CASE Timeout
  <2>1. PICK c : /\ c = Capture(Head(groups), TRUE, NoCode, FALSE)
                 /\ Collect(c)
    BY <1>6 DEF Timeout
  <2>2. c.group = Head(groups) /\ c.timed_out
    BY <2>1 DEF Capture
  <2>3. CaptureStatus(c) # "pass"
    BY <2>2, CapturePasses
  <2> QED
    BY <1>6, <2>1, <2>2, <2>3, CollectKeepsProfile DEF Timeout, GateRunning
<1> QED
  BY <1>1, <1>2, <1>3, <1>4, <1>5, <1>6 DEF WrapperStep

\* A profile that reports pass or warning made every one of its gate runs, each
\* answered in time with 0, and pytest went wrong in none of its test groups.
THEOREM ProfilePasses == ReleaseSafety => []ProfilePassMeansAllRan
<1>1. ReleaseInit => SuiteInv /\ ProfileInv
  BY DEF ReleaseInit, CheckInit, ShellInit, GateInit, SuiteInv, ProfileInv,
         ProfilePassMeansAllRan, NoArguments
<1>2. ASSUME TypesInv, SuiteInv, ProfileInv, [ReleaseNext]_allVars
      PROVE  SuiteInv' /\ ProfileInv'
  <2>1. CASE WrapperStep
    <3>1. ProfileInv'
      BY <1>2, <2>1, WrapperKeepsProfile
    <3>2. CASE UNCHANGED gateVars
      BY <1>2, <3>1, <3>2 DEF gateVars, SuiteInv, OneGroup, Sickly
    <3>3. CASE LaunchGate
      BY <3>1, <3>3, StartKeepsSuite DEF LaunchGate
    <3>4. CASE CollectGate \/ Timeout
      BY <3>1, <3>4 DEF CollectGate, Timeout, GateEnded, SuiteInv
    <3> QED
      BY <2>1, <3>1, <3>2, <3>3, <3>4
      DEF WrapperStep, CheckMode, RunLint, Preflight
  <2>2. CASE StartFromShell
    <3>1. SuiteInv'
      BY <2>2, StartKeepsSuite DEF StartFromShell
    <3>2. stage = "shell" /\ UNCHANGED checkVars /\ sick' = sick
      BY <2>2 DEF StartFromShell, StartGate
    <3>3. ProfilePassMeansAllRan'
      BY <1>2, <3>2, SameProfile DEF checkVars, ProfileInv
    <3> QED
      BY <1>2, <3>1, <3>2, <3>3 DEF checkVars, ProfileInv, InvalidMode
  <2>3. CASE GateMoves
    <3>1. SuiteInv' /\ UNCHANGED <<request, sick, checkVars>> /\ phase # "idle"
      <4>1. SuiteInv'
        BY <1>2, <2>3, GateKeepsSuite DEF GateMoves, TypesInv
      <4> QED
        BY <2>3, <4>1
        DEF GateMoves, GateStep, Crash, RunTooling, RunBridges, RunFirstLoops,
            RunManifests, RunSecondLoops, RunV10, RunThirdLoops, RecordV12,
            RunAudit, RunRouterAudit, RunReplay, RunSubgroup, EndSuite, Verdict,
            Stay
    <3>2. ProfilePassMeansAllRan'
      BY <1>2, <3>1, SameProfile DEF checkVars, ProfileInv
    <3>3. Progress => Progress'
      BY <3>1 DEF Progress, MadeWell, Sickly, checkVars, ofProfile
    <3> QED
      BY <1>2, <3>1, <3>2, <3>3 DEF checkVars, ProfileInv, RunsProfile, InvalidMode
  <2>4. CASE UNCHANGED allVars
    <3>1. ProfilePassMeansAllRan'
      BY <1>2, <2>4, SameProfile DEF allVars, gateVars, checkVars, ProfileInv
    <3> QED
      BY <1>2, <2>4, <3>1
      DEF allVars, gateVars, checkVars, SuiteInv, OneGroup, Sickly, ProfileInv,
          RunsProfile, InvalidMode, Progress, MadeWell, ofProfile
  <2> QED
    BY <1>2, <2>1, <2>2, <2>3, <2>4 DEF ReleaseNext
<1>3. ProfileInv => ProfilePassMeansAllRan
  BY DEF ProfileInv
<1> QED
  BY <1>1, <1>2, <1>3, InitialTypes, ReleaseKeepsTypes, PTL DEF ReleaseSafety

-----------------------------------------------------------------------------
(* A command that answers differently the second time.                     *)

\* The names of the tables that every target runs in full, and those of the
\* others.  V10_NATIVE_CHECKS and V102_CHECK_MAP share two names.
Early ==
  UNION {DOMAIN t : t \in
   {REPORT_CHECKS, DEVELOPMENT_AUDIT_CHECKS, STATE_WATCHER_CHECKS,
    PRIVATE_DOMAIN_CANDIDATE_CHECKS, CLASSIFICATION_CANDIDATE_CHECKS,
    PARAMETRIC_TEMPLATE_CHECKS, BOUNDED_REFERENCE_INDEX_CHECKS,
    HUMAN_APPROVED_EXECUTION_GATE_CHECKS,
    EXPERT_CONFLICT_PRE_RESOLUTION_CHECKS, AGENT_SESSION_CHECKS,
    AGENT_PLAN_CHECKS, TOOL_INVOCATION_CHECKS, AGENT_DECISION_TRACE_CHECKS,
    DOWNSTREAM_BRIDGE_ADAPTER_CHECKS, AGENT_BOUNDARY_FREEZE_CHECKS,
    ANCHORING_SUBMISSION_CHECKS, CHAIN_ADAPTER_CHECKS}}

Late ==
  << DOMAIN MERKLE_BATCH_CHECKS, DOMAIN FROZEN_RULE_ANCHOR_CHECKS,
     DOMAIN FROZEN_RELEASE_MANIFEST_CHECKS,
     DOMAIN EXECUTABLE_CONTRACT_CHECKS, DOMAIN DOCUMENT_ATTESTATION_CHECKS,
     DOMAIN PROCESS_ATTESTATION_CHECKS, DOMAIN EXECUTION_PROFILE_CHECKS,
     DOMAIN V103_CHECK_MAP,
     DOMAIN V10_NATIVE_CHECKS \cup DOMAIN V102_CHECK_MAP,
     DOMAIN V104_CHECK_MAP, DOMAIN V105_CHECK_MAP, V12_CHECKS >>

LateNames(i) == UNION {Late[j] : j \in i .. 12}

LEMMA NamesOfLate ==
  ASSUME NEW i \in 1 .. 12, NEW c
  PROVE  c \in LateNames(i) <=>
           \/ i <= 1 /\ c \in DOMAIN MERKLE_BATCH_CHECKS
           \/ i <= 2 /\ c \in DOMAIN FROZEN_RULE_ANCHOR_CHECKS
           \/ i <= 3 /\ c \in DOMAIN FROZEN_RELEASE_MANIFEST_CHECKS
           \/ i <= 4 /\ c \in DOMAIN EXECUTABLE_CONTRACT_CHECKS
           \/ i <= 5 /\ c \in DOMAIN DOCUMENT_ATTESTATION_CHECKS
           \/ i <= 6 /\ c \in DOMAIN PROCESS_ATTESTATION_CHECKS
           \/ i <= 7 /\ c \in DOMAIN EXECUTION_PROFILE_CHECKS
           \/ i <= 8 /\ c \in DOMAIN V103_CHECK_MAP
           \/ i <= 9 /\ c \in (DOMAIN V10_NATIVE_CHECKS \cup DOMAIN V102_CHECK_MAP)
           \/ i <= 10 /\ c \in DOMAIN V104_CHECK_MAP
           \/ i <= 11 /\ c \in DOMAIN V105_CHECK_MAP
           \/ i <= 12 /\ c \in V12_CHECKS
<1>1. c \in LateNames(i) <=> \E j \in 1 .. 12 : i <= j /\ c \in Late[j]
  BY DEF LateNames
<1> QED
  BY <1>1 DEF Late

LEMMA EarlyAreApart ==
  ASSUME NEW c \in Early
  PROVE  c \notin LateNames(1)
<1> USE NamesOfBoth, NamesOfLate DEF MERKLE_BATCH_CHECKS, FROZEN_RULE_ANCHOR_CHECKS,
     FROZEN_RELEASE_MANIFEST_CHECKS, EXECUTABLE_CONTRACT_CHECKS,
     DOCUMENT_ATTESTATION_CHECKS, PROCESS_ATTESTATION_CHECKS,
     EXECUTION_PROFILE_CHECKS, V103_CHECK_MAP, V10_NATIVE_CHECKS,
     V102_CHECK_MAP, V104_CHECK_MAP, V105_CHECK_MAP, V12_CHECKS
<1>1. c \in DOMAIN REPORT_CHECKS => c \notin LateNames(1)
  BY DEF REPORT_CHECKS
<1>2. c \in DOMAIN DEVELOPMENT_AUDIT_CHECKS => c \notin LateNames(1)
  BY DEF DEVELOPMENT_AUDIT_CHECKS
<1>3. c \in DOMAIN STATE_WATCHER_CHECKS => c \notin LateNames(1)
  BY DEF STATE_WATCHER_CHECKS
<1>4. c \in DOMAIN PRIVATE_DOMAIN_CANDIDATE_CHECKS => c \notin LateNames(1)
  BY DEF PRIVATE_DOMAIN_CANDIDATE_CHECKS
<1>5. c \in DOMAIN CLASSIFICATION_CANDIDATE_CHECKS => c \notin LateNames(1)
  BY DEF CLASSIFICATION_CANDIDATE_CHECKS
<1>6. c \in DOMAIN PARAMETRIC_TEMPLATE_CHECKS => c \notin LateNames(1)
  BY DEF PARAMETRIC_TEMPLATE_CHECKS
<1>7. c \in DOMAIN BOUNDED_REFERENCE_INDEX_CHECKS => c \notin LateNames(1)
  BY DEF BOUNDED_REFERENCE_INDEX_CHECKS
<1>8. c \in DOMAIN HUMAN_APPROVED_EXECUTION_GATE_CHECKS => c \notin LateNames(1)
  BY DEF HUMAN_APPROVED_EXECUTION_GATE_CHECKS
<1>9. c \in DOMAIN EXPERT_CONFLICT_PRE_RESOLUTION_CHECKS => c \notin LateNames(1)
  BY DEF EXPERT_CONFLICT_PRE_RESOLUTION_CHECKS
<1>10. c \in DOMAIN AGENT_SESSION_CHECKS => c \notin LateNames(1)
  BY DEF AGENT_SESSION_CHECKS
<1>11. c \in DOMAIN AGENT_PLAN_CHECKS => c \notin LateNames(1)
  BY NamesOfReporting DEF AGENT_PLAN_CHECKS
<1>12. c \in DOMAIN TOOL_INVOCATION_CHECKS => c \notin LateNames(1)
  BY DEF TOOL_INVOCATION_CHECKS
<1>13. c \in DOMAIN AGENT_DECISION_TRACE_CHECKS => c \notin LateNames(1)
  BY NamesOfReporting DEF AGENT_DECISION_TRACE_CHECKS
<1>14. c \in DOMAIN DOWNSTREAM_BRIDGE_ADAPTER_CHECKS => c \notin LateNames(1)
  BY NamesOfReporting DEF DOWNSTREAM_BRIDGE_ADAPTER_CHECKS
<1>15. c \in DOMAIN AGENT_BOUNDARY_FREEZE_CHECKS => c \notin LateNames(1)
  BY DEF AGENT_BOUNDARY_FREEZE_CHECKS
<1>16. c \in DOMAIN ANCHORING_SUBMISSION_CHECKS => c \notin LateNames(1)
  BY NamesOfReporting DEF ANCHORING_SUBMISSION_CHECKS
<1>17. c \in DOMAIN CHAIN_ADAPTER_CHECKS => c \notin LateNames(1)
  BY NamesOfReporting DEF CHAIN_ADAPTER_CHECKS
<1> QED
  BY <1>1, <1>2, <1>3, <1>4, <1>5, <1>6, <1>7, <1>8, <1>9, <1>10, <1>11,
     <1>12, <1>13, <1>14, <1>15, <1>16, <1>17 DEF Early

LEMMA LateAreApart ==
  ASSUME NEW i \in 1 .. 11, NEW c \in Late[i]
  PROVE  c \notin LateNames(i + 1)
<1> USE NamesOfBoth, NamesOfLate DEF MERKLE_BATCH_CHECKS, FROZEN_RULE_ANCHOR_CHECKS,
     FROZEN_RELEASE_MANIFEST_CHECKS, EXECUTABLE_CONTRACT_CHECKS,
     DOCUMENT_ATTESTATION_CHECKS, PROCESS_ATTESTATION_CHECKS,
     EXECUTION_PROFILE_CHECKS, V103_CHECK_MAP, V10_NATIVE_CHECKS,
     V102_CHECK_MAP, V104_CHECK_MAP, V105_CHECK_MAP, V12_CHECKS
<1>1. CASE i = 1
  BY <1>1 DEF Late
<1>2. CASE i = 2
  BY <1>2 DEF Late
<1>3. CASE i = 3
  BY <1>3 DEF Late
<1>4. CASE i = 4
  BY <1>4 DEF Late
<1>5. CASE i = 5
  BY <1>5 DEF Late
<1>6. CASE i = 6
  BY <1>6 DEF Late
<1>7. CASE i = 7
  BY <1>7 DEF Late
<1>8. CASE i = 8
  BY <1>8 DEF Late
<1>9. CASE i = 9
  BY <1>9 DEF Late
<1>10. CASE i = 10
  BY <1>10 DEF Late
<1>11. CASE i = 11
  BY <1>11 DEF Late
<1> QED
  BY <1>1, <1>2, <1>3, <1>4, <1>5, <1>6, <1>7, <1>8, <1>9, <1>10, <1>11

LEMMA LateOnce ==
  ASSUME NEW c
  PROVE  /\ \A i \in 1 .. 12, j \in 1 .. 12 : c \in Late[i] /\ c \in Late[j] => i = j
         /\ \A i \in 1 .. 12 : c \in Late[i] => c \notin Early
<1>1. ASSUME NEW i \in 1 .. 12, NEW j \in 1 .. 12, i < j, c \in Late[i]
      PROVE  c \notin Late[j]
  BY <1>1, LateAreApart DEF LateNames
<1>2. ASSUME NEW i \in 1 .. 12, c \in Late[i]
      PROVE  c \notin Early
  BY <1>2, EarlyAreApart DEF LateNames
<1>3. \A i \in 1 .. 12, j \in 1 .. 12 : i = j \/ i < j \/ j < i
  OBVIOUS
<1> QED
  BY <1>1, <1>2, <1>3

\* Which step of verify() has which names.
LEMMA FirstNames ==
  ASSUME NEW i \in 1 .. 7, NEW c \in DOMAIN FirstLoops[i].table
  PROVE  /\ i <= 5 => c \in Early /\ FirstLoops[i].floor = Always /\ ~ FirstLoops[i].skips
         /\ i = 6 => c \in Late[1]
         /\ i = 7 => c \in Late[2]
<1>1. CASE i = 3
  <2>1. FirstLoops[3].table =
          STATE_WATCHER_CHECKS ++ PRIVATE_DOMAIN_CANDIDATE_CHECKS ++
          CLASSIFICATION_CANDIDATE_CHECKS ++ PARAMETRIC_TEMPLATE_CHECKS ++
          BOUNDED_REFERENCE_INDEX_CHECKS ++
          HUMAN_APPROVED_EXECUTION_GATE_CHECKS ++
          EXPERT_CONFLICT_PRE_RESOLUTION_CHECKS ++ AGENT_SESSION_CHECKS ++
          AGENT_PLAN_CHECKS ++ TOOL_INVOCATION_CHECKS ++
          AGENT_DECISION_TRACE_CHECKS ++ DOWNSTREAM_BRIDGE_ADAPTER_CHECKS
    BY DEF FirstLoops, Loop
  <2>2. \A f, g : c \in DOMAIN (f ++ g) => c \in DOMAIN f \/ c \in DOMAIN g
    BY DomainOfBoth
  <2>3. \/ c \in DOMAIN STATE_WATCHER_CHECKS
        \/ c \in DOMAIN PRIVATE_DOMAIN_CANDIDATE_CHECKS
        \/ c \in DOMAIN CLASSIFICATION_CANDIDATE_CHECKS
        \/ c \in DOMAIN PARAMETRIC_TEMPLATE_CHECKS
        \/ c \in DOMAIN BOUNDED_REFERENCE_INDEX_CHECKS
        \/ c \in DOMAIN HUMAN_APPROVED_EXECUTION_GATE_CHECKS
        \/ c \in DOMAIN EXPERT_CONFLICT_PRE_RESOLUTION_CHECKS
        \/ c \in DOMAIN AGENT_SESSION_CHECKS
        \/ c \in DOMAIN AGENT_PLAN_CHECKS
        \/ c \in DOMAIN TOOL_INVOCATION_CHECKS
        \/ c \in DOMAIN AGENT_DECISION_TRACE_CHECKS
        \/ c \in DOMAIN DOWNSTREAM_BRIDGE_ADAPTER_CHECKS
    BY <1>1, <2>1, <2>2
  <2>4. c \in Early
    BY <2>3 DEF Early
  <2> QED
    BY <1>1, <2>4 DEF FirstLoops, Loop
<1>2. CASE i = 5
  <2>1. FirstLoops[5].table = ANCHORING_SUBMISSION_CHECKS ++ CHAIN_ADAPTER_CHECKS
    BY DEF FirstLoops, Loop
  <2>2. \A f, g : c \in DOMAIN (f ++ g) => c \in DOMAIN f \/ c \in DOMAIN g
    BY DomainOfBoth
  <2>3. c \in DOMAIN ANCHORING_SUBMISSION_CHECKS \/ c \in DOMAIN CHAIN_ADAPTER_CHECKS
    BY <1>2, <2>1, <2>2
  <2>4. c \in Early
    BY <2>3 DEF Early
  <2> QED
    BY <1>2, <2>4 DEF FirstLoops, Loop
<1>3. CASE i \in {1, 2, 4}
  <2>1. FirstLoops[i].table \in {REPORT_CHECKS, DEVELOPMENT_AUDIT_CHECKS,
                                 AGENT_BOUNDARY_FREEZE_CHECKS}
    BY <1>3 DEF FirstLoops, Loop
  <2>2. c \in Early
    BY <2>1 DEF Early
  <2> QED
    BY <1>3, <2>2 DEF FirstLoops, Loop
<1>4. CASE i \in {6, 7}
  BY <1>4 DEF FirstLoops, Loop, Late
<1> QED
  BY <1>1, <1>2, <1>3, <1>4

LEMMA SecondNames ==
  /\ DOMAIN SecondLoops = 1 .. 5
  /\ \A i \in 1 .. 5 : DOMAIN SecondLoops[i].table = Late[i + 3]
<1>1. DOMAIN SecondLoops = 1 .. 5
  BY DEF SecondLoops
<1>2. /\ DOMAIN SecondLoops[1].table = Late[4]
      /\ DOMAIN SecondLoops[2].table = Late[5]
      /\ DOMAIN SecondLoops[3].table = Late[6]
      /\ DOMAIN SecondLoops[4].table = Late[7]
      /\ DOMAIN SecondLoops[5].table = Late[8]
  BY DEF SecondLoops, Loop, Late
<1> QED
  BY <1>1, <1>2

LEMMA ThirdNames ==
  /\ DOMAIN ThirdLoops = 1 .. 3
  /\ \A i \in 1 .. 3 : DOMAIN ThirdLoops[i].table \subseteq Late[i + 8]
<1>1. DOMAIN ThirdLoops = 1 .. 3
  BY DEF ThirdLoops
<1>2. /\ DOMAIN ThirdLoops[1].table \subseteq Late[9]
      /\ DOMAIN ThirdLoops[2].table \subseteq Late[10]
      /\ DOMAIN ThirdLoops[3].table \subseteq Late[11]
  BY DEF ThirdLoops, Loop, Late
<1> QED
  BY <1>1, <1>2

LEMMA OtherNames ==
  /\ DOMAIN FROZEN_RELEASE_MANIFEST_CHECKS = Late[3]
  /\ V10_CHECKS \subseteq Late[9]
  /\ V12_CHECKS = Late[12]
BY DEF Late, V10_CHECKS

LEMMA LateRunsTwice ==
  ASSUME NEW c \in Late[9]
  PROVE  c \notin RunOnce
BY NamesOfBoth DEF Late, V10_NATIVE_CHECKS, V102_CHECK_MAP, RunOnce,
                   ToolingCommands, BRIDGES

\* Its command answers differently, and no step that runs a command once is
\* about it.
Flaky == /\ sick.check \notin RunOnce
         /\ sick.first # sick.second
         /\ "missing" \notin {sick.first, sick.second}

LEMMA FlakyOutcome ==
  ASSUME Flaky, sick.fixture, NEW kind, NEW x
  PROVE  LET b == Behaviour(sick.check, kind)
         IN SameOutput(b) = "failed" /\ SameResult(b) = "failed"
            /\ RecordedOutput(b, x) = "failed"
<1>1. Behaviour(sick.check, kind) = sick
  BY DEF Behaviour
<1>2. SameOutput(sick) = "failed" /\ SameResult(sick) = "failed"
  BY DEF SameOutput, SameResult, Flaky
<1>3. ~ MissingSurface(FailureDetail(sick))
  BY DEF MissingSurface, FailureDetail, Flaky
<1>4. RecordedOutput(sick, x) = "failed"
  BY <1>2, <1>3 DEF RecordedOutput
<1> QED
  BY <1>1, <1>2, <1>4

\* What one of the loops has run stays so in the loops after it.
RunsAgree(loops) ==
  \A i, j \in DOMAIN loops :
    /\ sick.check \in LoopRuns(loops[i])
    /\ sick.check \in DOMAIN loops[j].table
    => sick.check \in LoopRuns(loops[j])

LEMMA FlakyLoops ==
  ASSUME Flaky, sick.fixture, NEW loops, NEW n \in Nat, DOMAIN loops = 1 .. n,
         RunsAgree(loops), sick.check \in LoopsRun(loops)
  PROVE  LoopsStatus(loops)[sick.check] = "failed"
<1>1. PICK i \in 1 .. n : sick.check \in LoopRuns(loops[i])
  BY DEF LoopsRun
<1>2. sick.check \in UNION {DOMAIN loops[k].table : k \in DOMAIN loops}
  BY <1>1 DEF LoopRuns
<1>3. PICK j \in 1 .. n : /\ sick.check \in DOMAIN loops[j].table
                          /\ LoopsStatus(loops)[sick.check]
                               = LoopStatus(loops[j])[sick.check]
  BY <1>2, LastLoop
<1>4. sick.check \in LoopRuns(loops[j])
  BY <1>1, <1>3 DEF RunsAgree
<1>5. sick.check \notin Skipped(loops[j])
  BY <1>4 DEF LoopRuns
<1>6. LoopStatus(loops[j])[sick.check] = RunStatus(loops[j], sick.check)
  BY <1>3, <1>4, <1>5 DEF LoopStatus
<1>7. RunStatus(loops[j], sick.check) = "failed"
  BY FlakyOutcome DEF RunStatus
<1> QED
  BY <1>3, <1>6, <1>7

LEMMA FirstLoopsAgree == RunsAgree(FirstLoops)
<1>1. DOMAIN FirstLoops = 1 .. 7
  BY DEF FirstLoops
<1>2. SUFFICES ASSUME NEW i \in 1 .. 7, NEW j \in 1 .. 7,
                      sick.check \in LoopRuns(FirstLoops[i]),
                      sick.check \in DOMAIN FirstLoops[j].table
               PROVE  sick.check \in LoopRuns(FirstLoops[j])
  BY <1>1 DEF RunsAgree
<1>3. sick.check \in DOMAIN FirstLoops[i].table
  BY <1>2 DEF LoopRuns
<1>4. i = j \/ (i <= 5 /\ j <= 5)
  BY <1>2, <1>3, FirstNames, LateOnce
<1>5. CASE i <= 5 /\ j <= 5
  <2>1. TargetAtLeast(request.target, Always)
    BY <1>2, <1>3, <1>5, FirstNames DEF LoopRuns
  <2> QED
    BY <1>2, <1>5, <2>1, FirstNames DEF LoopRuns, Skipped
<1> QED
  BY <1>2, <1>4, <1>5

LEMMA LaterLoopsAgree == RunsAgree(SecondLoops) /\ RunsAgree(ThirdLoops)
<1>1. \A i, j \in 1 .. 5 :
        sick.check \in DOMAIN SecondLoops[i].table \cap DOMAIN SecondLoops[j].table => i = j
  BY SecondNames, LateOnce
<1>2. \A i, j \in 1 .. 3 :
        sick.check \in DOMAIN ThirdLoops[i].table \cap DOMAIN ThirdLoops[j].table => i = j
  <2>1. ASSUME NEW i \in 1 .. 3, NEW j \in 1 .. 3,
               sick.check \in DOMAIN ThirdLoops[i].table,
               sick.check \in DOMAIN ThirdLoops[j].table
        PROVE  i = j
    <3>1. sick.check \in Late[i + 8] /\ sick.check \in Late[j + 8]
      BY <2>1, ThirdNames
    <3>2. i + 8 = j + 8
      BY <3>1, LateOnce
    <3> QED
      BY <3>2
  <2> QED
    BY <2>1
<1>3. RunsAgree(SecondLoops)
  BY <1>1, SecondNames DEF RunsAgree, LoopRuns
<1>4. RunsAgree(ThirdLoops)
  BY <1>2, ThirdNames DEF RunsAgree, LoopRuns
<1> QED
  BY <1>3, <1>4

\* What can have been run when the gate is where it is.
RunBefore(k) ==
  \A c \in ran : c \in RunOnce \/ c \in Early \/ \E i \in 1 .. k : c \in Late[i]

OnlySoFar ==
  /\ phase \in {"tooling", "bridges", "loops"} => ran \subseteq RunOnce
  /\ phase = "manifests" => RunBefore(2)
  /\ phase = "attestations" => RunBefore(3)
  /\ phase = "v10" => RunBefore(8)
  /\ phase = "v102" => /\ RunBefore(9)
                       /\ \A c \in ran : c \in Late[9] => c \in NativeRuns
  /\ phase = "v12" => RunBefore(11)
  /\ phase = "tests" /\ request.group # "none" => ran \subseteq RunOnce

FlakyFailed ==
  Flaky /\ sick.check \in ran => sick.fixture /\ checks[sick.check] = "failed"

FlakyInv == /\ OnlySoFar
            /\ phase \notin {"idle", "answered"} => FlakyFailed
            /\ FlakyNeverPasses

LEMMA RunIsRecorded ==
  ASSUME GateTypes, NEW f, NEW selected, Record(f, selected), selected \subseteq DOMAIN f
  PROVE  ran' \subseteq DOMAIN checks'
<1>1. /\ DOMAIN checks' = DOMAIN f \cup DOMAIN checks
      /\ ran' = ran \cup {c \in selected : sick.check = c => sick.fixture}
  BY Recorded
<1>2. ran \subseteq DOMAIN checks
  BY DEF GateTypes
<1> QED
  BY <1>1, <1>2

LEMMA AuditRecords ==
  ASSUME NEW p, NEW producers
  PROVE  /\ DOMAIN AuditStatus(p, producers) \subseteq AuditChecks(p)
         /\ Deterministic(p) \in DOMAIN AuditStatus(p, producers)
<1> DEFINE trail == [c \in {Deterministic(p)} |-> AuditOutcome(p, producers)]
           manifest == [c \in {p \o "audit_manifest_valid"} |->
                          Status(Exec(p \o "manifest", "accepts"))]
           unknown ==
             [c \in {p \o "audit_trail_unknown_source_type_rejected"} |->
                UnknownSourceRefused(p)]
<1>1. AuditStatus(p, producers) \in {manifest ++ unknown ++ trail, trail}
  BY DEF AuditStatus
<1>2. /\ DOMAIN trail = {Deterministic(p)}
      /\ DOMAIN manifest = {p \o "audit_manifest_valid"}
      /\ DOMAIN unknown = {p \o "audit_trail_unknown_source_type_rejected"}
  OBVIOUS
<1> HIDE DEF trail, manifest, unknown
<1> DEFINE both == manifest ++ unknown
<1>3. DOMAIN both = DOMAIN manifest \cup DOMAIN unknown
  BY DomainOfBoth
<1>4. AuditStatus(p, producers) \in {both ++ trail, trail}
  BY <1>1
<1> HIDE DEF both
<1>5. DOMAIN (both ++ trail) = DOMAIN both \cup DOMAIN trail
  BY DomainOfBoth
<1> QED
  BY <1>2, <1>3, <1>4, <1>5 DEF AuditChecks

\* A step that runs the command records that it failed, and no other step
\* writes over that.
LEMMA FlakyIsRecorded ==
  ASSUME GateTypes, FlakyFailed, Stay, NEW f, NEW selected,
         Record(f, selected), selected \subseteq DOMAIN f,
         Flaky /\ sick.fixture /\ sick.check \in selected => f[sick.check] = "failed",
         Flaky /\ sick.check \in ran /\ sick.check \in DOMAIN f => sick.check \in selected
  PROVE  FlakyFailed'
<1>1. /\ \A c \in DOMAIN f : checks'[c] = f[c]
      /\ \A c \in DOMAIN checks \ DOMAIN f : checks'[c] = checks[c]
      /\ ran' = ran \cup {c \in selected : sick.check = c => sick.fixture}
      /\ ran \subseteq DOMAIN checks
      /\ sick' = sick
  BY Recorded DEF GateTypes, Stay
<1>2. Flaky' <=> Flaky
  BY <1>1 DEF Flaky
<1>3. ASSUME Flaky, sick.check \in ran'
      PROVE  sick.fixture /\ checks'[sick.check] = "failed"
  <2>1. sick.fixture
    BY <1>1, <1>3 DEF FlakyFailed
  <2>2. CASE sick.check \in selected
    BY <1>1, <1>3, <2>1, <2>2
  <2>3. CASE sick.check \notin selected
    <3>1. sick.check \in ran
      BY <1>1, <1>3, <2>3
    <3>2. sick.check \notin DOMAIN f
      BY <1>3, <2>3, <3>1
    <3> QED
      BY <1>1, <1>3, <3>1, <3>2 DEF FlakyFailed
  <2> QED
    BY <2>2, <2>3
<1> QED
  BY <1>1, <1>2, <1>3 DEF FlakyFailed

\* An answer taken while the command stands as failed is not "passed".
LEMMA FailedIsNotPassed ==
  ASSUME FlakyFailed', (ran \subseteq DOMAIN checks)',
         AnswerFailed(checks') \/ AnswerBlocked(checks')
  PROVE  FlakyNeverPasses'
<1>1. ASSUME Flaky', sick'.check \in ran'
      PROVE  payload'.status # "passed"
  <2>1. sick'.check \in Failed(checks')
    BY <1>1 DEF FlakyFailed, Failed
  <2> QED
    BY <2>1 DEF AnswerFailed, AnswerBlocked, Answer
<1> QED
  BY <1>1 DEF FlakyNeverPasses, Flaky

LEMMA RunMore ==
  ASSUME NEW f, NEW selected, Record(f, selected), NEW k, NEW m \in Nat,
         k \in Nat, k <= m, RunBefore(k),
         \A c \in selected : c \in RunOnce \/ c \in Early \/ \E i \in 1 .. m : c \in Late[i]
  PROVE  RunBefore(m)'
<1>1. ran' = ran \cup {c \in selected : sick.check = c => sick.fixture}
  BY Recorded
<1>2. \A c \in ran' : c \in RunOnce \/ c \in Early \/ \E i \in 1 .. m : c \in Late[i]
  BY <1>1 DEF RunBefore
<1> QED
  BY <1>2 DEF RunBefore

LEMMA TheseRun ==
  /\ \A c \in LoopsRun(FirstLoops) : c \in Early \/ \E i \in 1 .. 2 : c \in Late[i]
  /\ \A c \in DOMAIN LoopsStatus(FirstLoops) : c \in Early \/ \E i \in 1 .. 2 : c \in Late[i]
  /\ \A c \in LoopsRun(SecondLoops) : \E i \in 4 .. 8 : c \in Late[i]
  /\ \A c \in DOMAIN LoopsStatus(SecondLoops) : \E i \in 4 .. 8 : c \in Late[i]
  /\ \A c \in LoopsRun(ThirdLoops) : \E i \in 9 .. 11 : c \in Late[i]
  /\ \A c \in DOMAIN LoopsStatus(ThirdLoops) : \E i \in 9 .. 11 : c \in Late[i]
  /\ DOMAIN ManifestStatus = Late[3] /\ ManifestRuns \subseteq Late[3]
  /\ DOMAIN NativeStatus \subseteq Late[9] /\ NativeRuns \subseteq Late[9]
<1>1. /\ DOMAIN FirstLoops = 1 .. 7 /\ DOMAIN SecondLoops = 1 .. 5
      /\ DOMAIN ThirdLoops = 1 .. 3
  BY DEF FirstLoops, SecondLoops, ThirdLoops
<1>2. ASSUME NEW i \in 1 .. 7, NEW c \in DOMAIN FirstLoops[i].table
      PROVE  c \in Early \/ \E k \in 1 .. 2 : c \in Late[k]
  BY FirstNames
<1>3. ASSUME NEW i \in 1 .. 5, NEW c \in DOMAIN SecondLoops[i].table
      PROVE  \E k \in 4 .. 8 : c \in Late[k]
  <2>1. c \in Late[i + 3] /\ i + 3 \in 4 .. 8
    BY SecondNames
  <2> QED
    BY <2>1
<1>4. ASSUME NEW i \in 1 .. 3, NEW c \in DOMAIN ThirdLoops[i].table
      PROVE  \E k \in 9 .. 11 : c \in Late[k]
  <2>1. c \in Late[i + 8] /\ i + 8 \in 9 .. 11
    BY ThirdNames
  <2> QED
    BY <2>1
<1>5. /\ LoopsRun(FirstLoops) \subseteq DOMAIN LoopsStatus(FirstLoops)
      /\ LoopsRun(SecondLoops) \subseteq DOMAIN LoopsStatus(SecondLoops)
      /\ LoopsRun(ThirdLoops) \subseteq DOMAIN LoopsStatus(ThirdLoops)
  BY FirstLoopsAreStatuses, SecondLoopsAreStatuses, ThirdLoopsAreStatuses
<1>6. \A c \in DOMAIN LoopsStatus(FirstLoops) : c \in Early \/ \E i \in 1 .. 2 : c \in Late[i]
  BY <1>1, <1>2 DEF LoopsStatus
<1>7. \A c \in DOMAIN LoopsStatus(SecondLoops) : \E i \in 4 .. 8 : c \in Late[i]
  BY <1>1, <1>3 DEF LoopsStatus
<1>8. \A c \in DOMAIN LoopsStatus(ThirdLoops) : \E i \in 9 .. 11 : c \in Late[i]
  BY <1>1, <1>4 DEF LoopsStatus
<1>9. /\ DOMAIN ManifestStatus = Late[3] /\ ManifestRuns \subseteq Late[3]
      /\ DOMAIN NativeStatus \subseteq Late[9] /\ NativeRuns \subseteq Late[9]
  BY OtherNames DEF ManifestStatus, ManifestRuns, NativeStatus, NativeRuns
<1> QED
  BY <1>5, <1>6, <1>7, <1>8, <1>9

LEMMA LoopsKeepFlaky ==
  ASSUME GateTypes, FlakyInv, RunFirstLoops \/ RunSecondLoops \/ RunThirdLoops
  PROVE  FlakyInv'
<1>0. FlakyFailed /\ OnlySoFar
  BY DEF FlakyInv, RunFirstLoops, RunSecondLoops, RunThirdLoops
<1>1. CASE RunFirstLoops
  <2> DEFINE f == LoopsStatus(FirstLoops)
             selected == LoopsRun(FirstLoops)
  <2>1. Record(f, selected) /\ Stay /\ phase = "loops" /\ phase' = "manifests"
    BY <1>1 DEF RunFirstLoops
  <2>2. selected \subseteq DOMAIN f
    BY FirstLoopsAreStatuses
  <2>3. ASSUME Flaky, sick.fixture, sick.check \in selected
        PROVE  f[sick.check] = "failed"
    <3>1. DOMAIN FirstLoops = 1 .. 7
      BY DEF FirstLoops
    <3> QED
      BY <2>3, <3>1, FirstLoopsAgree, FlakyLoops
  <2>4. ran \subseteq RunOnce
    BY <1>0, <2>1 DEF OnlySoFar
  <2>5. Flaky => sick.check \notin ran
    BY <2>4 DEF Flaky
  <2>6. \A c \in selected : c \in Early \/ \E i \in 1 .. 2 : c \in Late[i]
    BY TheseRun
  <2> HIDE DEF f, selected
  <2>7. FlakyFailed'
    BY <1>0, <2>1, <2>2, <2>3, <2>5, FlakyIsRecorded
  <2>8. RunBefore(2)'
    <3>1. RunBefore(2)
      BY <2>4 DEF RunBefore
    <3> QED
      BY <2>1, <2>6, <3>1, RunMore
  <2> QED
    BY <2>1, <2>7, <2>8 DEF FlakyInv, OnlySoFar, FlakyNeverPasses, Answered
<1>2. CASE RunSecondLoops
  <2> DEFINE f == LoopsStatus(SecondLoops)
             selected == LoopsRun(SecondLoops)
  <2>1. Record(f, selected) /\ Stay /\ phase = "attestations" /\ phase' = "v10"
    BY <1>2 DEF RunSecondLoops
  <2>2. selected \subseteq DOMAIN f
    BY SecondLoopsAreStatuses
  <2>3. ASSUME Flaky, sick.fixture, sick.check \in selected
        PROVE  f[sick.check] = "failed"
    BY <2>3, SecondNames, LaterLoopsAgree, FlakyLoops
  <2>4. RunBefore(3)
    BY <1>0, <2>1 DEF OnlySoFar
  <2>5. \A c \in DOMAIN f : \E i \in 4 .. 8 : c \in Late[i]
    BY TheseRun
  <2>6. Flaky /\ sick.check \in ran => sick.check \notin DOMAIN f
    BY <2>4, <2>5, LateOnce DEF Flaky, RunBefore
  <2>7. \A c \in selected : \E i \in 1 .. 8 : c \in Late[i]
    BY <2>2, <2>5
  <2> HIDE DEF f, selected
  <2>8. FlakyFailed'
    BY <1>0, <2>1, <2>2, <2>3, <2>6, FlakyIsRecorded
  <2>9. RunBefore(8)'
    BY <2>1, <2>4, <2>7, RunMore
  <2> QED
    BY <2>1, <2>8, <2>9 DEF FlakyInv, OnlySoFar, FlakyNeverPasses, Answered
<1>3. CASE RunThirdLoops
  <2> DEFINE f == LoopsStatus(ThirdLoops)
             selected == LoopsRun(ThirdLoops)
  <2>1. Record(f, selected) /\ Stay /\ phase = "v102" /\ phase' = "v12"
    BY <1>3 DEF RunThirdLoops
  <2>2. selected \subseteq DOMAIN f
    BY ThirdLoopsAreStatuses
  <2>3. ASSUME Flaky, sick.fixture, sick.check \in selected
        PROVE  f[sick.check] = "failed"
    BY <2>3, ThirdNames, LaterLoopsAgree, FlakyLoops
  <2>4. RunBefore(9) /\ \A c \in ran : c \in Late[9] => c \in NativeRuns
    BY <1>0, <2>1 DEF OnlySoFar
  <2>5. \A c \in DOMAIN f : \E i \in 9 .. 11 : c \in Late[i]
    BY TheseRun
  <2>6. ASSUME Flaky, sick.check \in ran, sick.check \in DOMAIN f
        PROVE  sick.check \in selected
    <3>1. PICK i \in 9 .. 11 : sick.check \in Late[i]
      BY <2>5, <2>6
    <3>2. \A j \in 1 .. 12 : sick.check \in Late[j] => j = i
      BY <3>1, LateOnce
    <3>3. sick.check \in NativeRuns /\ i = 9
      BY <2>4, <2>6, <3>1, <3>2, LateOnce DEF Flaky, RunBefore
    <3>4. sick.check \in DOMAIN ThirdLoops[1].table
      <4>1. PICK k \in 1 .. 3 : sick.check \in DOMAIN ThirdLoops[k].table
        BY <2>6, ThirdNames DEF LoopsStatus
      <4>2. sick.check \in Late[k + 8] /\ k + 8 \in 1 .. 12
        BY <4>1, ThirdNames
      <4> QED
        BY <3>2, <3>3, <4>1, <4>2
    <3>5. /\ ThirdLoops[1].table = V102_CHECK_MAP
          /\ ThirdLoops[1].floor = <<10, 2>>
      BY DEF ThirdLoops, Loop
    <3>6. V10_NATIVE_FLOORS[sick.check] = <<10, 2>>
      <4>1. sick.check \in {"otel_jsonl_export", "lazy_verification_gate"}
        BY <3>3, <3>4, <3>5, NamesOfBoth
        DEF NativeRuns, V10_CHECKS, V10_NATIVE_CHECKS, V102_CHECK_MAP
      <4>2. sick.check \in V10_CHECKS
        BY <3>3 DEF NativeRuns
      <4> QED
        BY <4>1, <4>2 DEF V10_NATIVE_FLOORS
    <3>7. sick.check \in LoopRuns(ThirdLoops[1])
      BY <3>3, <3>4, <3>5, <3>6 DEF NativeRuns, LoopRuns, Skipped
    <3> QED
      BY <3>7, ThirdNames DEF LoopsRun
  <2>7. \A c \in selected : \E i \in 1 .. 11 : c \in Late[i]
    BY <2>2, <2>5
  <2> HIDE DEF f, selected
  <2>8. FlakyFailed'
    BY <1>0, <2>1, <2>2, <2>3, <2>6, FlakyIsRecorded
  <2>9. RunBefore(11)'
    BY <2>1, <2>4, <2>7, RunMore
  <2> QED
    BY <2>1, <2>8, <2>9 DEF FlakyInv, OnlySoFar, FlakyNeverPasses, Answered
<1> QED
  BY <1>1, <1>2, <1>3

LEMMA TablesKeepFlaky ==
  ASSUME GateTypes, FlakyInv, RunManifests \/ RunV10
  PROVE  FlakyInv'
<1>0. FlakyFailed /\ OnlySoFar
  BY DEF FlakyInv, RunManifests, RunV10
<1>1. CASE RunManifests
  <2>1. /\ Record(ManifestStatus, ManifestRuns)
        /\ Stay /\ phase = "manifests" /\ phase' = "attestations"
    BY <1>1 DEF RunManifests
  <2>2. ManifestRuns \subseteq DOMAIN ManifestStatus
    BY OtherStatuses
  <2>3. ASSUME Flaky, sick.fixture, sick.check \in ManifestRuns
        PROVE  ManifestStatus[sick.check] = "failed"
    <3>1. ManifestStatus[sick.check] = SameOutput(Behaviour(sick.check, "accepts"))
      BY <2>3 DEF ManifestStatus, ManifestRuns
    <3> QED
      BY <2>3, <3>1, FlakyOutcome
  <2>4. RunBefore(2)
    BY <1>0, <2>1 DEF OnlySoFar
  <2>5. Flaky /\ sick.check \in ran => sick.check \notin DOMAIN ManifestStatus
    BY <2>4, TheseRun, LateOnce DEF Flaky, RunBefore
  <2>6. FlakyFailed'
    BY <1>0, <2>1, <2>2, <2>3, <2>5, FlakyIsRecorded
  <2>7. RunBefore(3)'
    <3>1. \A c \in ManifestRuns : c \in Late[3]
      BY TheseRun
    <3>2. ran' = ran \cup {c \in ManifestRuns : sick.check = c => sick.fixture}
      BY <2>1, Recorded
    <3>3. \A c \in ran' : c \in ran \/ c \in Late[3]
      BY <3>1, <3>2
    <3> QED
      BY <2>4, <3>3 DEF RunBefore
  <2> QED
    BY <2>1, <2>6, <2>7 DEF FlakyInv, OnlySoFar, FlakyNeverPasses, Answered
<1>2. CASE RunV10
  <2>1. /\ Record(NativeStatus, NativeRuns)
        /\ Stay /\ phase = "v10" /\ phase' = "v102"
    BY <1>2 DEF RunV10
  <2>2. NativeRuns \subseteq DOMAIN NativeStatus
    BY OtherStatuses
  <2>3. ASSUME Flaky, sick.fixture, sick.check \in NativeRuns
        PROVE  NativeStatus[sick.check] = "failed"
    <3>1. NativeStatus[sick.check]
            = SameResult(Behaviour(sick.check, V10_NATIVE_CHECKS[sick.check]))
      BY <2>3 DEF NativeStatus, NativeRuns
    <3> QED
      BY <2>3, <3>1, FlakyOutcome
  <2>4. RunBefore(8)
    BY <1>0, <2>1 DEF OnlySoFar
  <2>5. Flaky /\ sick.check \in ran => sick.check \notin DOMAIN NativeStatus
    BY <2>4, TheseRun, LateOnce DEF Flaky, RunBefore
  <2>6. FlakyFailed'
    BY <1>0, <2>1, <2>2, <2>3, <2>5, FlakyIsRecorded
  <2>7. RunBefore(9)'
    BY <2>1, <2>4, TheseRun, RunMore
  <2>8. ran' = ran \cup {c \in NativeRuns : sick.check = c => sick.fixture}
    BY <2>1, Recorded
  <2>9. ASSUME NEW c \in ran', c \in Late[9]
        PROVE  c \in NativeRuns
    <3>1. c \notin RunOnce
      BY <2>9, LateRunsTwice
    <3>2. c \notin ran
      BY <2>4, <2>9, <3>1, LateOnce DEF RunBefore
    <3> QED
      BY <2>8, <2>9, <3>2
  <2>10. NativeRuns' = NativeRuns
    BY <2>1 DEF NativeRuns, Stay
  <2> QED
    BY <2>1, <2>6, <2>7, <2>9, <2>10 DEF FlakyInv, OnlySoFar, FlakyNeverPasses, Answered
<1> QED
  BY <1>1, <1>2

LEMMA OthersKeepFlaky ==
  ASSUME GateTypes, PhaseInv, FlakyInv,
         \/ Crash \/ RunTooling \/ RunBridges \/ RecordV12 \/ RunAudit
         \/ RunRouterAudit \/ RunReplay \/ RunSubgroup \/ EndSuite
  PROVE  FlakyInv'
<1>0. FlakyFailed /\ OnlySoFar
  BY DEF FlakyInv, Crash, RunTooling, RunBridges, RecordV12, RunAudit,
         RunRouterAudit, RunReplay, RunSubgroup, EndSuite
<1>1. CASE Crash
  BY <1>1 DEF Crash, Answer, FlakyInv, OnlySoFar, FlakyNeverPasses
<1>2. CASE RunTooling \/ RunBridges
  <2>1. PICK f, selected : /\ Record(f, selected) /\ Stay
                           /\ selected \subseteq RunOnce
                           /\ phase \in {"tooling", "bridges"}
    BY <1>2 DEF RunTooling, RunBridges, RunOnce
  <2>2. ran' \subseteq RunOnce
    <3>1. ran' = ran \cup {c \in selected : sick.check = c => sick.fixture}
      BY <2>1, Recorded
    <3> QED
      BY <1>0, <2>1, <3>1 DEF OnlySoFar
  <2>3. phase' \in {"bridges", "loops", "answered"}
    BY <1>2 DEF RunTooling, RunBridges, AnswerFailed, Answer
  <2> QED
    BY <2>2, <2>3
    DEF FlakyInv, OnlySoFar, FlakyFailed, Flaky, FlakyNeverPasses
<1>3. CASE RecordV12
  <2>1. PICK f : /\ Record(f, {}) /\ Stay /\ DOMAIN f = V12_CHECKS
                 /\ phase = "v12"
    BY <1>3 DEF RecordV12
  <2>2. RunBefore(11)
    BY <1>0, <2>1 DEF OnlySoFar
  <2>3. Flaky /\ sick.check \in ran => sick.check \notin DOMAIN f
    BY <2>1, <2>2, OtherNames, LateOnce DEF Flaky, RunBefore
  <2>4. FlakyFailed'
    BY <1>0, <2>1, <2>3, FlakyIsRecorded
  <2>5. (ran \subseteq DOMAIN checks)'
    BY <2>1, RunIsRecorded
  <2>6. \/ phase' = "audit"
        \/ phase' = "answered" /\ AnswerFailed(checks')
    BY <1>3 DEF RecordV12, AnswerFailed, Answer
  <2>7. FlakyNeverPasses'
    BY <2>4, <2>5, <2>6, FailedIsNotPassed DEF FlakyNeverPasses, Answered
  <2> QED
    BY <2>4, <2>6, <2>7 DEF FlakyInv, OnlySoFar
<1>4. CASE RunAudit \/ RunRouterAudit
  <2>. DEFINE Audits(p, producers) ==
                /\ Record(AuditStatus(p, producers), {Deterministic(p)}) /\ Stay
                /\ phase' \in {"router_audit", "replay"} /\ phase' # "tests"
                /\ phase = "audit" \/ phase = "router_audit"
  <2>1. \E p \in {"", "router_"} : \E producers : Audits(p, producers)
    <3>1. CASE RunAudit
      <4>1. Audits("", {"compatibility_matrix_report"})
        BY <3>1 DEF RunAudit
      <4> QED
        BY <4>1
    <3>2. CASE RunRouterAudit
      <4>1. Audits("router_", {"router_validation", "router_evaluation",
                               "router_report", "router_replay"})
        BY <3>2 DEF RunRouterAudit
      <4> QED
        BY <4>1
    <3> QED
      BY <1>4, <3>1, <3>2
  <2>2. PICK p \in {"", "router_"} : \E producers : Audits(p, producers)
    BY <2>1
  <2>3. PICK producers : Audits(p, producers)
    BY <2>2
  <2>4. /\ Record(AuditStatus(p, producers), {Deterministic(p)}) /\ Stay
        /\ phase' \in {"router_audit", "replay"} /\ phase' # "tests"
        /\ phase = "audit" \/ phase = "router_audit"
    BY <2>3
  <2>5. sick.check \notin AuditChecks(p)
    BY <2>4, SicknessAssumption DEF GateTypes
  <2>6. /\ DOMAIN AuditStatus(p, producers) \subseteq AuditChecks(p)
        /\ Deterministic(p) \in DOMAIN AuditStatus(p, producers)
    BY AuditRecords
  <2>7. FlakyFailed'
    BY <1>0, <2>4, <2>5, <2>6, FlakyIsRecorded
  <2> QED
    BY <2>4, <2>7 DEF FlakyInv, OnlySoFar, FlakyNeverPasses, Answered
<1>5. CASE RunReplay
  <2>1. Record(ReplayStatus, Replays) /\ Stay /\ phase = "replay"
    BY <1>5 DEF RunReplay
  <2>2. ASSUME Flaky, sick.fixture, sick.check \in Replays
        PROVE  ReplayStatus[sick.check] = "failed"
    <3>1. sick.check = "router_replay_certification"
      BY <2>2 DEF Flaky, RunOnce, Replays
    <3>2. RecordedOutput(Behaviour("router_replay_certification", "accepts"), TRUE)
            = "failed"
      BY <2>2, <3>1, FlakyOutcome
    <3> QED
      BY <2>2, <3>1, <3>2 DEF ReplayStatus, StrictReplayStatus
  <2>3. FlakyFailed'
    BY <1>0, <2>1, <2>2, OtherStatuses, FlakyIsRecorded
  <2>4. (ran \subseteq DOMAIN checks)'
    BY <2>1, OtherStatuses, RunIsRecorded
  <2>5. \/ phase' = "tests" /\ request'.group = "none"
        \/ phase' = "answered" /\ AnswerBlocked(checks')
    BY <1>5 DEF RunReplay, AnswerBlocked, AnswerFailed, Answer, PhaseInv, Stay
  <2>6. FlakyNeverPasses'
    BY <2>3, <2>4, <2>5, FailedIsNotPassed DEF FlakyNeverPasses, Answered
  <2> QED
    BY <2>3, <2>5, <2>6 DEF FlakyInv, OnlySoFar
<1>6. CASE RunSubgroup
  <2>1. UNCHANGED <<sick, request, phase, checks, ran, payload>> /\ phase = "tests"
    BY <1>6 DEF RunSubgroup, Stay
  <2> QED
    BY <1>0, <2>1 DEF FlakyInv, OnlySoFar, FlakyFailed, Flaky, FlakyNeverPasses, Answered
<1>7. CASE EndSuite
  <2>1. PICK f, selected : /\ Record(f, selected) /\ Stay /\ DOMAIN f = {"pytest"}
                           /\ selected \subseteq {"pytest"} /\ phase = "tests"
    BY <1>7 DEF EndSuite
  <2>2. CASE request.group = "none"
    <3>1. Flaky => sick.check \notin {"pytest"}
      BY DEF Flaky, RunOnce
    <3>2. FlakyFailed'
      BY <1>0, <2>1, <3>1, FlakyIsRecorded
    <3>3. phase' = "verdict"
      BY <1>7, <2>2 DEF EndSuite
    <3> QED
      BY <3>2, <3>3 DEF FlakyInv, OnlySoFar, FlakyNeverPasses, Answered
  <2>3. CASE request.group # "none"
    <3>1. ran \subseteq RunOnce
      BY <1>0, <2>1, <2>3 DEF OnlySoFar
    <3>2. ran' = ran \cup {c \in selected : sick.check = c => sick.fixture}
      BY <2>1, Recorded
    <3>3. ran' \subseteq RunOnce /\ phase' = "answered"
      BY <1>7, <2>1, <2>3, <3>1, <3>2 DEF EndSuite, RunOnce, Answer
    <3> QED
      BY <3>3 DEF FlakyInv, OnlySoFar, FlakyNeverPasses
  <2> QED
    BY <2>2, <2>3
<1> QED
  BY <1>1, <1>2, <1>3, <1>4, <1>5, <1>6, <1>7

LEMMA VerdictKeepsFlaky ==
  ASSUME GateTypes, FlakyInv, Verdict
  PROVE  FlakyInv'
<1> DEFINE excluded == Exclusions(request.target) \cap DOMAIN checks
           f == [n \in excluded |-> "excluded"]
<1>1. Record(f, {}) /\ Stay /\ phase = "verdict"
  BY DEF Verdict
<1>2. /\ phase' = "answered"
      /\ payload'.status = "passed" => \A n \in DOMAIN checks' : checks'[n] # "failed"
  BY DEF Verdict, AnswerFailed, Answer, Failed
<1>3. FlakyFailed /\ ran \subseteq DOMAIN checks
  BY <1>1 DEF FlakyInv, GateTypes
<1> HIDE DEF f
<1>4. /\ \A c \in DOMAIN checks \ DOMAIN f : checks'[c] = checks[c]
      /\ DOMAIN checks' = DOMAIN f \cup DOMAIN checks
      /\ ran' = ran \cup {c \in {} : sick.check = c => sick.fixture}
  BY <1>1, Recorded
<1>5. DOMAIN f = excluded
  BY DEF f
<1>6. ASSUME Flaky, sick.check \in ran, sick.check \notin Exclusions(request.target)
      PROVE  payload'.status # "passed"
  <2>1. sick.check \in DOMAIN checks' /\ checks'[sick.check] = "failed"
    BY <1>3, <1>4, <1>5, <1>6 DEF FlakyFailed
  <2> QED
    BY <1>2, <2>1
<1>7. ran' = ran /\ UNCHANGED <<sick, request>>
  BY <1>1, <1>4 DEF Stay
<1>8. FlakyNeverPasses'
  BY <1>6, <1>7 DEF FlakyNeverPasses, Flaky
<1> QED
  BY <1>2, <1>8 DEF FlakyInv, OnlySoFar

\* A command that answers differently the second time never ends in a passed
\* gate that executed it, but for a target that excludes it: _same_result and
\* _same_outputs record it as failed, and no later table of verify() writes
\* over the name.
THEOREM FlakyIsNoticed == ReleaseSafety => []FlakyNeverPasses
<1>1. ReleaseInit => FlakyInv
  BY DEF ReleaseInit, CheckInit, ShellInit, GateInit, FlakyInv, OnlySoFar,
         FlakyNeverPasses, Answered
<1>2. ASSUME TypesInv, FlakyInv, [ReleaseNext]_allVars
      PROVE  FlakyInv'
  <2>0. GateTypes /\ PhaseInv
    BY <1>2 DEF TypesInv
  <2>1. CASE GateMoves
    BY <1>2, <2>0, <2>1, LoopsKeepFlaky, TablesKeepFlaky, OthersKeepFlaky,
       VerdictKeepsFlaky
    DEF GateMoves, GateStep
  <2>2. CASE LaunchGate \/ StartFromShell
    <3>1. PICK r : StartGate(r)
      BY <2>2 DEF LaunchGate, StartFromShell
    <3>2. ran' = {} /\ phase' \in {"tooling", "replay", "tests", "answered"}
      BY <3>1, StartIsNoFullAnswer DEF StartGate
    <3> QED
      BY <3>2 DEF FlakyInv, OnlySoFar, FlakyFailed, FlakyNeverPasses
  <2>3. CASE CollectGate \/ Timeout
    BY <2>3 DEF CollectGate, Timeout, GateEnded, FlakyInv, OnlySoFar,
                FlakyNeverPasses, Answered
  <2>4. CASE UNCHANGED gateVars
    <3>1. NativeRuns' = NativeRuns
      BY <2>4 DEF gateVars, NativeRuns
    <3> QED
      BY <1>2, <2>4, <3>1
      DEF gateVars, FlakyInv, OnlySoFar, FlakyFailed, Flaky, FlakyNeverPasses,
          Answered, RunBefore
  <2> QED
    BY <1>2, <2>1, <2>2, <2>3, <2>4
    DEF ReleaseNext, WrapperStep, CheckMode, RunLint, Preflight, allVars
<1>3. FlakyInv => FlakyNeverPasses
  BY DEF FlakyInv
<1> QED
  BY <1>1, <1>2, <1>3, InitialTypes, ReleaseKeepsTypes, PTL DEF ReleaseSafety
=============================================================================
