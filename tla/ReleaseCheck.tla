---------------------------- MODULE ReleaseCheck ----------------------------
(***************************************************************************)
(* core-runtime release-check: the wrapper that lints the tooling, checks  *)
(* that scripts/verify_release.py can be run, and then runs it, once or    *)
(* once per group of a profile, as a process it may have to kill.          *)
(*                                                                         *)
(* The process is ReleaseGate.  Nothing says that it ever answers: the     *)
(* wrapper's timeout is what ends a run that hangs.                        *)
(***************************************************************************)
EXTENDS ReleaseGate

CONSTANTS
  Arguments,   \* the command lines: see NoArguments
  Hosts,       \* [lint, script, help]: what the wrapper finds around it
  Canonical    \* core_runtime.__version__, NoTarget when it cannot be read

ASSUME ArgumentAssumption ==
  /\ \A a \in Arguments : a.target \in Seq(Nat)
  /\ Canonical \in Seq(Nat)
  /\ Hosts # {}

VARIABLES
  args,          \* the command line of the wrapper
  host,          \* how the lint, the script and its --help behave
  stage,         \* where the wrapper is
  diagnostics,   \* the severities of its diagnostics
  groups,        \* the gate runs it has still to make
  captures,      \* the gate runs it made: the group and how it ended
  report         \* the status reported, "none" before

checkVars == <<args, host, stage, diagnostics, groups, captures, report>>

TestsBelow(n) == SubSeq(TestGroups, 1, n)

RELEASE_CHECK_PROFILES ==
  LET full == <<"tooling", "release-metadata", "replay">> \o TestGroups
  IN [fast |-> <<"tooling", "release-metadata">> \o TestsBelow(1),
      local |-> <<"tooling", "release-metadata">> \o TestsBelow(3),
      full |-> full,
      candidate |-> full]   \* "release-candidate"

NoArguments == [list |-> FALSE, plan |-> FALSE, preflight_only |-> FALSE,
                skip_tooling_lint |-> FALSE, profile |-> "none",
                group |-> "none", target |-> NoTarget]

InvalidMode == \/ args.list /\ args.plan
               \/ args.profile # "none" /\ args.group # "none"
               \/ args.profile # "none" /\ args.preflight_only
               \/ /\ args.profile # "none"
                  /\ args.profile \notin DOMAIN RELEASE_CHECK_PROFILES

\* Only MAJOR.MINOR.PATCH is a target here; the default is the canonical one.
ResolvedTarget == IF args.target = NoTarget THEN Canonical ELSE args.target
ValidTarget == Len(ResolvedTarget) = 3

\* How a process ended; the exit code of one that timed out is not known.
Capture(group, timed_out, returncode, json) ==
  [group |-> group, timed_out |-> timed_out, returncode |-> returncode,
   json |-> json]

NoCode == 99

CaptureStatus(c) ==
  CASE c.timed_out -> "blocked"
    [] ~ c.timed_out /\ c.returncode = 0 ->
         IF c.json THEN "pass" ELSE "internal_error"
    [] ~ c.timed_out /\ c.returncode = 1 -> "error"
    [] ~ c.timed_out /\ c.returncode = 2 -> "blocked"
    [] OTHER -> "internal_error"

Severity(status) == IF status = "internal_error" THEN "error" ELSE status

\* Mutant: blocked runs are not looked at.
StatusFromErrors(severities) ==
  IF "error" \in severities THEN "error"
  ELSE IF "warning" \in severities THEN "warning" ELSE "pass"

\* _finalize_status: the worst severity decides.
FinalStatus(severities) ==
  IF "blocked" \in severities THEN "blocked"
  ELSE IF "error" \in severities THEN "error"
  ELSE IF "warning" \in severities THEN "warning" ELSE "pass"

Report(status) == report' = status /\ stage' = "done"

Diagnose(severity) == diagnostics' = diagnostics \cup {severity}

GateIdle == phase = "idle"
GateRunning == phase \notin {"idle", "answered"}

-----------------------------------------------------------------------------
CheckMode ==
  /\ stage = "start"
  /\ IF InvalidMode \/ ~ ValidTarget
     THEN Diagnose("blocked") /\ Report("blocked")
     ELSE /\ stage' = IF args.skip_tooling_lint THEN "preflight" ELSE "lint"
          /\ UNCHANGED <<diagnostics, report>>
  /\ UNCHANGED <<args, host, groups, captures, gateVars>>

\* A lint that does not pass stops the wrapper; one with warnings does not.
RunLint ==
  /\ stage = "lint"
  /\ \/ /\ host.lint \in {"blocked", "error", "internal_error"}
        /\ Diagnose(Severity(host.lint))
        /\ Report(host.lint)
     \/ /\ host.lint \in {"pass", "warning"}
        /\ IF host.lint = "warning" THEN Diagnose("warning")
                                    ELSE UNCHANGED diagnostics
        /\ stage' = "preflight"
        /\ UNCHANGED report
  /\ UNCHANGED <<args, host, groups, captures, gateVars>>

\* The script must be there and compile.  Its --help, which must pass and
\* name --target, is run for --preflight-only alone.
ScriptUsable == /\ host.script = "compiles"
                /\ args.preflight_only => host.help = "names_target"

GroupsToRun ==
  IF args.profile # "none" /\ ~ args.list /\ ~ args.plan
  THEN RELEASE_CHECK_PROFILES[args.profile] ELSE << args.group >>

Preflight ==
  /\ stage = "preflight"
  /\ \/ /\ ~ ScriptUsable
        /\ Diagnose("blocked")
        /\ Report("blocked")
        /\ UNCHANGED groups
     \/ /\ ScriptUsable /\ args.preflight_only
        /\ Report(FinalStatus(diagnostics))
        /\ UNCHANGED <<diagnostics, groups>>
     \/ /\ ScriptUsable /\ ~ args.preflight_only
        /\ groups' = GroupsToRun
        /\ stage' = "gate"
        /\ UNCHANGED <<diagnostics, report>>
  /\ UNCHANGED <<args, host, captures, gateVars>>

\* The wrapper never passes --skip-full-pytest.
LaunchGate ==
  /\ stage = "gate"
  /\ GateIdle
  /\ groups # <<>>
  /\ StartGate([target |-> ResolvedTarget, group |-> Head(groups),
                list |-> args.list, plan |-> args.plan,
                skip_full_pytest |-> FALSE])
  /\ UNCHANGED checkVars

\* What a list or plan run answered is recorded and not looked at; any other
\* run that did not pass is diagnosed and ends a profile.
Collect(c) ==
  /\ captures' = Append(captures, c)
  /\ LET status == CaptureStatus(c)
         ignored == args.list \/ args.plan \/ status = "pass"
         severities == IF ignored THEN diagnostics
                                  ELSE diagnostics \cup {Severity(status)}
         left == IF ignored THEN Tail(groups) ELSE <<>>
     IN /\ diagnostics' = severities
        /\ groups' = left
        /\ IF left = <<>> THEN Report(FinalStatus(severities))
                          ELSE UNCHANGED <<stage, report>>
  /\ UNCHANGED <<args, host>>

GateEnded == /\ phase' = "idle"
             /\ UNCHANGED <<sick, request, checks, ran, suite, payload>>

CollectGate ==
  /\ stage = "gate"
  /\ phase = "answered"
  /\ Collect(Capture(Head(groups), FALSE, payload.exit,
                     payload.status # "crashed"))
  /\ GateEnded

\* Mutant: the runs of a profile have no timeout.
TimeoutOutsideProfiles ==
  /\ stage = "gate" /\ args.profile = "none"
  /\ GateRunning
  /\ Collect(Capture(Head(groups), TRUE, NoCode, FALSE))
  /\ GateEnded

\* TimeoutExpired: the process is killed wherever it is.
Timeout ==
  /\ stage = "gate"
  /\ GateRunning
  /\ Collect(Capture(Head(groups), TRUE, NoCode, FALSE))
  /\ GateEnded

WrapperStep == \/ CheckMode \/ RunLint \/ Preflight \/ LaunchGate
               \/ CollectGate \/ Timeout

CheckInit == /\ args \in Arguments
             /\ host \in Hosts
             /\ stage = "start"
             /\ diagnostics = {} /\ groups = <<>> /\ captures = <<>>
             /\ report = "none"
             /\ GateInit

\* scripts/verify_release.py started from a shell.
ShellInit == /\ args = NoArguments
             /\ host = CHOOSE h \in Hosts : TRUE
             /\ stage = "shell"
             /\ diagnostics = {} /\ groups = <<>> /\ captures = <<>>
             /\ report = "none"
             /\ GateInit

StartFromShell == /\ stage = "shell"
                  /\ GateIdle
                  /\ \E r \in Requests : StartGate(r)
                  /\ UNCHANGED checkVars

GateMoves == GateStep /\ UNCHANGED checkVars

ReleaseInit == CheckInit \/ ShellInit
ReleaseNext == WrapperStep \/ StartFromShell \/ GateMoves

-----------------------------------------------------------------------------
(* Properties.                                                             *)

\* The phases and values a run of the gate and of the wrapper can hold.
ReleaseTypeOK ==
  /\ sick \in Sicknesses /\ host \in Hosts
  /\ phase \in {"idle", "tooling", "bridges", "loops", "manifests",
                "attestations", "v10", "v102", "v12", "audit",
                "router_audit", "replay",
                "tests", "verdict", "answered"}
  /\ \A c \in DOMAIN checks :
       checks[c] \in {"passed", "failed", "blocked", "pending_runtime",
                     "skipped", "excluded", "historical_baseline_preserved"}
  /\ ran \subseteq DOMAIN checks
  /\ suite.status \in {"passed", "failed", "blocked"}
  /\ payload.exit \in 0..3 \cup {NoCode}
  /\ stage \in {"shell", "start", "lint", "preflight", "gate", "done"}
  /\ diagnostics \subseteq {"warning", "error", "blocked"}
  /\ report \in {"none", "pass", "warning", "error", "blocked",
                 "internal_error"}

Answered == phase = "answered"
FullGate == request.group = "none" /\ ~ request.list /\ ~ request.plan
CurrentTarget == request.target = NoTarget
                 \/ TargetAtLeast(request.target, <<12, 0>>)

\* What --list-checks lists, a full gate of the current line executes: the
\* loops of verify() and the catalog are two lists kept by hand.  Left out
\* are the manifests of replaced lines and a check without its fixture.
ListedChecksRun ==
  Answered /\ FullGate /\ CurrentTarget /\ payload.status # "crashed" =>
    \A c \in UNION {CatalogGroupChecks[g] : g \in DOMAIN CatalogGroupChecks} :
      \/ c \in ran
      \/ c \in DOMAIN PreservedFrom
      \/ sick.check = c /\ ~ sick.fixture

RunOnce == ToolingCommands \cup BRIDGES \cup {"replay_certification", "pytest"}

\* A command that answers differently the second time, with its scripts and
\* inputs in place, never ends in a passed gate that executed it, but for a
\* target that excludes it.
FlakyNeverPasses ==
  /\ Answered /\ payload.status = "passed"
  /\ sick.check \in ran \ RunOnce
  /\ sick.first # sick.second
  /\ "missing" \notin {sick.first, sick.second}
  => sick.check \in Exclusions(request.target)

\* From v11.6.0 on, a passed gate that covers the replay has executed both
\* certifications, and both passed: nothing is left for "pending_runtime".
StrictReplayExecuted ==
  /\ Answered /\ payload.status = "passed"
  /\ FullGate \/ request.group = "replay"
  /\ ~ request.list /\ ~ request.plan
  /\ TargetAtLeast(request.target, <<11, 6, 0>>)
  => \A c \in CatalogGroupChecks.replay : c \in ran /\ checks[c] = "passed"

\* A profile that reports pass or warning, and was not asked to list or plan
\* only, made every one of its gate runs, each answered in time with 0, and no
\* pytest group of it went wrong.
ProfilePassMeansAllRan ==
  LET ofProfile == RELEASE_CHECK_PROFILES[args.profile]
  IN /\ report \in {"pass", "warning"} /\ args.profile # "none"
     /\ ~ args.plan /\ ~ args.list
     => /\ [i \in DOMAIN captures |-> captures[i].group] = ofProfile
        /\ \A i \in DOMAIN captures :
             captures[i].returncode = 0 /\ captures[i].json
        /\ ~ /\ sick.check = "pytest" /\ sick.first # "passes"
             /\ \E i \in DOMAIN ofProfile : ofProfile[i] = TestGroup(sick.file)

\* The wrapper answers even when the gate never does: its own steps, the
\* timeout among them, are all that is assumed to happen.
WrapperAnswers == stage = "start" ~> stage = "done"

\* A check that passed saw the verdict it is named for: one that must reject
\* its fixture was rejecting it.  (_same_result: "a reproducible non-zero
\* exit is the expected outcome for a negative check".)
NegativeChecksReject ==
  LET loops == FirstLoops \o SecondLoops \o ThirdLoops
      tables == {loops[i].table : i \in DOMAIN loops} \cup {V10_NATIVE_CHECKS}
  IN \A t \in tables : \A c \in DOMAIN t \cap DOMAIN checks :
       checks[c] = "passed" /\ t[c] \in {"rejects", "reports"}
       => Exec(c, t[c]) = t[c]
=============================================================================
