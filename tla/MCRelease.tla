----------------------------- MODULE MCRelease ------------------------------
(***************************************************************************)
(* A small instance of ReleaseCheck.  One command at a time misbehaves: at *)
(* least one of each table, and one of each part of verify() that is not a *)
(* table.                                                                  *)
(***************************************************************************)
EXTENDS ReleaseCheck

MCSickChecks ==
  {"mypy_report_only", "audio_bridge", "compatibility_matrix_deterministic",
   "development_audit_enforcement_docs", "agent_session_valid_deterministic",
   "agent_session_rejects_tool_execution",
   "agent_plan_rejects_circular_dependency",
   "frozen_release_manifest_v11_5_candidate_accepted",
   "otel_jsonl_export", "replay_certification",
   "router_replay_certification", "router_derive_b", "derive_unknown"}

\* Run without looking for the inputs first.
MCUnguarded == {"audio_bridge", "replay_certification", "router_derive_b",
                "derive_unknown"}

Fails(c, ends) ==
  {[check |-> c, fixture |-> TRUE, first |-> e[1], second |-> e[2],
    file |-> {}] : e \in ends}

MCSicknesses ==
  UNION {Fails(c, {<<"ok", "other">>, <<"ok", "rejects">>, <<"ok", "ok">>,
                   <<"rejects", "rejects">>, <<"missing", "missing">>})
         : c \in MCSickChecks}
  \cup Fails("agent_plan_rejects_circular_dependency", {<<"ok", "reports">>})
  \cup {[check |-> c, fixture |-> FALSE, first |-> "ok", second |-> "ok",
         file |-> {}] : c \in MCSickChecks \ MCUnguarded}
  \cup {[check |-> "pytest", fixture |-> TRUE, first |-> e, second |-> e,
         file |-> f] :
           e \in DOMAIN Captures,
           f \in {{"tooling", "replay"}, {"run_all_examples", "replay"}, {},
                 {"test_frozen_release_manifest_v11_6", "manifest"}}}

MCRequests ==
  {[target |-> t, group |-> g, list |-> FALSE, plan |-> FALSE,
    skip_full_pytest |-> s] :
     t \in {NoTarget, <<9, 3>>, <<11, 1>>, <<11, 5, 1>>, <<12, 0>>, <<12>>},
     g \in {"none", "docs", "replay", "tests-full"},
     s \in BOOLEAN}

MCArguments ==
  {[NoArguments EXCEPT !.profile = p, !.target = t] :
     p \in {"none", "fast", "local", "full"}, t \in {NoTarget, <<12, 0>>}}
  \cup {[NoArguments EXCEPT !.group = g] : g \in {"replay", "tests", "unknown"}}
  \cup {[NoArguments EXCEPT !.group = "tooling", !.profile = "fast"],
        [NoArguments EXCEPT !.plan = TRUE, !.profile = "full"],
        [NoArguments EXCEPT !.list = TRUE, !.profile = "fast"],
        [NoArguments EXCEPT !.preflight_only = TRUE]}

MCHosts ==
  {[lint |-> l, script |-> "compiles", help |-> "names_target"] :
     l \in {"pass", "warning", "error"}}
  \cup {[lint |-> "pass", script |-> s, help |-> "fails"] :
          s \in {"compiles", "broken"}}

MCCanonical == <<12, 0, 0>>

allVars == <<gateVars, checkVars>>

Spec == /\ ReleaseInit
        /\ [][ReleaseNext]_allVars
        /\ WF_allVars(WrapperStep)
=============================================================================
