----------------------------- MODULE Explanation ------------------------------
(***************************************************************************)
(* The static explainer of core_runtime/core/explainability.py: given what *)
(* a finished execution left behind (a graph of nodes, a log of events,    *)
(* facts, and the audit trail), it answers where something came from by    *)
(* naming nodes, events, facts, projections and constraints.               *)
(*                                                                         *)
(* The artifacts are JSON documents, as the tools pass them.  An           *)
(* identifier is a tuple headed by the kind of text it is, so two          *)
(* identifiers are equal when the code's strings would be; <<"number", n>> *)
(* is a bare number, which the code compares with sequence numbers and     *)
(* with places in the graph alike.  Lists that the code sorts and rids of  *)
(* repetitions are sets.  A graph read from a document names no            *)
(* constraints, so answers have none, and the fingerprints of nodes and    *)
(* the domains of events, two more names to match, are left out.           *)
(***************************************************************************)
EXTENDS AuditTrail

CONSTANTS
  Artifacts,    \* what executions may leave behind
  Conventional  \* the routings named routing:<x>:v1, which have a fixture file

ASSUME ArtifactAssumption == \A a \in Artifacts : IsFiniteSet(a.edges)

VARIABLES
  artifacts,    \* a graph, a log and facts
  question,     \* what was asked, and
  answer        \* what the explainer said

explanationVars == <<artifacts, question, answer>>

NoId == <<"none", 0>>

NothingLeft == [present |-> FALSE, nodes |-> {}, edges |-> {}, log |-> <<>>,
                facts |-> {}]

-----------------------------------------------------------------------------
(* The graph.                                                              *)

NodeIds == {n.id : n \in artifacts.nodes}

\* The names a node goes by, what it refers to, and what its payload mentions.
NodeNames(n) ==
  {n.id, n.type, n.seq, n.order} \cup n.events \cup n.facts \cup n.others
  \cup n.payload

NodesMatching(targets, types) ==
  {n.id : n \in {n \in artifacts.nodes :
                   n.type \in types /\ NodeNames(n) \cap targets # {}}}

AnyType == {n.type : n \in artifacts.nodes}

Projecting == {<<"type", "ProjectionCommitted">>}

\* Mutant of Ancestors: only the parents of the nodes themselves.
Parents(ids) ==
  {e.source : e \in {e \in artifacts.edges : e.target \in ids}} \cap NodeIds

\* The breadth-first walk against the edges.  It passes through identifiers no
\* node has, and does not name these.
Ancestors(ids) ==
  LET up[k \in 0..Cardinality(artifacts.edges)] ==
        IF k = 0 THEN ids
        ELSE up[k - 1] \cup {e.source : e \in {e \in artifacts.edges :
                                                 e.target \in up[k - 1]}}
  IN  up[Cardinality(artifacts.edges)] \cap NodeIds

WithLineage(ids) == ids \cup Ancestors(ids)

-----------------------------------------------------------------------------
(* The log.  An event without an id goes by its sequence number.           *)

Log == ToSet(artifacts.log)

Identifier(e) == IF e.id # NoId THEN e.id ELSE <<"seq:", e.seq[2]>>

Payload(e) == e.projections \cup e.mentions

EventIds(target) ==
  {Identifier(e) : e \in {e \in Log :
     target \in {e.id, e.seq, e.type, e.task} \cup Payload(e)}}

\* The sequence numbers of the events with these identifiers.
SeqsOf(ids) == {e.seq : e \in {e \in Log : Identifier(e) \in ids}}

\* The events before and after those that match.
Neighborhood(target) ==
  LET Matches(k) ==
        LET e == artifacts.log[k]
        IN  target \in {e.id, e.seq, e.type, e.task, Identifier(e)} \cup Payload(e)
      near == UNION {{k - 1, k + 1} : k \in {k \in DOMAIN artifacts.log : Matches(k)}}
  IN  {Identifier(artifacts.log[k]) : k \in near \cap DOMAIN artifacts.log}

\* The events that committed a projection, and are called so or mention one of
\* these.
Commits(target, projections) ==
  {e \in Log :
     /\ e.type \in Projecting
     /\ \/ target \in {e.id, e.seq, Identifier(e), e.task}
        \/ Payload(e) \cap ({target} \cup projections) # {}}

-----------------------------------------------------------------------------
(* The facts.                                                              *)

Metadata(f) == f.projections \cup f.parents \cup f.events \cup f.others

FactsNamed(target) ==
  {f \in artifacts.facts : target \in {f.id, f.hash} \cup Metadata(f)}

\* A fact is also found by its transaction.
FactIds(target) ==
  {f.id : f \in FactsNamed(target)
                \cup {f \in artifacts.facts : f.transaction = target}}

FactsOfProjections(target, projections) ==
  {f.id : f \in {f \in artifacts.facts :
                   \/ target \in {f.id, f.hash}
                   \/ Metadata(f) \cap projections # {}}}

-----------------------------------------------------------------------------
(* The audit trail.                                                        *)

\* The id of an event of the trail, as an identifier.
AuditId(e) == <<"audit", e.type, e.tick, e.correlation, e.payload.fp>>

AuditMatches(target) ==
  {e \in ToSet(trail.events) :
     \/ target \in {AuditId(e), <<"type", e.type>>, e.correlation}
     \/ target \in {<<"name", n>> : n \in e.payload.names}}

AuditEvents(target) == {AuditId(e) : e \in AuditMatches(target)}
AuditCorrelations(target) == {e.correlation : e \in AuditMatches(target)}

-----------------------------------------------------------------------------
(* Answers.                                                                *)

NothingFound == [nodes |-> {}, events |-> {}, facts |-> {}, projections |-> {}]

\* An answer is complete when two kinds of evidence were found.
StatusOf(found) ==
  LET kinds == Cardinality({k \in DOMAIN found : found[k] # {}})
  IN  CASE kinds >= 2 -> "complete"
        [] kinds = 1 -> "partial"
        [] OTHER -> IF artifacts.present \/ trail.state = "built"
                    THEN "unsupported" ELSE "missing"

Answer(found) == [found |-> found, status |-> StatusOf(found)]

ProjectionsOf(target) ==
  NodesMatching({target}, Projecting)
  \cup (UNION {f.projections : f \in FactsNamed(target)})
  \cup UNION {e.projections \cup {Identifier(e)} : e \in Commits(target, {})}

CauseOfProjection(target) ==
  LET projections == AuditCorrelations(target) \cup ProjectionsOf(target)
  IN  Answer([nodes |-> WithLineage(NodesMatching({target}, Projecting)),
              events |-> AuditEvents(target) \cup
                         {Identifier(e) : e \in Commits(target, projections)},
              facts |-> FactsOfProjections(target, projections),
              projections |-> projections])

\* As the cause of a projection, with the nodes of the projections found.
OriginNodes(target, projections) ==
  NodesMatching({target}, Projecting) \cup NodesMatching(projections, AnyType)

OriginProjection(target) ==
  LET projections == AuditCorrelations(target) \cup ProjectionsOf(target)
  IN  Answer([nodes |-> WithLineage(OriginNodes(target, projections)),
              events |-> AuditEvents(target) \cup
                         {Identifier(e) : e \in Commits(target, projections)},
              facts |-> FactsOfProjections(target, projections),
              projections |-> projections])

\* The facts it names are the parents its metadata give, else the fact itself.
LineageOfFact(target) ==
  LET facts == FactIds(target)
      named == FactsNamed(target)
      parents == UNION {f.parents : f \in named}
  IN  Answer([nodes |-> WithLineage(NodesMatching({target} \cup facts, AnyType)),
              events |-> AuditEvents(target) \cup UNION {f.events : f \in named},
              facts |-> IF parents # {} THEN parents ELSE facts,
              projections |-> AuditCorrelations(target) \cup
                              UNION {f.projections : f \in named}])

\* What belongs to an event: by its sequence number, or by mentioning it.
NodesOfEvent(target, seqs) ==
  {n.id : n \in {n \in artifacts.nodes :
     \/ n.seq \in seqs
     \/ target \in {n.id, n.type} \cup n.events \cup n.facts \cup n.payload}}

FactsOfEvent(target, seqs) ==
  {f.id : f \in FactsNamed(target)
                \cup {f \in artifacts.facts : f.events \cap seqs # {}}}

ProjectionsOfEvent(target, own) ==
  UNION {e.projections \cup {Identifier(e)} : e \in {e \in Log :
    /\ e.type \in Projecting
    /\ \/ e.seq \in SeqsOf(own) \/ Identifier(e) \in own
       \/ target \in {e.id, e.type, e.task} \cup Payload(e)}}

TraceOfEvent(target) ==
  LET own == AuditEvents(target) \cup EventIds(target)
  IN  Answer([nodes |-> WithLineage(NodesOfEvent(target, SeqsOf(own))),
              events |-> own \cup Neighborhood(target),
              facts |-> FactsOfEvent(target, SeqsOf(own)),
              projections |-> AuditCorrelations(target)
                              \cup ProjectionsOfEvent(target, own)])

\* The event asked about is always among the events, whether it exists or not.
CauseOfEvent(target) ==
  Answer([NothingFound EXCEPT
            !.events = {target} \cup AuditEvents(target),
            !.projections = AuditCorrelations(target)])

\* And the report asked about is among the projections.
TraceOfReport(name) ==
  LET correlation == Correlation("report::", name)
  IN  Answer([NothingFound EXCEPT
                !.events = AuditEvents(correlation),
                !.projections = {correlation} \cup AuditCorrelations(correlation)])

-----------------------------------------------------------------------------
(* The router.  What is known of a routing are the first events under its  *)
(* correlation, in the order of the index: sets of one event, or of none.  *)

\* Mutant of OfRouting: the events of every routing.
OfAnyRouting(routing, types) ==
  {i \in DOMAIN trail.events : trail.events[i].type \in types}

OfRouting(routing, types) ==
  {i \in LookupCorrelation(Correlation("router::", routing)) :
     trail.events[i].type \in types}

FirstOf(places) ==
  {trail.events[i] : i \in {i \in places : \A j \in places : i <= j}}

ValidationOf(routing) == FirstOf(OfRouting(routing, {"RouterFixtureValidated"}))

EvaluationOf(routing) ==
  FirstOf(OfRouting(routing, {"RouterEligibilityEvaluated"}))

\* A certified replay comes before one that diverged.
ReplayOf(routing) ==
  FirstOf(OfRouting(routing, {"RouterReplayCertified", "RouterReplayDiverged"}))

\* The batch report that lists the routing's fixture; and if none does, the
\* only batch report there is.
BatchReportOf(routing) ==
  LET reports == LookupType("RouterBatchReportGenerated")
      listing == {i \in reports : /\ routing \in Conventional
                                  /\ routing \in trail.events[i].payload.files}
  IN  IF listing # {} THEN FirstOf(listing)
      ELSE IF Cardinality(reports) = 1 THEN FirstOf(reports) ELSE {}

\* What is found of a routing: its four events, the routing itself, and the
\* report.
FoundOf(routing) ==
  LET report == BatchReportOf(routing)
  IN  [NothingFound EXCEPT
         !.events = {AuditId(e) :
                       e \in ValidationOf(routing) \cup EvaluationOf(routing)
                             \cup ReplayOf(routing) \cup report},
         !.projections = {<<"name", routing>>}
                         \cup {<<"name", e.payload.fp>> : e \in report}]

RouterDecision(routing) == Answer(FoundOf(routing))

\* Mutant of OnRecord: experts listed without a record are not looked for.
OnRecordOnly(evaluation, side, expert) ==
  \E d \in evaluation.payload[side] : d.expert = expert

\* A record of the expert on this side, or failing that its place in the list.
OnRecord(evaluation, side, expert) ==
  \/ \E d \in evaluation.payload[side] : d.expert = expert
  \/ expert \in evaluation.payload[IF side = "selected" THEN "selectedIds"
                                                        ELSE "rejectedIds"]

\* Why an expert was selected, or rejected: partial unless the evaluation has
\* it on that side.
CauseOfRouter(side, routing, expert) ==
  LET found == FoundOf(routing)
      listed == \E e \in EvaluationOf(routing) : OnRecord(e, side, expert)
  IN  [Answer(found) EXCEPT !.status =
         IF ~listed /\ found.events # {} THEN "partial" ELSE @]

\* The batch report with this id.
ReportNamed(name) ==
  FirstOf({i \in LookupType("RouterBatchReportGenerated") :
             trail.events[i].payload.fp = name})

RouterReport(name) ==
  LET correlation == Correlation("report::", name)
  IN  Answer([NothingFound EXCEPT
                !.events = AuditEvents(correlation)
                           \cup {AuditId(e) : e \in ReportNamed(name)},
                !.projections = {correlation} \cup AuditCorrelations(correlation)])

-----------------------------------------------------------------------------
Nothing == [query |-> "none"]

Queries ==
  {"cause_of_projection", "origin_projection", "lineage_of_fact",
   "trace_of_event", "cause_of_event", "trace_of_report",
   "trace_of_router_report", "trace_of_router_decision",
   "evidence_for_router_decision", "cause_of_router_selection",
   "cause_of_router_rejection"}

Explain(q) ==
  CASE q.query = "cause_of_projection" -> CauseOfProjection(q.target)
    [] q.query = "origin_projection" -> OriginProjection(q.target)
    [] q.query = "lineage_of_fact" -> LineageOfFact(q.target)
    [] q.query = "trace_of_event" -> TraceOfEvent(q.target)
    [] q.query = "cause_of_event" -> CauseOfEvent(q.target)
    [] q.query = "trace_of_report" -> TraceOfReport(q.target[2])
    [] q.query = "trace_of_router_report" -> RouterReport(q.target[2])
    [] q.query \in {"trace_of_router_decision", "evidence_for_router_decision"} ->
         RouterDecision(q.target[2])
    [] q.query = "cause_of_router_selection" ->
         CauseOfRouter("selected", q.target[2], q.expert)
    [] q.query = "cause_of_router_rejection" ->
         CauseOfRouter("rejected", q.target[2], q.expert)

ExplanationInit(left) ==
  /\ artifacts \in left
  /\ question = Nothing /\ answer = Answer(NothingFound)

\* The explainer reads and never writes.  An empty name raises.
Ask(q) ==
  /\ question = Nothing
  /\ "expert" \in DOMAIN q => q.expert # 0
  /\ question' = q /\ answer' = Explain(q)
  /\ UNCHANGED artifacts

ExplanationNext(questions) == \E q \in questions : Ask(q)

\* Reports are collected and indexed; what is asked is asked of a finished
\* index, or without one.
ExplanationSpec(questions) ==
  /\ \E started \in {"none", "collecting"} : TrailInit(started)
  /\ ExplanationInit(Artifacts \cup {NothingLeft})
  /\ [][\/ TrailNext /\ UNCHANGED explanationVars
        \/ /\ trail.state \in {"none", "built"}
           /\ ExplanationNext(questions) /\ UNCHANGED trailVars
       ]_<<trailVars, explanationVars>>

-----------------------------------------------------------------------------
(* Properties.                                                             *)

\* What a question is about is somewhere in what the execution left behind.
Mentioned(target) ==
  \/ AuditMatches(target) # {}
  \/ \E n \in artifacts.nodes : target \in NodeNames(n)
  \/ \E e \in Log : target \in {e.id, e.seq, e.type, e.task, Identifier(e)}
                               \cup Payload(e)
  \/ \E f \in artifacts.facts :
       target \in {f.id, f.hash, f.transaction} \cup Metadata(f)

\* A set that holds with a target every source of an edge to it.
Closed(S) == \A e \in artifacts.edges : e.target \in S => e.source \in S

\* An explanation leaves out no cause: a node of the graph that it does not
\* name leads to none that it names, not even through identifiers that no node
\* has.  And one called complete, of anything but a routing, is about something
\* that the artifacts mention (StaticExplainer._graph_lineage, _status).
ExplanationsHoldUp ==
  question # Nothing =>
    /\ \A m \in NodeIds \ answer.found.nodes :
         \E S \in SUBSET (NodeIds \cup UNION {{e.source, e.target} :
                                               e \in artifacts.edges}) :
           Closed(S) /\ answer.found.nodes \subseteq S /\ m \notin S
    /\ answer.status = "complete" =>
         CASE question.query \in {"cause_of_projection", "origin_projection",
                                  "lineage_of_fact", "trace_of_event",
                                  "cause_of_event"} ->
                Mentioned(question.target)
           [] question.query \in {"trace_of_report", "trace_of_router_report"} ->
                Mentioned(Correlation("report::", question.target[2]))
           [] OTHER -> TRUE

\* The explainer says of a routing what was decided in it: a selection (or a
\* rejection) is completely explained only if an evaluation of this routing
\* has the expert on that side, always if all of its evaluations have, and
\* never together with the opposite, unless one evaluation says both
\* (cause_of_router_selection, cause_of_router_rejection).
ExplainedAsDecided ==
  \A side \in {"selected", "rejected"} :
    question.query = (IF side = "selected" THEN "cause_of_router_selection"
                                           ELSE "cause_of_router_rejection")
      /\ trail.state = "built" =>
      LET routing == question.target[2]
          evaluations == {r \in ToSet(collected) :
                            /\ r.type = "expert_router_evaluation"
                            /\ RoutingOf(r) = routing}
          On(r, at) == \E d \in r[at] : d.expert = question.expert
          other == CHOOSE at \in {"selected", "rejected"} : at # side
          complete == answer.status = "complete"
      IN  /\ complete => \E r \in evaluations : On(r, side)
          /\ evaluations # {} /\ (\A r \in evaluations : On(r, side)) => complete
          /\ complete
             /\ CauseOfRouter(other, routing, question.expert).status = "complete"
               => \E r \in evaluations : On(r, side) /\ On(r, other)
=============================================================================
