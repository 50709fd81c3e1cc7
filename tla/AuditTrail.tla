------------------------------ MODULE AuditTrail ------------------------------
(***************************************************************************)
(* The audit trail of core_runtime/core/audit_event.py and                 *)
(* audit_trail_index.py.  Events are derived from reports that exist       *)
(* already, each with a logical tick counted from 0 in its own report and  *)
(* a correlation with what it is about; the events of several reports are  *)
(* then collected and put into one index, ordered by (tick, correlation,   *)
(* type, id).                                                              *)
(*                                                                         *)
(* A report is a record; its fingerprint "fp" stands for the digest of its *)
(* contents, so distinct reports have distinct fingerprints.  An event has *)
(* no id of its own here: the id is a digest of type, correlation, tick    *)
(* and payload, and the payload contains the fingerprint of the report, so *)
(* the event is its own id.  Names are numbers, 0 the empty one, compared  *)
(* where the code compares strings.                                        *)
(***************************************************************************)
EXTENDS Integers, FiniteSets, SequencesExt

CONSTANTS
  Reports,      \* the reports there are
  MaxCollected  \* how many of them are collected, one of them maybe twice

\* A wrong prediction of a surrogate is the number of its row; NoRow is one
\* whose row_index is missing.
NoRow == -1

ASSUME ReportAssumption ==
  /\ \A r, s \in Reports : r.fp = s.fp => r = s
  /\ \A r \in Reports :
       /\ r.fp \in Nat
       /\ \/ /\ r.type \in {"compatibility_matrix", "expert_report"}
             /\ r.items \in Seq(ToSet(r.items))
             /\ \A k \in DOMAIN r.items :
                   r.items[k].id \in Nat /\ r.items[k].sub \in Nat
          \/ /\ r.type = "gaia_surrogate"
             /\ r.routing \in Nat /\ r.mismatches \in Seq(Nat \cup {NoRow})
          \/ /\ r.type \in {"expert_router_validation",
                             "expert_router_evaluation",
                             "expert_router_replay_certification"}
             /\ r.routing \in Nat
          \/ r.type = "expert_router_report"

VARIABLES
  collected,    \* the reports collected, in the order they came
  events,       \* their events, in the order they were derived
  trail         \* the index: its state, and the events in its order

trailVars == <<collected, events, trail>>

-----------------------------------------------------------------------------
(* Events.                                                                 *)

\* A namespace and a name; the alphabetical order of namespaces and types is
\* their order in these sequences.
Namespaces == <<"gaia_pipeline::", "pair::", "proposal::", "report::", "router::">>

Types ==
  <<"CompatibilityAccepted", "CompatibilityCertified", "CompatibilityChecked",
    "CompatibilityMatrixReported", "CompatibilityRejected",
    "ExpertProposalBatchReported", "GaiaSurrogateEvaluationCompleted",
    "GaiaSurrogatePredictionMismatch", "GaiaSurrogateProposalEvaluated",
    "ProposalAccepted", "ProposalCertified", "ProposalEvaluated",
    "ProposalMissingEvidence", "ProposalRejected", "ProposalUnsafe",
    "ProposalUnsupported", "RouterBatchReportGenerated",
    "RouterEligibilityEvaluated", "RouterFixtureValidated",
    "RouterReplayCertified", "RouterReplayDiverged">>

NamespaceRank ==
  [n \in ToSet(Namespaces) |-> CHOOSE k \in DOMAIN Namespaces : Namespaces[k] = n]

TypeRank == [t \in ToSet(Types) |-> CHOOSE k \in DOMAIN Types : Types[k] = t]

\* A correlation must have a namespace and a name that is not empty.
Correlation(namespace, name) == <<namespace, name>>

Event(type, correlation, tick, payload) ==
  [type |-> type, correlation |-> correlation, tick |-> tick,
   payload |-> payload]

\* Mutant of SortKey: the id is left out.
KeyWithoutId(e) ==
  <<e.tick, NamespaceRank[e.correlation[1]],
    e.correlation[2], TypeRank[e.type]>>

\* Of two events alike but for their payload, the digests decide: in the order
\* of the reports' fingerprints, one fixed order as good as any.
SortKey(e) ==
  <<e.tick, NamespaceRank[e.correlation[1]],
    e.correlation[2], TypeRank[e.type], e.payload.fp>>

\* Tuples of numbers in lexicographic order.
Precedes(s, t) ==
  \E k \in DOMAIN s \cap DOMAIN t :
    s[k] < t[k] /\ \A j \in 1..(k - 1) : s[j] = t[j]

\* A list sorted by the keys of its elements; those with equal keys stay in the
\* order they were in.
SortedBy(seq, keys) ==
  LET Before(i, k) == \/ Precedes(keys[i], keys[k])
                      \/ keys[i] = keys[k] /\ i < k
      places == {<<k, Cardinality({i \in DOMAIN seq : Before(i, k)})>> : k \in DOMAIN seq}
  IN  [n \in DOMAIN seq |-> seq[(CHOOSE p \in places : p[2] = n - 1)[1]]]

Sorted(seq) == SortedBy(seq, [k \in DOMAIN seq |-> SortKey(seq[k])])

-----------------------------------------------------------------------------
(* Reports about pairs and about proposals: for each that has a name, an   *)
(* event that it was looked at and one with the decision; then one for the *)
(* report.                                                                 *)

PairDecision(pair) ==
  IF pair.status # "compatible" THEN "CompatibilityRejected"
  ELSE IF pair.certified THEN "CompatibilityCertified"
  ELSE "CompatibilityAccepted"

ProposalDecision(proposal) ==
  CASE proposal.status = "certified" -> "ProposalCertified"
    [] proposal.status = "accepted" -> "ProposalAccepted"
    [] proposal.status = "unsafe" -> "ProposalUnsafe"
    [] proposal.status = "unsupported" -> "ProposalUnsupported"
    [] proposal.status = "missing_evidence" -> "ProposalMissingEvidence"
    [] OTHER -> "ProposalRejected"

Decision(namespace, item) ==
  IF namespace = "pair::" THEN PairDecision(item) ELSE ProposalDecision(item)

\* Ticks go by the place in the sorted list, which begins with the items that
\* have no name, although there are no events of these.
LookTick(k) == 2 * k - 2

\* Mutant of DecisionTick: the decision has the tick of the look.
SameTick(k) == 2 * k - 2

DecisionTick(k) == 2 * k - 1

\* The tick of the report is the number of events before it.
ItemEvents(report, namespace, look, whole) ==
  LET items == SortedBy(report.items,
                        [k \in DOMAIN report.items |->
                           <<report.items[k].id, report.items[k].sub>>])
      unnamed == Cardinality({k \in DOMAIN items : items[k].id = 0})
      About(k) == Correlation(namespace, items[k].id)
      Of(k) == [fp |-> report.fp, item |-> items[k],
                names |-> {items[k].id, items[k].sub, report.fp}]
      Look(k) == Event(look, About(k), LookTick(k), Of(k))
      Decided(k) == Event(Decision(namespace, items[k]), About(k), DecisionTick(k), Of(k))
      all == [p \in 1..(2 * (Len(items) - unnamed)) |->
                LET half == (p + 1) \div 2
                IN  IF p = 2 * half THEN Decided(unnamed + half)
                                    ELSE Look(unnamed + half)]
  IN  Append(all, Event(whole, Correlation("report::", report.fp), Len(all),
                        [fp |-> report.fp, names |-> {report.fp}]))

CompatibilityEvents(report) ==
  ItemEvents(report, "pair::", "CompatibilityChecked",
             "CompatibilityMatrixReported")

ExpertReportEvents(report) ==
  ItemEvents(report, "proposal::", "ProposalEvaluated",
             "ExpertProposalBatchReported")

-----------------------------------------------------------------------------
(* Reports of the expert router: one event each, at tick 0.  A report about*)
(* a routing goes under its routing id, or under its own fingerprint when  *)
(* it has none.                                                            *)

RoutingOf(report) == IF report.routing # 0 THEN report.routing ELSE report.fp

RouterEvent(type, report, payload) ==
  <<Event(type, Correlation("router::", RoutingOf(report)), 0, payload)>>

ValidationEvents(report) ==
  RouterEvent("RouterFixtureValidated", report,
              [fp |-> report.fp, names |-> {RoutingOf(report), report.fp}])

\* A decision on an expert counts when it names the expert; the record of it
\* is kept only when it names the proposal too.
EvaluationEvents(report) ==
  LET Ids(side) == {d.expert : d \in side} \ {0}
      Records(side) == {d \in side : d.expert # 0 /\ d.proposal # 0}
  IN  RouterEvent("RouterEligibilityEvaluated", report,
        [fp |-> report.fp,
         selectedIds |-> Ids(report.selected),
         rejectedIds |-> Ids(report.rejected),
         selected |-> Records(report.selected),
         rejected |-> Records(report.rejected),
         names |-> {RoutingOf(report), report.fp}
                   \cup Ids(report.selected) \cup Ids(report.rejected)])

ReplayEvents(report) ==
  RouterEvent(IF report.status = "certified" THEN "RouterReplayCertified"
                                             ELSE "RouterReplayDiverged",
              report,
              [fp |-> report.fp, status |-> report.status,
               names |-> {report.routing, report.fp}])

BatchReportEvents(report) ==
  <<Event("RouterBatchReportGenerated", Correlation("report::", report.fp), 0,
          [fp |-> report.fp, files |-> report.files, names |-> {report.fp}])>>

-----------------------------------------------------------------------------
(* The evaluation of a surrogate: one event for the start, one for each    *)
(* wrong prediction in the order of their rows, and one for the end.  One  *)
(* without a row is sorted as row 0, and its event has its own number.     *)

Row(mismatch, default) == IF mismatch = NoRow THEN default ELSE mismatch

SurrogateEvents(report) ==
  LET rows == SortedBy(report.mismatches,
                       [k \in DOMAIN report.mismatches |->
                          <<Row(report.mismatches[k], 0)>>])
      About == Correlation("gaia_pipeline::", RoutingOf(report))
      Of(row) == [fp |-> report.fp, row |-> row,
                  names |-> {RoutingOf(report), report.fp}]
      Start == Event("GaiaSurrogateProposalEvaluated", About, 0, Of(0))
      Mismatch(k) == Event("GaiaSurrogatePredictionMismatch", About, k,
                           Of(Row(rows[k], k)))
      End == Event("GaiaSurrogateEvaluationCompleted", About, Len(rows) + 1, Of(0))
  IN  [p \in 1..(Len(rows) + 2) |->
         IF p = 1 THEN Start ELSE IF p = Len(rows) + 2 THEN End ELSE Mismatch(p - 1)]

\* A report of any other type is an error, and nothing is derived from it.
EventsOf(report) ==
  CASE report.type = "compatibility_matrix" -> CompatibilityEvents(report)
    [] report.type = "expert_report" -> ExpertReportEvents(report)
    [] report.type = "expert_router_validation" -> ValidationEvents(report)
    [] report.type = "expert_router_evaluation" -> EvaluationEvents(report)
    [] report.type = "expert_router_report" -> BatchReportEvents(report)
    [] report.type = "expert_router_replay_certification" -> ReplayEvents(report)
    [] report.type = "gaia_surrogate" -> SurrogateEvents(report)

-----------------------------------------------------------------------------
(* The index.  Two events with one id are refused.                         *)

IndexOf(seq) ==
  IF IsInjective(seq) THEN [state |-> "built", events |-> Sorted(seq)]
                      ELSE [state |-> "refused", events |-> <<>>]

\* Where the events under a correlation, or of a type, are in the index.
LookupCorrelation(correlation) ==
  {i \in DOMAIN trail.events : trail.events[i].correlation = correlation}

LookupType(type) == {i \in DOMAIN trail.events : trail.events[i].type = type}

-----------------------------------------------------------------------------
TrailInit(started) ==
  /\ collected = <<>> /\ events = <<>>
  /\ trail = [state |-> started, events |-> <<>>]

Collect(report) ==
  /\ trail.state = "collecting" /\ Len(collected) < MaxCollected
  /\ collected' = Append(collected, report)
  /\ events' = events \o EventsOf(report)
  /\ UNCHANGED trail

BuildIndex ==
  /\ trail.state = "collecting"
  /\ trail' = IndexOf(events)
  /\ UNCHANGED <<collected, events>>

TrailNext == BuildIndex \/ \E r \in Reports : Collect(r)

TrailSpec == TrailInit("collecting") /\ [][TrailNext]_trailVars

-----------------------------------------------------------------------------
(* Properties.                                                             *)

\* What a trail says does not depend on the order its reports came in: the
\* same events in the opposite order give the same index, and an index is
\* refused exactly when some report was collected twice
\* (AuditTrailIndex.__post_init__, canonical_event_sort_key).
ArrivalDoesNotMatter ==
  trail.state \in {"built", "refused"} =>
    /\ trail = IndexOf(Reverse(events))
    /\ trail.state = "refused" <=> ~IsInjective(collected)

Decisions == {"CompatibilityAccepted", "CompatibilityCertified",
              "CompatibilityRejected", "ProposalAccepted", "ProposalCertified",
              "ProposalRejected", "ProposalUnsafe", "ProposalUnsupported",
              "ProposalMissingEvidence"}

\* Where the events of a report are in the index.
Own(r) == {i \in DOMAIN trail.events : trail.events[i].payload.fp = r.fp}

\* What is decided was looked at before.
LookedAtFirst(r) ==
  \A j \in Own(r) : trail.events[j].type \in Decisions =>
    \E i \in Own(r) :
      /\ i < j
      /\ trail.events[i].type \in {"CompatibilityChecked", "ProposalEvaluated"}
      /\ trail.events[i].payload = trail.events[j].payload

\* One event is about the report, and all others are before it.
ReportedLast(r) ==
  \E j \in Own(r) : /\ trail.events[j].correlation[1] = "report::"
                    /\ \A i \in Own(r) : i <= j

\* The start, rows in their order, and the end.  Only where the report left
\* rows out may the number of an event stand for its row, and be above the next.
EvaluatedRowByRow(r) ==
  \E a, z \in Own(r) :
    /\ trail.events[a].type = "GaiaSurrogateProposalEvaluated"
    /\ trail.events[z].type = "GaiaSurrogateEvaluationCompleted"
    /\ \A i \in Own(r) : a <= i /\ i <= z
    /\ \A i, j \in Own(r) \ {a, z} :
         i < j => \/ trail.events[i].payload.row <= trail.events[j].payload.row
                  \/ /\ NoRow \in ToSet(r.mismatches)
                     /\ trail.events[i].payload.row = trail.events[i].tick

\* Read in the order of the index, the events of a report tell what happened
\* in the order it happened: nothing is decided before it was looked at, a
\* report comes after all it reports on when everything in it has a name, and
\* the evaluation of a surrogate starts, misses row after row and ends.
TrailTellsTheStory ==
  trail.state = "built" =>
    \A r \in ToSet(collected) :
      CASE r.type \in {"compatibility_matrix", "expert_report"} ->
             /\ LookedAtFirst(r)
             /\ (\A k \in DOMAIN r.items : r.items[k].id # 0) => ReportedLast(r)
        [] r.type = "gaia_surrogate" -> EvaluatedRowByRow(r)
        [] OTHER -> \E i \in Own(r) : Own(r) = {i}
=============================================================================
