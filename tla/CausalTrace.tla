----------------------------- MODULE CausalTrace -----------------------------
(***************************************************************************)
(* The causal trace of contract_evaluator.py: a graph of nodes and edges   *)
(* whose references must resolve, searched for a cycle depth first.        *)
(*                                                                         *)
(* The recursion of visit() is a stack, path: the nodes whose visit is not *)
(* over (visiting), each with the children it has still to visit.  The     *)
(* code visits nodes and children in a fixed order; here any may be next.  *)
(***************************************************************************)
EXTENDS ContractRules

VARIABLES
  path,     \* the visits under way, [node, left] each
  done,     \* visited
  cyclic    \* a visit returned True

searchVars == <<path, done, cyclic>>

\* The edges the search follows: an edge to nowhere is reported and skipped.
Refs(d) == {d.nodes[i].ref : i \in DOMAIN d.nodes}
Resolved(d) == {e \in ToSet(d.edges) : e.from \in Refs(d) /\ e.to \in Refs(d)}

Children(d, n) == {e.to : e \in {e \in Resolved(d) : e.from = n}}

-----------------------------------------------------------------------------
SearchInit == path = <<>> /\ done = {} /\ cyclic = FALSE

Visiting == {path[k].node : k \in DOMAIN path}
Top == path[Len(path)]

Visit(d, n) == [node |-> n, left |-> Children(d, n)]

\* A node that was visited before is not visited again.
VisitRoot(d) ==
  /\ path = <<>> /\ ~ cyclic
  /\ \E n \in Refs(d) \ done : path' = <<Visit(d, n)>>
  /\ UNCHANGED <<done, cyclic>>

\* Mutant of Meets: a node met again is a cycle, whether or not it is on the
\* path.
MeetsAgain(n) == n \in Visiting \cup done

\* A node met on the path to itself is a cycle.
Meets(n) == n \in Visiting

VisitChild(d) ==
  /\ path # <<>> /\ ~ cyclic
  /\ \E n \in Top.left :
       LET rest == [path EXCEPT ![Len(path)].left = @ \ {n}]
       IN IF Meets(n) THEN cyclic' = TRUE /\ UNCHANGED path
          ELSE /\ path' = IF n \in done THEN rest ELSE Append(rest, Visit(d, n))
               /\ UNCHANGED cyclic
  /\ UNCHANGED done

\* A visit returns False.
Leave ==
  /\ path # <<>> /\ ~ cyclic /\ Top.left = {}
  /\ path' = SubSeq(path, 1, Len(path) - 1)
  /\ done' = done \cup {Top.node}
  /\ UNCHANGED cyclic

SearchNext(d) == VisitRoot(d) \/ VisitChild(d) \/ Leave

SearchOver(d) == cyclic \/ (path = <<>> /\ Refs(d) \subseteq done)

-----------------------------------------------------------------------------
\* The errors of a trace, with or without a cycle.
TraceErrors(d, cycle) ==
  When(\E i, j \in DOMAIN d.nodes : i # j /\ d.nodes[i].id = d.nodes[j].id,
       "duplicate_node_id")
  \cup When(\E i, j \in DOMAIN d.nodes : i # j /\ d.nodes[i].ref = d.nodes[j].ref,
            "duplicate_node_ref")
  \cup When(d.root \notin Refs(d), "missing_root_node")
  \cup When(\E e \in ToSet(d.edges) : e \notin Resolved(d), "dangling_edge_ref")
  \cup When(\E e \in Resolved(d) : e.from = e.to, "causal_self_loop")
  \cup When(cycle, "causal_cycle")
  \cup TimestampErrors(d.at)

-----------------------------------------------------------------------------
\* What a cycle is: a chain of edges that leads from a node back to it.
CausesItself(d) ==
  \E n \in 1 .. Cardinality(Refs(d)) : \E chain \in [0 .. n -> Refs(d)] :
     /\ chain[0] = chain[n]
     /\ \A i \in 0 .. n - 1 : chain[i + 1] \in Children(d, chain[i])
=============================================================================
