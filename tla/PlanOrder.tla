------------------------------ MODULE PlanOrder ------------------------------
(***************************************************************************)
(* _topological_sort of scripts/validate_agent_plan.py: whether the steps  *)
(* of an agent plan can be put in an order.  The steps are 0..size-1 and   *)
(* <<p, s>> \in links when step s depends on another step p.  The queue of *)
(* the code is first-in first-out; here any step of it may be next, since  *)
(* nothing but the number of the visited steps is used.                    *)
(***************************************************************************)
EXTENDS Integers, Sequences, FiniteSets

VARIABLES
  size,       \* len(steps)
  links,      \* adj: the dependencies between two steps
  inDegree,   \* how many dependencies of each step are still unvisited
  queue,      \* the steps none of whose dependencies is unvisited
  visited     \* the steps taken from the queue, in that order

orderVars == <<size, links, inDegree, queue, visited>>

Steps == 0 .. size - 1

\* The dependencies of step s.
Before(s) == {p \in Steps : <<p, s>> \in links}

\* in_degree of n steps with the dependencies E.
Degrees(n, E) ==
  [s \in 0 .. n - 1 |-> Cardinality({p \in 0 .. n - 1 : <<p, s>> \in E})]

OrderInit(n, E) ==
  /\ size = n /\ links = E
  /\ inDegree = Degrees(n, E)
  /\ queue = {s \in 0 .. n - 1 : Degrees(n, E)[s] = 0}
  /\ visited = <<>>

\* The sort of another plan.
StartOrder(n, E) ==
  /\ size' = n /\ links' = E
  /\ inDegree' = Degrees(n, E)
  /\ queue' = {s \in 0 .. n - 1 : Degrees(n, E)[s] = 0}
  /\ visited' = <<>>

\* in_degree once the step p was taken.
Less(p) ==
  [s \in Steps |-> IF <<p, s>> \in links THEN inDegree[s] - 1 ELSE inDegree[s]]

Freed(p) == {s \in Steps : <<p, s>> \in links /\ Less(p)[s] = 0}

Take(p) ==
  /\ visited' = Append(visited, p)
  /\ inDegree' = Less(p)
  /\ queue' = (queue \ {p}) \cup Freed(p)
  /\ UNCHANGED <<size, links>>

OrderNext == \E p \in queue : Take(p)

\* Mutant of AllVisited: "not queue" in place of "visited == n".
QueueEmpty == queue = {}

\* return visited == n
AllVisited == Len(visited) = size

Dependencies(n) == {e \in (0 .. n - 1) \X (0 .. n - 1) : e[1] # e[2]}

OrderSpec ==
  /\ \E n \in Nat : \E E \in SUBSET Dependencies(n) : OrderInit(n, E)
  /\ [][OrderNext]_orderVars

-----------------------------------------------------------------------------
Taken == {visited[k] : k \in DOMAIN visited}

\* Each step of the sequence comes once, after all it depends on.
InPlanOrder(order) ==
  /\ \A j, k \in DOMAIN order : order[j] = order[k] => j = k
  /\ \A k \in DOMAIN order : \A p \in Before(order[k]) :
        \E j \in 1 .. k - 1 : order[j] = p

\* Steps that all wait for each other: none of them can ever be first.
Knot(S) == S # {} /\ \A s \in S : \E p \in S : <<p, s>> \in links

\* What the sort answers is right: the steps it visited are, in that order, a
\* way to carry them out, each once and after its dependencies; and when no
\* step is left to visit, a plan that is not sorted has steps that wait for
\* each other, so that it is refused as circular only when it is.
SortDecides ==
  /\ InPlanOrder(visited)
  /\ queue = {} => IF AllVisited THEN Steps \subseteq Taken
                   ELSE Knot(Steps \ Taken)
=============================================================================
