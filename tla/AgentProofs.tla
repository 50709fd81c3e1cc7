----------------------------- MODULE AgentProofs -----------------------------
(***************************************************************************)
(* The sort of a plan decides rightly, for plans of any number of steps    *)
(* with any dependencies and whatever step of the queue is taken next; and *)
(* the files of a run that passes are what they have to be.                *)
(***************************************************************************)
EXTENDS AgentGate, FiniteSetTheorems, WellFoundedInduction, TLAPS

\* What a step still waits for.
Waiting(s) == Before(s) \ Taken

OrderTypeOK ==
  /\ size \in Nat
  /\ links \in SUBSET Dependencies(size)
  /\ inDegree \in [Steps -> Int]
  /\ queue \in SUBSET Steps
  /\ visited \in Seq(Steps)

\* The in-degrees count what each step waits for, and the queue holds those
\* that were not visited and wait for nothing.
OrderInv ==
  /\ OrderTypeOK
  /\ \A s \in Steps : inDegree[s] = Cardinality(Waiting(s))
  /\ queue = {s \in Steps \ Taken : inDegree[s] = 0}
  /\ InPlanOrder(visited)

-----------------------------------------------------------------------------
\* What a step waits for is finite, so that it can be counted.
LEMMA WaitingIsFinite ==
  ASSUME OrderTypeOK, NEW s \in Steps
  PROVE  /\ IsFiniteSet(Waiting(s))
         /\ Cardinality(Waiting(s)) \in Nat
         /\ Cardinality(Waiting(s)) = 0 <=> Waiting(s) = {}
<1>1. IsFiniteSet(Steps)
  BY FS_Interval DEF OrderTypeOK, Steps
<1>2. Waiting(s) \in SUBSET Steps
  BY DEF Waiting, Before
<1>3. IsFiniteSet(Waiting(s))
  BY <1>1, <1>2, FS_Subset
<1> QED
  BY <1>3, FS_CardinalityType, FS_EmptySet

\* Taking a step adds it, and nothing else, to what was visited.
LEMMA TakenGrows ==
  ASSUME OrderTypeOK, NEW p \in Steps, Take(p)
  PROVE  /\ Taken' = Taken \cup {p}
         /\ visited' \in Seq(Steps)
         /\ Len(visited') = Len(visited) + 1
         /\ \A k \in DOMAIN visited : visited'[k] = visited[k]
         /\ visited'[Len(visited) + 1] = p
<1>1. /\ visited \in Seq(Steps)
      /\ visited' = Append(visited, p)
  BY DEF OrderTypeOK, Take
<1>2. /\ visited' \in Seq(Steps)
      /\ Len(visited') = Len(visited) + 1
      /\ \A k \in DOMAIN visited : visited'[k] = visited[k]
      /\ visited'[Len(visited) + 1] = p
  BY <1>1
<1>3. DOMAIN visited' = DOMAIN visited \cup {Len(visited) + 1}
  BY <1>1, <1>2
<1>4. Taken' = Taken \cup {p}
  BY <1>2, <1>3 DEF Taken
<1> QED
  BY <1>2, <1>4

-----------------------------------------------------------------------------
\* The invariant holds before the first step is taken.
LEMMA OrderInitInv ==
  ASSUME NEW n \in Nat, NEW E \in SUBSET Dependencies(n), OrderInit(n, E)
  PROVE  OrderInv
<1>1. /\ size = n /\ links = E /\ visited = <<>> /\ inDegree = Degrees(n, E)
      /\ queue = {s \in Steps : Degrees(n, E)[s] = 0}
  BY DEF OrderInit, Steps
<1>2. Taken = {} /\ InPlanOrder(visited)
  BY <1>1 DEF Taken, InPlanOrder
<1>3. \A s \in Steps : Waiting(s) = {p \in 0 .. n - 1 : <<p, s>> \in E}
  BY <1>1, <1>2 DEF Waiting, Before, Steps
<1>4. \A s \in Steps : inDegree[s] = Cardinality(Waiting(s))
  BY <1>1, <1>3 DEF Degrees, Steps
<1>5. IsFiniteSet(Steps)
  BY <1>1, FS_Interval DEF Steps
<1>6. \A s \in Steps : Cardinality(Waiting(s)) \in Nat
  <2> TAKE s \in Steps
  <2>1. Waiting(s) \in SUBSET Steps
    BY DEF Waiting, Before
  <2> QED
    BY <1>5, <2>1, FS_Subset, FS_CardinalityType
<1>7. inDegree \in [Steps -> Int]
  <2>1. inDegree = [s \in Steps |-> Cardinality({p \in 0 .. n - 1 : <<p, s>> \in E})]
    BY <1>1 DEF Degrees, Steps
  <2>2. \A s \in Steps : inDegree[s] \in Int
    BY <1>4, <1>6
  <2> QED
    BY <2>1, <2>2
<1>8. OrderTypeOK
  BY <1>1, <1>7 DEF OrderTypeOK
<1> QED
  BY <1>1, <1>2, <1>4, <1>8 DEF OrderInv

\* Taking any step of the queue keeps it.
LEMMA TakeInv ==
  ASSUME OrderInv, NEW p \in queue, Take(p)
  PROVE  OrderInv'
<1>0. /\ OrderTypeOK /\ p \in Steps /\ p \notin Taken
      /\ size' = size /\ links' = links /\ Steps' = Steps
  BY DEF OrderInv, Take, Steps, OrderTypeOK
<1>1. /\ Taken' = Taken \cup {p}
      /\ visited' \in Seq(Steps)
      /\ Len(visited') = Len(visited) + 1
      /\ \A k \in DOMAIN visited : visited'[k] = visited[k]
      /\ visited'[Len(visited) + 1] = p
  BY <1>0, TakenGrows
<1>2. \A s : Before(s)' = Before(s)
  BY <1>0 DEF Before
<1>3. Waiting(p) = {} /\ Before(p) \subseteq Taken
  <2>1. inDegree[p] = 0 /\ inDegree[p] = Cardinality(Waiting(p))
    BY <1>0 DEF OrderInv
  <2> QED
    BY <2>1, <1>0, WaitingIsFinite DEF Waiting
<1>4. \A s \in Steps : inDegree'[s] = Cardinality(Waiting(s)')
  <2> SUFFICES ASSUME NEW s \in Steps
               PROVE  inDegree'[s] = Cardinality(Waiting(s)')
    OBVIOUS
  <2>1. Waiting(s)' = Waiting(s) \ {p}
    BY <1>1, <1>2 DEF Waiting
  <2>2. p \in Waiting(s) <=> <<p, s>> \in links
    BY <1>0 DEF Waiting, Before
  <2>3. Cardinality(Waiting(s)') = IF p \in Waiting(s)
                                   THEN Cardinality(Waiting(s)) - 1
                                   ELSE Cardinality(Waiting(s))
    BY <2>1, <1>0, WaitingIsFinite, FS_RemoveElement
  <2>4. inDegree'[s] = IF <<p, s>> \in links THEN inDegree[s] - 1
                       ELSE inDegree[s]
    BY DEF Take, Less
  <2>5. inDegree[s] = Cardinality(Waiting(s))
    BY DEF OrderInv
  <2> QED
    BY <2>2, <2>3, <2>4, <2>5
<1>5. inDegree' \in [Steps -> Int]
  <2>1. inDegree' = [s \in Steps |-> IF <<p, s>> \in links THEN inDegree[s] - 1
                                     ELSE inDegree[s]]
    BY DEF Take, Less
  <2>2. \A s \in Steps : inDegree[s] \in Int
    BY <1>0 DEF OrderTypeOK
  <2> QED
    BY <2>1, <2>2
<1>6. InPlanOrder(visited)'
  <2>1. visited \in Seq(Steps) /\ InPlanOrder(visited)
    BY DEF OrderInv, OrderTypeOK
  <2>2. DOMAIN visited' = DOMAIN visited \cup {Len(visited) + 1}
    BY <1>1, <2>1
  <2>3. \A k \in DOMAIN visited : visited[k] # p
    BY <1>0 DEF Taken
  <2>4. \A j, k \in DOMAIN visited' : visited'[j] = visited'[k] => j = k
    BY <1>1, <2>1, <2>2, <2>3 DEF InPlanOrder
  <2>5. ASSUME NEW k \in DOMAIN visited', NEW q \in Before(visited'[k])
        PROVE  \E j \in 1 .. k - 1 : visited'[j] = q
    <3>1. CASE k \in DOMAIN visited
      <4>1. PICK j \in 1 .. k - 1 : visited[j] = q
        BY <1>1, <2>1, <2>5, <3>1 DEF InPlanOrder
      <4>2. j \in DOMAIN visited
        BY <2>1, <3>1
      <4> QED
        BY <1>1, <4>1, <4>2
    <3>2. CASE k = Len(visited) + 1
      <4>1. q \in Taken
        BY <1>1, <1>3, <2>5, <3>2
      <4>2. PICK j \in DOMAIN visited : visited[j] = q
        BY <4>1 DEF Taken
      <4>3. j \in 1 .. k - 1
        BY <2>1, <3>2
      <4> QED
        BY <1>1, <4>2, <4>3
    <3> QED
      BY <2>2, <3>1, <3>2
  <2> QED
    BY <1>2, <2>4, <2>5 DEF InPlanOrder
<1>7. queue' = {s \in Steps \ Taken' : inDegree'[s] = 0}
  <2>1. queue = {s \in Steps \ Taken : inDegree[s] = 0}
    BY DEF OrderInv
  <2>2. /\ queue' = (queue \ {p}) \cup Freed(p)
        /\ Freed(p) = {s \in Steps : <<p, s>> \in links /\ inDegree'[s] = 0}
    BY DEF Take, Freed
  <2>3. \A s \in Steps : <<p, s>> \notin links => inDegree'[s] = inDegree[s]
    BY DEF Take, Less
  <2>4. \A s \in queue : <<p, s>> \notin links
    <3> SUFFICES ASSUME NEW s \in queue, <<p, s>> \in links PROVE FALSE
      OBVIOUS
    <3>1. s \in Steps /\ Cardinality(Waiting(s)) = 0
      BY <2>1 DEF OrderInv
    <3>2. p \in Waiting(s)
      BY <1>0 DEF Waiting, Before
    <3> QED
      BY <3>1, <3>2, <1>0, WaitingIsFinite
  <2>5. \A s \in Steps : <<p, s>> \in links => s \notin Taken \cup {p}
    <3> SUFFICES ASSUME NEW s \in Steps, <<p, s>> \in links
                 PROVE  s \notin Taken /\ s # p
      OBVIOUS
    <3>1. s # p
      BY <1>0 DEF OrderTypeOK, Dependencies
    <3>2. ASSUME s \in Taken PROVE FALSE
      <4>1. PICK k \in DOMAIN visited : visited[k] = s
        BY <3>2 DEF Taken
      <4>2. p \in Before(visited[k])
        BY <4>1, <1>0 DEF Before
      <4>3. PICK j \in 1 .. k - 1 : visited[j] = p
        BY <4>1, <4>2 DEF OrderInv, InPlanOrder
      <4>4. j \in DOMAIN visited
        BY <1>0, <4>1, <4>3 DEF OrderTypeOK
      <4> QED
        BY <1>0, <4>3, <4>4 DEF Taken
    <3> QED
      BY <3>1, <3>2
  <2>6. \A s \in queue' : s \in Steps \ Taken' /\ inDegree'[s] = 0
    BY <1>1, <2>1, <2>2, <2>3, <2>4, <2>5
  <2>7. \A s \in Steps \ Taken' : inDegree'[s] = 0 => s \in queue'
    BY <1>1, <2>1, <2>2, <2>3
  <2> QED
    BY <1>0, <2>2, <2>1, <2>6, <2>7
<1>8. OrderTypeOK'
  BY <1>0, <1>1, <1>5, <1>7 DEF OrderTypeOK
<1> QED
  BY <1>0, <1>4, <1>6, <1>7, <1>8 DEF OrderInv

\* A sequence without repeats is as long as the steps are many exactly when it
\* has all of them.
LEMMA LengthTellsAll ==
  ASSUME OrderInv
  PROVE  AllVisited <=> Steps \subseteq Taken
<1> DEFINE D == 1 .. Len(visited)
<1>1. /\ size \in Nat /\ visited \in Seq(Steps) /\ Len(visited) \in Nat
      /\ DOMAIN visited = D /\ visited \in [D -> Steps]
  BY DEF OrderInv, OrderTypeOK
<1>2. visited \in Injection(D, Steps)
  BY <1>1 DEF OrderInv, InPlanOrder, Injection, IsInjective
<1>3. IsFiniteSet(Steps) /\ Cardinality(Steps) = size
  BY <1>1, FS_Interval DEF Steps
<1>4. Cardinality(D) = Len(visited)
  BY <1>1, FS_Interval
<1>5. Len(visited) = size <=> visited \in Surjection(D, Steps)
  BY <1>2, <1>3, <1>4, FS_Injection
<1>6. visited \in Surjection(D, Steps) <=> Steps \subseteq Taken
  BY <1>1 DEF Surjection, Taken
<1> QED
  BY <1>5, <1>6 DEF AllVisited

\* It is enough for the answer to be right.
LEMMA InvDecides ==
  ASSUME OrderInv
  PROVE  SortDecides
<1>1. ASSUME queue = {}, ~ AllVisited
      PROVE  Knot(Steps \ Taken)
  <2>1. Steps \ Taken # {}
    BY <1>1, LengthTellsAll
  <2>2. ASSUME NEW s \in Steps \ Taken
        PROVE  \E p \in Steps \ Taken : <<p, s>> \in links
    <3>1. inDegree[s] # 0 /\ inDegree[s] = Cardinality(Waiting(s))
      BY <1>1 DEF OrderInv
    <3>2. Waiting(s) # {}
      BY <3>1, WaitingIsFinite DEF OrderInv
    <3> QED
      BY <3>2 DEF Waiting, Before
  <2> QED
    BY <2>1, <2>2 DEF Knot
<1>2. InPlanOrder(visited)
  BY DEF OrderInv
<1> QED
  BY <1>1, <1>2, LengthTellsAll DEF SortDecides

\* OrderInv is about the sort alone.
LEMMA SameOrder ==
  ASSUME OrderInv, UNCHANGED orderVars
  PROVE  OrderInv'
<1>1. /\ size' = size /\ links' = links /\ inDegree' = inDegree
      /\ queue' = queue /\ visited' = visited
  BY DEF orderVars
<1>2. Steps' = Steps /\ Taken' = Taken
  BY <1>1 DEF Steps, Taken
<1>3. \A s : Before(s)' = Before(s)
  BY <1>1, <1>2 DEF Before
<1>4. \A s : Waiting(s)' = Waiting(s)
  BY <1>2, <1>3 DEF Waiting
<1>5. OrderTypeOK'
  BY <1>1, <1>2 DEF OrderInv, OrderTypeOK
<1>6. InPlanOrder(visited)'
  BY <1>1, <1>3 DEF OrderInv, InPlanOrder
<1> QED
  BY <1>1, <1>2, <1>4, <1>5, <1>6 DEF OrderInv

\* The sort of any plan keeps its invariant.
THEOREM SortKeepsCount == OrderSpec => []OrderInv
<1>1. (\E n \in Nat : \E E \in SUBSET Dependencies(n) : OrderInit(n, E))
        => OrderInv
  BY OrderInitInv
<1>2. OrderInv /\ [OrderNext]_orderVars => OrderInv'
  <2>1. CASE UNCHANGED orderVars
    BY <2>1, SameOrder
  <2>2. CASE OrderNext
    BY <2>2, TakeInv DEF OrderNext
  <2> QED
    BY <2>1, <2>2
<1> QED
  BY <1>1, <1>2, PTL DEF OrderSpec

\* _topological_sort answers rightly for every plan: what it visited is an
\* order in which the steps can be carried out, complete when all of them were
\* visited; otherwise those left wait for each other.
THEOREM SortIsRight == OrderSpec => []SortDecides
<1>1. OrderInv => SortDecides
  BY InvDecides
<1> QED
  BY <1>1, SortKeepsCount, PTL

-----------------------------------------------------------------------------
\* A set of numbers that is not empty has a least one.
LEMMA LeastNumber ==
  ASSUME NEW S, S \subseteq Nat, S # {}
  PROVE  \E m \in S : \A k \in S : m <= k
<1> DEFINE Lower == {p \in Nat \X Nat : p[1] < p[2]}
<1>1. IsWellFoundedOn(Lower, Nat)
  BY NatLessThanWellFounded DEF OpToRel
<1>2. PICK m \in S : \A k \in S : <<k, m>> \notin Lower
  BY <1>1, WFMin
<1>3. ASSUME NEW k \in S
      PROVE  m <= k
  <2>1. <<k, m>> \in Nat \X Nat
    OBVIOUS
  <2> QED
    BY <1>2, <2>1
<1> QED
  BY <1>3

\* Comparing each dated entry with the dated one before it orders them all.
LEMMA DatesInOrder ==
  ASSUME NEW entries, IsSequence(entries), ~ Backwards(entries),
         \A i \in DOMAIN entries : entries[i].at \in Int
  PROVE  \A i, j \in DOMAIN entries :
            (i < j /\ entries[i].at # Absent /\ entries[j].at # Absent)
              => entries[i].at <= entries[j].at
<1> DEFINE n == Len(entries)
           Inverted(i, j) == /\ i < j
                             /\ entries[i].at # Absent /\ entries[j].at # Absent
                             /\ entries[j].at < entries[i].at
           Gaps == {g \in Nat : \E i, j \in DOMAIN entries :
                                   Inverted(i, j) /\ g = j - i}
<1>0. n \in Nat /\ DOMAIN entries = 1 .. n
  BY DEF IsSequence
<1> HIDE DEF n
<1> SUFFICES ASSUME NEW i0 \in DOMAIN entries, NEW j0 \in DOMAIN entries,
                    Inverted(i0, j0)
             PROVE  FALSE
  OBVIOUS
<1>1. j0 - i0 \in Gaps
  BY <1>0
<1>2. PICK g \in Gaps : \A k \in Gaps : g <= k
  BY <1>1, LeastNumber
<1>3. PICK i \in DOMAIN entries, j \in DOMAIN entries :
        Inverted(i, j) /\ g = j - i
  BY <1>2
<1>4. PICK k \in i + 1 .. j - 1 : entries[k].at # Absent
  BY <1>3 DEF Backwards
<1>5. /\ k \in DOMAIN entries /\ i < k /\ k < j
      /\ k - i \in Nat /\ j - k \in Nat /\ k - i < g /\ j - k < g
  <2>1. i \in Int /\ j \in Int /\ g = j - i
    BY <1>0, <1>3
  <2>2. k \in Int /\ i + 1 <= k /\ k <= j - 1
    BY <2>1
  <2>3. 1 <= i /\ j <= n
    BY <1>0
  <2>4. k \in 1 .. n
    BY <1>0, <2>1, <2>2, <2>3
  <2>5. i < k /\ k < j /\ k - i \in Nat /\ j - k \in Nat
    BY <2>1, <2>2
  <2>6. k - i < g /\ j - k < g
    BY <2>1, <2>2
  <2> QED
    BY <1>0, <2>4, <2>5, <2>6
<1>6. ~ Inverted(i, k) /\ ~ Inverted(k, j)
  BY <1>2, <1>5
<1>7. /\ entries[i].at \in Int /\ entries[j].at \in Int /\ entries[k].at \in Int
  BY <1>5
<1> QED
  BY <1>3, <1>4, <1>5, <1>6, <1>7
-----------------------------------------------------------------------------
\* A plan with no error, and that does not end the run, has steps numbered in
\* range that depend on steps in range.
LEMMA PlanIsInRange ==
  ASSUME NEW d, PlanErrors(d) = {}, IsSequence(d.steps)
  PROVE  /\ d.steps # <<>> /\ Len(d.steps) \in Nat
         /\ \A i \in DOMAIN d.steps :
               /\ d.steps[i].at \in 0 .. Len(d.steps) - 1
               /\ d.steps[i].after \subseteq 0 .. Len(d.steps) - 1
<1> DEFINE n == Len(d.steps)
           indices == {Index(d.steps[i]) : i \in DOMAIN d.steps}
<1>1. d.steps # <<>> /\ PlanBodyErrors(d) = {}
  BY DEF PlanErrors, PlanHeadErrors, When
<1>2. n \in Nat
  BY DEF IsSequence
<1>3. /\ When(~ indices \subseteq 0 .. n - 1, "step_index_out_of_range") = {}
      /\ When(\E i \in DOMAIN d.steps : ~ d.steps[i].after \subseteq indices,
              "invalid_depends_on") = {}
  BY <1>1, Zenon DEF PlanBodyErrors
<1>4. /\ indices \subseteq 0 .. n - 1
      /\ \A i \in DOMAIN d.steps : d.steps[i].after \subseteq indices
  BY <1>3 DEF When
<1>5. \A i \in DOMAIN d.steps : Index(d.steps[i]) \in 0 .. n - 1
  BY <1>4
<1>6. \A i \in DOMAIN d.steps : d.steps[i].at \in 0 .. n - 1
  BY <1>2, <1>5 DEF Index
<1> QED
  BY <1>1, <1>2, <1>4, <1>6

\* What the sort is given of a plan it sorts.
LEMMA LinksAreDependencies ==
  ASSUME NEW steps, ~ SortFails(steps), Len(steps) \in Nat
  PROVE  PlanLinks(steps) \in SUBSET Dependencies(Len(steps))
<1> DEFINE n == Len(steps)
<1> SUFFICES ASSUME NEW e \in PlanLinks(steps)
             PROVE  e \in Dependencies(n)
  OBVIOUS
<1>1. PICK i \in DOMAIN steps :
        e \in {<<p, steps[i].at>> : p \in (steps[i].after \cap 0 .. n - 1)
                                            \ {steps[i].at}}
  BY DEF PlanLinks
<1>2. PICK p \in steps[i].after \cap 0 .. n - 1 :
        p # steps[i].at /\ e = <<p, steps[i].at>>
  BY <1>1
<1>3. steps[i].at \in 0 .. n - 1
  BY <1>2 DEF SortFails
<1> QED
  BY <1>2, <1>3 DEF Dependencies

\* The order in which the sort visited all the steps of a plan is one in which
\* they can be carried out.
LEMMA VisitedIsAnOrder ==
  ASSUME NEW steps, OrderInv, AllVisited, size = Len(steps),
         links = PlanLinks(steps),
         \A i \in DOMAIN steps : /\ steps[i].at \in 0 .. Len(steps) - 1
                                 /\ steps[i].after \subseteq 0 .. Len(steps) - 1
  PROVE  PlanCanBeCarriedOut(steps)
<1> DEFINE n == Len(steps)
           place(s) == CHOOSE k \in DOMAIN visited : visited[k] = s
           position == [s \in 0 .. n - 1 |-> place(s) - 1]
<1>1. /\ Steps = 0 .. n - 1 /\ n \in Nat /\ Len(visited) = n
      /\ DOMAIN visited = 1 .. n /\ InPlanOrder(visited)
  BY DEF OrderInv, OrderTypeOK, Steps, AllVisited
<1>2. Steps \subseteq Taken
  BY LengthTellsAll
<1>3. \A s \in 0 .. n - 1 : place(s) \in 1 .. n /\ visited[place(s)] = s
  BY <1>1, <1>2 DEF Taken
<1>4. \A k \in 1 .. n : \A s \in 0 .. n - 1 : visited[k] = s => place(s) = k
  BY <1>1, <1>3 DEF InPlanOrder
<1> HIDE DEF place
<1>5. position \in [0 .. n - 1 -> 0 .. n - 1]
  BY <1>1, <1>3
<1>6. ASSUME NEW i \in 0 .. n - 1, NEW j \in 0 .. n - 1,
             position[i] = position[j]
      PROVE  i = j
  <2>1. place(i) = place(j)
    BY <1>3, <1>6
  <2> QED
    BY <1>3, <2>1
<1>7. ASSUME NEW i \in DOMAIN steps, NEW p \in steps[i].after \ {steps[i].at}
      PROVE  p \in 0 .. n - 1 /\ position[p] < position[steps[i].at]
  <2> DEFINE s == steps[i].at
  <2>1. s \in 0 .. n - 1 /\ p \in 0 .. n - 1
    OBVIOUS
  <2>2. <<p, s>> \in links
    BY <2>1 DEF PlanLinks
  <2>3. p \in Before(visited[place(s)])
    BY <1>1, <1>3, <2>1, <2>2 DEF Before
  <2>4. PICK j \in 1 .. place(s) - 1 : visited[j] = p
    BY <1>1, <1>3, <2>1, <2>3 DEF InPlanOrder
  <2>5. j \in 1 .. n /\ j < place(s)
    BY <1>1, <1>3, <2>1, <2>4
  <2>6. place(p) = j
    BY <1>4, <2>1, <2>4, <2>5
  <2> HIDE DEF s
  <2>7. position[p] = j - 1 /\ position[s] = place(s) - 1
    BY <2>1, <2>6
  <2>8. place(s) \in Int /\ j \in Int
    BY <1>1, <1>3, <2>1, <2>5
  <2> HIDE DEF position
  <2>9. position[p] < position[s]
    BY <2>5, <2>7, <2>8
  <2> QED
    BY <2>1, <2>9 DEF s
<1> QED
  BY <1>5, <1>6, <1>7, <1>1 DEF PlanCanBeCarriedOut
-----------------------------------------------------------------------------
\* An artifact without errors is of a kind its script knows and has the type
\* of that kind, and its rules, whose kind that type is, find no error either.
LEMMA NoErrorsMeansRules ==
  ASSUME NEW script, NEW file, ArtifactErrors(script, file) = {}
  PROVE  /\ JudgedAs(script, file) \in Knows(script)
         /\ Rules(script, JudgedAs(script, file),
                  [file.body EXCEPT !.kind = file.type = JudgedAs(script, file)])
              = {}
BY DEF ArtifactErrors

\* What the rules read of an artifact is what is in it.
LEMMA FieldsAreKept ==
  ASSUME NEW body, NEW kind, NEW f \in DOMAIN body, f # "kind"
  PROVE  [body EXCEPT !.kind = kind][f] = body[f]
OBVIOUS

\* The rules of every kind but the execution profile refuse the wrong type.
LEMMA WrongTypesAreRefused ==
  ASSUME NEW d
  PROVE  /\ PlanErrors(d) = {} => d.kind
         /\ PlanStepErrors(d) = {} => d.kind
         /\ PlanDependencyErrors(d) = {} => d.kind
         /\ PlanResultErrors(d) = {} => d.kind
         /\ SessionErrors(d) = {} => d.kind
         /\ TaskErrors(d) = {} => d.kind
         /\ BudgetErrors(d) = {} => d.kind
         /\ ShortTraceErrors(d) = {} => d.kind
         /\ DecisionTraceErrors(d) = {} => d.kind
         /\ InvocationErrors(d) = {} => d.kind
         /\ RequestErrors(d) = {} => d.kind
         /\ AdviceErrors(d) = {} => d.kind
         /\ BundleErrors(d) = {} => d.kind
         /\ ApprovalErrors(d) = {} => d.kind
         /\ SandboxErrors(d) = {} => d.kind
         /\ SkillErrors(d) = {} => d.kind
         /\ AmbiguityErrors(d) = {} => d.kind
<1>1. PlanErrors(d) = {} => d.kind
  BY DEF PlanErrors, PlanHeadErrors, When
<1>2. PlanStepErrors(d) = {} => d.kind
  BY DEF PlanStepErrors, When
<1>3. PlanDependencyErrors(d) = {} => d.kind
  BY DEF PlanDependencyErrors, When
<1>4. PlanResultErrors(d) = {} => d.kind
  BY DEF PlanResultErrors, When
<1>5. SessionErrors(d) = {} => d.kind
  BY DEF SessionErrors, When
<1>6. TaskErrors(d) = {} => d.kind
  BY DEF TaskErrors, When
<1>7. BudgetErrors(d) = {} => d.kind
  BY DEF BudgetErrors, When
<1>8. ShortTraceErrors(d) = {} => d.kind
  BY DEF ShortTraceErrors, When
<1>9. DecisionTraceErrors(d) = {} => d.kind
  BY DEF DecisionTraceErrors, TraceHeadErrors, When
<1>10. InvocationErrors(d) = {} => d.kind
  <2>1. \A c \in When(~ d.kind, "invalid_type") : c \in InvocationErrors(d)
    BY DEF InvocationErrors
  <2> QED
    BY <2>1 DEF When
<1>11. RequestErrors(d) = {} => d.kind
  BY DEF RequestErrors, When
<1>12. AdviceErrors(d) = {} => d.kind
  BY DEF AdviceErrors, When
<1>13. BundleErrors(d) = {} => d.kind
  BY DEF BundleErrors, When
<1>14. ApprovalErrors(d) = {} => d.kind
  BY DEF ApprovalErrors, When
<1>15. SandboxErrors(d) = {} => d.kind
  BY DEF SandboxErrors, When
<1>16. SkillErrors(d) = {} => d.kind
  BY DEF SkillErrors, When
<1>17. AmbiguityErrors(d) = {} => d.kind
  BY DEF AmbiguityErrors, When
<1> QED
  BY <1>1, <1>2, <1>3, <1>4, <1>5, <1>6, <1>7, <1>8,
     <1>9, <1>10, <1>11, <1>12, <1>13, <1>14, <1>15, <1>16, <1>17

\* No plan, session, tool, skill, advice or profile without errors waives the
\* approval of a person.
LEMMA WaiversAreRefused ==
  ASSUME NEW d
  PROVE  /\ PlanErrors(d) = {} =>
              \A i \in DOMAIN d.steps :
                 (d.steps[i].tool => d.steps[i].approval) /\ d.steps[i].supervised
         /\ InvocationErrors(d) = {}
              => \/ d.approval \notin {"no", "unsaid"}
                 \/ d.risk = "none" /\ d.effects \notin {"writes_state",
                                                         "external_side_effect"}
         /\ SessionErrors(d) = {} => d.approval # "no"
         /\ RequestErrors(d) = {} => d.approval # "no"
         /\ BundleErrors(d) = {} => d.human = "yes"
         /\ AdviceErrors(d) = {} => d.authority = "advisory_only"
         /\ SkillErrors(d) = {} => d.approval = "yes" /\ d.activation = "disabled"
         /\ (ProfileErrors(d) = {} /\ d.says \subseteq SafetyFields)
              => d.says = {} /\ SafetyFields \subseteq d.safety.given
                   /\ Object(d, "safety")
<1>1. ASSUME PlanErrors(d) = {}, NEW i \in DOMAIN d.steps
      PROVE  (d.steps[i].tool => d.steps[i].approval) /\ d.steps[i].supervised
  <2>1. d.steps # <<>> /\ PlanBodyErrors(d) = {}
    BY <1>1 DEF PlanErrors, PlanHeadErrors, When
  <2>2. UNION {ActionErrors(d.steps[k]) : k \in DOMAIN d.steps} = {}
    BY <2>1, Zenon DEF PlanBodyErrors
  <2>3. ActionErrors(d.steps[i]) = {}
    BY <1>1, <2>2
  <2> QED
    BY <2>3 DEF ActionErrors, When
<1>2. ASSUME InvocationErrors(d) = {}, d.approval \in {"no", "unsaid"}
      PROVE  /\ d.risk = "none"
             /\ d.effects \notin {"writes_state", "external_side_effect"}
  <2>1. \A c \in When(d.risk \notin Tiers, "invalid_risk_tier") :
          c \in InvocationErrors(d)
    BY DEF InvocationErrors
  <2>2. \A c \in When(d.approval = "unsaid", "missing_requires_human_approval") :
          c \in InvocationErrors(d)
    BY DEF InvocationErrors
  <2>3. \A c \in When(d.approval = "no" /\ d.risk \notin {"", "none"},
                      "approval_not_required_for_risky_tool") :
          c \in InvocationErrors(d)
    BY DEF InvocationErrors
  <2>4. \A c \in When(d.approval = "no"
                        /\ d.effects \notin {"", "none", "read_only"},
                      "approval_not_required_for_side_effects") :
          c \in InvocationErrors(d)
    BY DEF InvocationErrors
  <2> QED
    BY <1>2, <2>1, <2>2, <2>3, <2>4 DEF When, Tiers
<1>3. SessionErrors(d) = {} => d.approval # "no"
  BY DEF SessionErrors, When
<1>4. RequestErrors(d) = {} => d.approval # "no"
  BY DEF RequestErrors, When
<1>5. BundleErrors(d) = {} => d.human = "yes"
  BY DEF BundleErrors, When
<1>6. AdviceErrors(d) = {} => d.authority = "advisory_only"
  BY DEF AdviceErrors, When
<1>7. SkillErrors(d) = {} => d.approval = "yes" /\ d.activation = "disabled"
  BY DEF SkillErrors, When
<1>8. ASSUME ProfileErrors(d) = {}, d.says \subseteq SafetyFields
      PROVE  /\ d.says = {} /\ SafetyFields \subseteq d.safety.given
             /\ Object(d, "safety")
  <2>1. FieldErrors(d.root, RootFields, "missing_required_field",
                    "unknown_field", "invalid_field_type") = {}
    BY <1>8, Zenon DEF ProfileErrors
  <2>2. RootFields \subseteq d.root.given /\ d.root.mistyped \cap RootFields = {}
    BY <2>1 DEF FieldErrors, When
  <2>3. "safety" \in RootFields
    BY DEF RootFields
  <2>4. Object(d, "safety")
    BY <2>2, <2>3 DEF Object
  <2>5. FieldErrors(d.safety, SafetyFields, "missing_safety_field",
                    "unknown_safety_field", "invalid_safety_type")
          \cup When("allows_tool_execution" \in d.says,
                    "unsafe_tool_execution_allowed")
          \cup When("allows_runtime_mutation" \in d.says,
                    "unsafe_runtime_mutation_allowed") = {}
    BY <1>8, <2>4, Zenon DEF ProfileErrors
  <2> QED
    BY <1>8, <2>4, <2>5 DEF FieldErrors, When, SafetyFields
<1> QED
  BY <1>1, <1>2, <1>3, <1>4, <1>5, <1>6, <1>7, <1>8
\* A trace without errors is history.
LEMMA TracesAreHistory ==
  ASSUME NEW d, DecisionTraceErrors(d) = {}, IsSequence(d.entries),
         \A i \in DOMAIN d.entries : d.entries[i].at \in Int,
         d.root.hash \in {"ok", "missing", "malformed"}
  PROVE  TraceIsHistory(d)
<1>1. d.entries # <<>>
  BY DEF DecisionTraceErrors, TraceHeadErrors, When
<1>2. /\ \A c \in When(Backwards(d.entries), "non_monotonic_timestamps") :
            c \in DecisionTraceErrors(d)
      /\ \A c \in GovernanceErrors(d) : c \in DecisionTraceErrors(d)
      /\ \A c \in IntegrityErrors(d) : c \in DecisionTraceErrors(d)
  BY <1>1 DEF DecisionTraceErrors
<1>3. GovernanceErrors(d) = {} /\ IntegrityErrors(d) = {}
  BY <1>2
<1>4. ~ Backwards(d.entries)
  BY <1>2 DEF When
<1>5. d.root.of = Chained(d.entries)
  BY <1>3 DEF IntegrityErrors, When
<1>6. ASSUME Violations(d.entries) # {}
      PROVE  d.review
  <2>1. DOMAIN d.entries = 1 .. Len(d.entries) /\ Len(d.entries) \in Nat
    BY DEF IsSequence
  <2>2. IsFiniteSet(Violations(d.entries))
    <3>1. IsFiniteSet(1 .. Len(d.entries))
      BY <2>1, FS_Interval
    <3>2. Violations(d.entries) \in SUBSET (1 .. Len(d.entries))
      BY <2>1 DEF Violations
    <3> QED
      BY <3>1, <3>2, FS_Subset
  <2>3. Cardinality(Violations(d.entries)) > 0
    BY <1>6, <2>2, FS_EmptySet, FS_CardinalityType
  <2> QED
    BY <1>3, <2>3 DEF GovernanceErrors, When
<1> QED
  BY <1>4, <1>5, <1>6, DatesInOrder DEF TraceIsHistory

\* A file that was judged without errors is what it has to be, if its plan was
\* sorted.
LEMMA JudgedFilesAreSound ==
  ASSUME NEW script \in {"plan", "session", "gate", "invocation", "trace", "profile"},
         NEW file, WellFormed(script, file),
         file.state = "artifact", ArtifactErrors(script, file) = {},
         JudgedAs(script, file) = "agent_plan"
           => PlanCanBeCarriedOut(file.body.steps)
  PROVE  Sound(script, file)
<1> DEFINE as == JudgedAs(script, file)
           d == [file.body EXCEPT !.kind = file.type = as]
<1>1. as \in Knows(script) /\ Rules(script, as, d) = {}
  BY NoErrorsMeansRules
<1>2. FieldsOf(as) \cup {"kind"} \subseteq DOMAIN file.body
  BY <1>1 DEF WellFormed
<1>3. \A f \in DOMAIN file.body : f # "kind" => d[f] = file.body[f]
  BY FieldsAreKept
<1>4. d.kind = (file.type = as)
  BY <1>2
<1> HIDE DEF d
<1>5. script # "profile" => d.kind
  <2> SUFFICES ASSUME script # "profile" PROVE d.kind
    OBVIOUS
  <2> HIDE DEF as
  <2>1. as # "execution_profile"
    BY <1>1 DEF Knows
  <2> QED
    BY <1>1, <2>1, WrongTypesAreRefused DEF Rules, Knows
<1>6. ~ WaivesApproval(as, file.body)
  <2> HIDE DEF as
  <2>1. CASE as = "agent_plan"
    <3>1. d.steps = file.body.steps
      BY <1>2, <1>3, <2>1 DEF FieldsOf
    <3>2. PlanErrors(d) = {}
      BY <1>1, <2>1 DEF Rules
    <3> QED
      BY <2>1, <3>1, <3>2, WaiversAreRefused DEF WaivesApproval
  <2>2. CASE as = "tool_invocation_proposal"
    <3>1. /\ d.approval = file.body.approval /\ d.risk = file.body.risk
          /\ d.effects = file.body.effects
      BY <1>2, <1>3, <2>2 DEF FieldsOf
    <3>2. InvocationErrors(d) = {}
      BY <1>1, <2>2 DEF Rules
    <3> QED
      BY <2>2, <3>1, <3>2, WaiversAreRefused DEF WaivesApproval
  <2>3. CASE as = "execution_profile"
    <3>1. /\ d.says = file.body.says /\ d.safety = file.body.safety
          /\ d.root = file.body.root
      BY <1>2, <1>3, <2>3 DEF FieldsOf
    <3>2. ProfileErrors(d) = {}
      BY <1>1, <2>3 DEF Rules
    <3>3. file.body.says \subseteq SafetyFields
      BY <1>1, <2>3 DEF WellFormed, as
    <3>4. /\ d.says = {} /\ SafetyFields \subseteq d.safety.given
          /\ Object(d, "safety")
      BY <3>1, <3>2, <3>3, WaiversAreRefused
    <3> QED
      BY <2>3, <3>1, <3>4 DEF WaivesApproval, Object
  <2>4. CASE as \in {"agent_session", "execution_proposal"}
    <3>1. d.approval = file.body.approval
      BY <1>2, <1>3, <2>4 DEF FieldsOf
    <3>2. SessionErrors(d) = {} \/ RequestErrors(d) = {}
      BY <1>1, <2>4 DEF Rules
    <3> QED
      BY <2>4, <3>1, <3>2, WaiversAreRefused DEF WaivesApproval
  <2>5. CASE as = "multi_expert_review_bundle"
    <3>1. d.human = file.body.human
      BY <1>2, <1>3, <2>5 DEF FieldsOf
    <3>2. BundleErrors(d) = {}
      BY <1>1, <2>5 DEF Rules
    <3> QED
      BY <2>5, <3>1, <3>2, WaiversAreRefused DEF WaivesApproval
  <2>6. CASE as = "advisory_review"
    <3>1. d.authority = file.body.authority
      BY <1>2, <1>3, <2>6 DEF FieldsOf
    <3>2. AdviceErrors(d) = {}
      BY <1>1, <2>6 DEF Rules
    <3> QED
      BY <2>6, <3>1, <3>2, WaiversAreRefused DEF WaivesApproval
  <2>7. CASE as = "skill_promotion_candidate"
    <3>1. d.approval = file.body.approval /\ d.activation = file.body.activation
      BY <1>2, <1>3, <2>7 DEF FieldsOf
    <3>2. SkillErrors(d) = {}
      BY <1>1, <2>7 DEF Rules
    <3> QED
      BY <2>7, <3>1, <3>2, WaiversAreRefused DEF WaivesApproval
  <2> QED
    BY <2>1, <2>2, <2>3, <2>4, <2>5, <2>6, <2>7 DEF WaivesApproval
<1>7. ASSUME script = "trace"
      PROVE  TraceIsHistory(file.body)
  <2>1. /\ {"entries", "root", "review"} \subseteq DOMAIN file.body
        /\ IsSequence(file.body.entries)
        /\ \A i \in DOMAIN file.body.entries : file.body.entries[i].at \in Int
        /\ file.body.root.hash \in {"ok", "missing", "malformed"}
    BY <1>1, <1>7 DEF WellFormed
  <2>2. /\ d.entries = file.body.entries /\ d.root = file.body.root
        /\ d.review = file.body.review
    BY <1>3, <2>1
  <2>3. as = "agent_decision_trace"
    BY <1>1, <1>7 DEF Knows
  <2>4. DecisionTraceErrors(d) = {}
    BY <1>1, <1>7, <2>3 DEF Rules
  <2>5. TraceIsHistory(d)
    BY <2>1, <2>2, <2>4, TracesAreHistory
  <2> QED
    BY <2>2, <2>5 DEF TraceIsHistory
<1> QED
  BY <1>1, <1>4, <1>5, <1>6, <1>7 DEF Sound
-----------------------------------------------------------------------------
\* The sort of another plan begins as any sort does.
LEMMA StartOrderInv ==
  \A n \in Nat : \A E \in SUBSET Dependencies(n) :
     StartOrder(n, E) => OrderInv'
<1> SUFFICES ASSUME NEW n \in Nat, NEW E \in SUBSET Dependencies(n)
             PROVE  StartOrder(n, E) => OrderInv'
  OBVIOUS
<1>1. OrderInit(n, E) => OrderInv
  BY OrderInitInv
<1>2. OrderInit(n, E)' => OrderInv'
  BY <1>1, PTL
<1> QED
  BY <1>2 DEF StartOrder, OrderInit

\* A run so far: of the files that were judged without error each is what it
\* has to be, a plan being sorted is the one that is read, and a run that
\* passed judged every file.
GateInv ==
  /\ desk \in Desks
  /\ OrderInv
  /\ IsSequence(judged) /\ Len(judged) <= Len(desk.files)
  /\ sorting \in BOOLEAN
  /\ sorting => /\ Len(judged) < Len(desk.files)
                /\ Sorts(desk.script, Current) /\ ~ Breaks(desk.script, Current)
                /\ size = Len(Current.body.steps)
                /\ links = PlanLinks(Current.body.steps)
  /\ \A k \in DOMAIN judged :
        judged[k] = {} => Sound(desk.script, desk.files[k])
  /\ ended.status = "passed" =>
        /\ Len(judged) = Len(desk.files)
        /\ \A k \in DOMAIN judged : judged[k] = {}
\* What is read after the files that were judged.
LEMMA CurrentIsAFile ==
  ASSUME DeskAssumption, GateInv, Len(judged) < Len(desk.files)
  PROVE  /\ Len(judged) + 1 \in DOMAIN desk.files
         /\ WellFormed(desk.script, Current)
         /\ desk.script \in {"plan", "session", "gate", "invocation", "trace",
                             "profile"}
<1>1. IsSequence(desk.files) /\ Len(judged) \in Nat
  BY DEF DeskAssumption, GateInv, IsSequence
<1>2. Len(judged) + 1 \in DOMAIN desk.files
  BY <1>1 DEF IsSequence
<1> QED
  BY <1>2 DEF DeskAssumption, GateInv, Current

\* A judgement added to those before it.
LEMMA OneMoreJudged ==
  ASSUME GateInv, Len(judged) < Len(desk.files), desk' = desk,
         NEW errors, judged' = Append(judged, errors),
         errors = {} => Sound(desk.script, Current)
  PROVE  /\ IsSequence(judged') /\ Len(judged') <= Len(desk'.files)
         /\ \A k \in DOMAIN judged' :
               judged'[k] = {} => Sound(desk'.script, desk'.files[k])
<1> DEFINE n == Len(judged)
           T == ToSet(judged) \cup {errors}
<1>1. judged \in Seq(ToSet(judged)) /\ n \in Nat /\ DOMAIN judged = 1 .. n
  BY DEF GateInv, IsSequence
<1>2. judged \in Seq(T)
  BY <1>1
<1>3. /\ judged' \in Seq(T) /\ Len(judged') = n + 1
      /\ DOMAIN judged' = 1 .. n + 1
      /\ \A k \in 1 .. n : judged'[k] = judged[k]
      /\ judged'[n + 1] = errors
  BY <1>1, <1>2
<1>4. ToSet(judged') = T
  BY <1>1, <1>3 DEF ToSet
<1>5. Len(desk.files) \in Nat
  BY DeskAssumption DEF GateInv, DeskAssumption, IsSequence
<1> QED
  BY <1>1, <1>3, <1>4, <1>5 DEF GateInv, IsSequence, Current
\* The first steps of a run, and those of another component's sort.
LEMMA GateStarts ==
  ASSUME DeskAssumption, GateInit(Desks)
  PROVE  GateInv
<1>1. desk \in Desks /\ judged = <<>> /\ sorting = FALSE /\ OrderInit(0, {})
  BY DEF GateInit
<1>2. desk.script # "nobody" /\ IsSequence(desk.files)
  BY <1>1 DEF DeskAssumption
<1>3. ended.status # "passed"
  BY <1>2 DEF GateInit, Running
<1>4. OrderInv
  BY <1>1, OrderInitInv
<1>5. IsSequence(judged) /\ Len(judged) = 0 /\ DOMAIN judged = {}
  BY <1>1 DEF IsSequence
<1>6. Len(desk.files) \in Nat
  BY <1>2 DEF IsSequence
<1>7. Len(judged) <= Len(desk.files)
  BY <1>5, <1>6
<1>8. sorting \in BOOLEAN /\ ~ sorting
  BY <1>1
<1> QED
  BY <1>1, <1>3, <1>4, <1>5, <1>7, <1>8 DEF GateInv

\* Every step of a run keeps the invariant.
LEMMA GateKeeps ==
  ASSUME DeskAssumption, GateInv, [GateNext]_gateVars
  PROVE  GateInv'
<1>1. ASSUME UNCHANGED <<desk, judged, sorting, orderVars>>,
             ended'.status # "passed" \/ ended' = ended
      PROVE  GateInv'
  <2>1. OrderInv' /\ Current' = Current /\ size' = size /\ links' = links
    BY <1>1, SameOrder DEF GateInv, Current, orderVars
  <2> QED
    BY <1>1, <2>1 DEF GateInv
<1>2. CASE UNCHANGED gateVars
  BY <1>1, <1>2 DEF gateVars
<1>3. CASE Refuse
  BY <1>1, <1>3 DEF Refuse
<1>4. CASE Crash
  BY <1>1, <1>4 DEF Crash, Crashed
<1>5. CASE JudgeFile
  <2> DEFINE errors == IF Current.state = "artifact"
                       THEN ArtifactErrors(desk.script, Current)
                       ELSE {Current.state}
  <2>1. /\ Len(judged) < Len(desk.files) /\ ~ sorting /\ ended = Running
        /\ ~ Sorts(desk.script, Current) /\ judged' = Append(judged, errors)
        /\ UNCHANGED <<desk, sorting, ended, orderVars>>
    BY <1>5 DEF JudgeFile, MayRead
  <2>2. ASSUME errors = {}
        PROVE  Sound(desk.script, Current)
    <3>1. /\ Current.state = "artifact"
          /\ ArtifactErrors(desk.script, Current) = {}
      BY <2>2
    <3>2. JudgedAs(desk.script, Current) # "agent_plan"
      <4> SUFFICES ASSUME JudgedAs(desk.script, Current) = "agent_plan"
                   PROVE  FALSE
        OBVIOUS
      <4> DEFINE d == [Current.body EXCEPT !.kind = Current.type = "agent_plan"]
      <4>1. "agent_plan" \in Knows(desk.script) /\ PlanErrors(d) = {}
        BY <3>1, NoErrorsMeansRules DEF Rules
      <4>2. desk.script = "plan" /\ Current.schema = "agent_plan"
        BY <2>1, <4>1, CurrentIsAFile DEF Knows, JudgedAs
      <4>3. WellFormed(desk.script, Current)
        BY <2>1, CurrentIsAFile
      <4>4. "steps" \in DOMAIN Current.body /\ IsSequence(Current.body.steps)
        BY <3>1, <4>1, <4>3 DEF WellFormed, FieldsOf
      <4>5. d.steps = Current.body.steps
        BY <4>4
      <4> HIDE DEF d
      <4>6. d.steps # <<>>
        BY <4>1, <4>4, <4>5, PlanIsInRange
      <4> QED
        BY <2>1, <3>1, <4>2, <4>5, <4>6 DEF Sorts
    <3> QED
      BY <2>1, <3>1, <3>2, CurrentIsAFile, JudgedFilesAreSound
  <2> HIDE DEF errors
  <2>3. /\ IsSequence(judged') /\ Len(judged') <= Len(desk'.files)
        /\ \A k \in DOMAIN judged' :
              judged'[k] = {} => Sound(desk'.script, desk'.files[k])
    BY <2>1, <2>2, OneMoreJudged
  <2>4. OrderInv'
    BY <2>1, SameOrder DEF GateInv
  <2> QED
    BY <2>1, <2>3, <2>4 DEF GateInv, Running
<1>6. CASE StartSort
  <2> DEFINE steps == Current.body.steps
  <2>1. /\ Len(judged) < Len(desk.files) /\ ended = Running
        /\ Sorts(desk.script, Current) /\ ~ Breaks(desk.script, Current)
        /\ sorting' = TRUE /\ StartOrder(Len(steps), PlanLinks(steps))
        /\ UNCHANGED <<desk, judged, ended>>
    BY <1>6 DEF StartSort, MayRead
  <2>2. IsSequence(steps) /\ ~ SortFails(steps)
    <3>1. WellFormed(desk.script, Current)
      BY <2>1, CurrentIsAFile
    <3>2. JudgedAs(desk.script, Current) = "agent_plan"
      BY <2>1 DEF Sorts, JudgedAs
    <3> QED
      BY <2>1, <3>1, <3>2 DEF WellFormed, Sorts, Breaks, Knows
  <2>3. Len(steps) \in Nat /\ PlanLinks(steps) \in SUBSET Dependencies(Len(steps))
    BY <2>2, LinksAreDependencies DEF IsSequence
  <2>4. OrderInv'
    BY <2>1, <2>3, StartOrderInv
  <2>5. /\ Current' = Current
        /\ size' = Len(steps) /\ links' = PlanLinks(steps)
    BY <2>1 DEF Current, StartOrder
  <2> QED
    BY <2>1, <2>4, <2>5 DEF GateInv, Running
<1>7. CASE VisitStep
  <2>1. /\ sorting /\ OrderNext /\ UNCHANGED <<desk, judged, sorting, ended>>
        /\ size' = size /\ links' = links
    BY <1>7 DEF VisitStep, OrderNext, Take
  <2>2. OrderInv' /\ Current' = Current
    BY <2>1, TakeInv DEF GateInv, OrderNext, Current
  <2> QED
    BY <2>1, <2>2 DEF GateInv
<1>8. CASE EndSort
  <2> DEFINE steps == Current.body.steps
             errors == ArtifactErrors("plan", Current)
                         \cup When(~ AllVisited, "circular_dependency")
  <2>1. /\ sorting /\ sorting' = FALSE /\ judged' = Append(judged, errors)
        /\ UNCHANGED <<desk, ended, orderVars>>
    BY <1>8 DEF EndSort
  <2>2. /\ Len(judged) < Len(desk.files)
        /\ Sorts(desk.script, Current) /\ ~ Breaks(desk.script, Current)
        /\ size = Len(steps) /\ links = PlanLinks(steps) /\ OrderInv
    BY <2>1 DEF GateInv
  <2>3. ASSUME errors = {}
        PROVE  Sound(desk.script, Current)
    <3>1. ArtifactErrors("plan", Current) = {} /\ AllVisited
      BY <2>3 DEF When
    <3>2. /\ desk.script = "plan" /\ Current.state = "artifact"
          /\ JudgedAs(desk.script, Current) = "agent_plan"
          /\ JudgedAs("plan", Current) = "agent_plan"
      BY <2>2 DEF Sorts, JudgedAs
    <3> DEFINE d == [Current.body EXCEPT !.kind = Current.type = "agent_plan"]
    <3>3. "agent_plan" \in Knows("plan") /\ PlanErrors(d) = {}
      BY <3>1, <3>2, NoErrorsMeansRules DEF Rules
    <3>4. WellFormed("plan", Current)
      BY <2>2, <3>2, CurrentIsAFile
    <3>5. "steps" \in DOMAIN Current.body /\ IsSequence(steps)
      BY <3>2, <3>3, <3>4 DEF WellFormed, FieldsOf
    <3>6. d.steps = steps
      BY <3>5
    <3> HIDE DEF d
    <3>7. \A i \in DOMAIN steps : /\ steps[i].at \in 0 .. Len(steps) - 1
                                  /\ steps[i].after \subseteq 0 .. Len(steps) - 1
      BY <3>3, <3>5, <3>6, PlanIsInRange
    <3>8. PlanCanBeCarriedOut(steps)
      BY <2>2, <3>1, <3>7, VisitedIsAnOrder
    <3> QED
      BY <3>1, <3>2, <3>4, <3>8, JudgedFilesAreSound
  <2> HIDE DEF errors
  <2>4. /\ IsSequence(judged') /\ Len(judged') <= Len(desk'.files)
        /\ \A k \in DOMAIN judged' :
              judged'[k] = {} => Sound(desk'.script, desk'.files[k])
    BY <2>1, <2>2, <2>3, OneMoreJudged
  <2>5. OrderInv'
    BY <2>1, SameOrder DEF GateInv
  <2>6. ended'.status # "passed"
    <3>1. Len(judged) # Len(desk.files)
      BY <2>2 DEF GateInv, DeskAssumption, IsSequence
    <3> QED
      BY <2>1, <3>1 DEF GateInv
  <2> QED
    BY <2>1, <2>4, <2>5, <2>6 DEF GateInv
<1>9. CASE WriteReport
  <2>1. /\ ~ sorting /\ UNCHANGED <<desk, judged, sorting, orderVars>>
        /\ Len(judged) = Len(desk.files)
        /\ ended'.status = "passed" => \A k \in DOMAIN judged : judged[k] = {}
    BY <1>9 DEF WriteReport
  <2>2. OrderInv'
    BY <2>1, SameOrder DEF GateInv
  <2> QED
    BY <2>1, <2>2 DEF GateInv
<1> QED
  BY <1>2, <1>3, <1>4, <1>5, <1>6, <1>7, <1>8, <1>9 DEF GateNext

\* A run that passed judged each of its files to be what it has to be.
LEMMA GateInvIsSound ==
  ASSUME DeskAssumption, GateInv
  PROVE  PassedFilesAreSound
<1> SUFFICES ASSUME ended.status = "passed", NEW k \in DOMAIN desk.files
             PROVE  Sound(desk.script, desk.files[k])
  BY DEF PassedFilesAreSound
<1>1. Len(judged) = Len(desk.files) /\ \A i \in DOMAIN judged : judged[i] = {}
  BY DEF GateInv
<1>2. k \in DOMAIN judged
  BY <1>1 DEF GateInv, DeskAssumption, IsSequence
<1> QED
  BY <1>1, <1>2 DEF GateInv

\* The scripts that judge an agent's files keep the invariant, whatever the
\* files and however many.
THEOREM GateKeepsInv == GateSpec => []GateInv
<1>1. GateInit(Desks) => GateInv
  BY DeskAssumption, GateStarts
<1>2. GateInv /\ [GateNext]_gateVars => GateInv'
  BY DeskAssumption, GateKeeps
<1> QED
  BY <1>1, <1>2, PTL DEF GateSpec

\* Whatever files an agent leaves, a run that passes read each of them whole:
\* its plan can be carried out, its trace is history, and nothing in it waives
\* the approval of a person.
THEOREM PassedIsSound == GateSpec => []PassedFilesAreSound
<1>1. GateInv => PassedFilesAreSound
  BY DeskAssumption, GateInvIsSound
<1> QED
  BY <1>1, GateKeepsInv, PTL
=============================================================================
