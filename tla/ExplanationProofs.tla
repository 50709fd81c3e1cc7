-------------------------- MODULE ExplanationProofs ---------------------------
(***************************************************************************)
(* Theorems about AuditTrail and Explanation, for any reports and whatever *)
(* an execution leaves behind.                                             *)
(*                                                                         *)
(* Of the trail: sorting puts the events in their one order                *)
(* (SortedByIsSorted), since a sort key is of one event (KeysIdentify).    *)
(* The invariant (TrailInv) says that the events are those of the reports, *)
(* with a repetition exactly when a report is repeated; so an index does   *)
(* not depend on the order of arrival (ArrivalsDoNotMatter), and its ticks *)
(* tell what happened (TrailsTellTheStory).                                *)
(*                                                                         *)
(* Of the explainer: an answer is what the artifacts and the index give    *)
(* (ExplanationInv).  The ancestors of a set are the least closed set      *)
(* above it (AncestorsClimb), so no cause is left out; two kinds of        *)
(* evidence need a mention (ExplanationsAlwaysHoldUp); and the first       *)
(* evaluation of a routing decides what is said of an expert               *)
(* (ExplainsWhatWasDecided).                                               *)
(*                                                                         *)
(* The lemmas on lists and ranks are those of MerkleBatchProofs.           *)
(***************************************************************************)
EXTENDS Explanation, MerkleBatchProofs

-----------------------------------------------------------------------------
(* More on lists.                                                          *)

\* Counting from the other end counts as many.
LEMMA MirrorImage ==
  ASSUME NEW n \in Nat, NEW A, A \subseteq 1..n
  PROVE  /\ IsFiniteSet(A) /\ IsFiniteSet({i \in 1..n : n + 1 - i \in A})
         /\ Cardinality({i \in 1..n : n + 1 - i \in A}) = Cardinality(A)
<1> DEFINE B == {i \in 1..n : n + 1 - i \in A}
           f == [i \in A |-> n + 1 - i]
<1>1. \A i \in A : n + 1 - i \in 1..n /\ n + 1 - (n + 1 - i) = i
  OBVIOUS
<1>2. f \in [A -> B]
  BY <1>1
<1>3. \A i, j \in A : f[i] = f[j] => i = j
  OBVIOUS
<1>4. \A j \in B : \E i \in A : f[i] = j
  <2> TAKE j \in B
  <2>1. n + 1 - j \in A /\ j \in 1..n
    OBVIOUS
  <2>2. f[n + 1 - j] = n + 1 - (n + 1 - j)
    BY <2>1
  <2>3. n + 1 - (n + 1 - j) = j
    BY <2>1
  <2> QED
    BY <2>1, <2>2, <2>3
<1> HIDE DEF f, B
<1>5. f \in Injection(A, B)
  BY <1>2, <1>3 DEF Injection, IsInjective
<1>6. f \in Surjection(A, B)
  BY <1>2, <1>4 DEF Surjection
<1>7. ExistsBijection(A, B)
  BY <1>5, <1>6 DEF ExistsBijection, Bijection
<1>8. IsFiniteSet(A)
  <2>1. A \in SUBSET (1..n) /\ IsFiniteSet(1..n)
    BY FS_Interval
  <2> QED
    BY <2>1, FS_Subset
<1> QED
  BY <1>7, <1>8, FS_Bijection DEF B

-----------------------------------------------------------------------------
(* Sorting by tuples of numbers.                                           *)

Keys(m) == [1..m -> Nat]

\* The elements of a list have keys of one length.
Keyed(n, m, keys) == \A i \in 1..n : keys[i] \in Keys(m)

\* Keys of one length are in a strict total order.
LEMMA KeysAreOrdered ==
  ASSUME NEW m \in Nat
  PROVE  /\ \A s \in Keys(m) : ~ Precedes(s, s)
         /\ \A s, t, u \in Keys(m) :
               Precedes(s, t) /\ Precedes(t, u) => Precedes(s, u)
         /\ \A s, t \in Keys(m) : s # t => Precedes(s, t) \/ Precedes(t, s)
<1>0. \A s, t \in Keys(m) :
         Precedes(s, t) <=> \E k \in 1..m : s[k] < t[k] /\ \A j \in 1..(k - 1) : s[j] = t[j]
  BY DEF Precedes, Keys
<1>1. \A s \in Keys(m) : \A k \in 1..m : s[k] \in Nat
  BY DEF Keys
<1>2. \A s \in Keys(m) : ~ Precedes(s, s)
  BY <1>0, <1>1
<1>3. ASSUME NEW s \in Keys(m), NEW t \in Keys(m), NEW u \in Keys(m),
             Precedes(s, t), Precedes(t, u)
      PROVE  Precedes(s, u)
  <2>1. PICK k \in 1..m : s[k] < t[k] /\ \A j \in 1..(k - 1) : s[j] = t[j]
    BY <1>0, <1>3
  <2>2. PICK l \in 1..m : t[l] < u[l] /\ \A j \in 1..(l - 1) : t[j] = u[j]
    BY <1>0, <1>3
  <2>3. CASE k < l
    <3>1. k \in 1..(l - 1) /\ \A j \in 1..(k - 1) : j \in 1..(l - 1)
      BY <2>3
    <3>2. s[k] < u[k] /\ \A j \in 1..(k - 1) : s[j] = u[j]
      BY <2>1, <2>2, <3>1
    <3> QED
      BY <1>0, <3>2
  <2>4. CASE l < k
    <3>1. l \in 1..(k - 1) /\ \A j \in 1..(l - 1) : j \in 1..(k - 1)
      BY <2>4
    <3>2. s[l] < u[l] /\ \A j \in 1..(l - 1) : s[j] = u[j]
      BY <2>1, <2>2, <3>1
    <3> QED
      BY <1>0, <3>2
  <2>5. CASE k = l
    <3>1. s[k] \in Nat /\ t[k] \in Nat /\ u[k] \in Nat
      BY <1>1
    <3>2. s[k] < u[k] /\ \A j \in 1..(k - 1) : s[j] = u[j]
      BY <2>1, <2>2, <2>5, <3>1
    <3> QED
      BY <1>0, <3>2
  <2> QED
    BY <2>3, <2>4, <2>5
<1>4. ASSUME NEW s \in Keys(m), NEW t \in Keys(m), s # t
      PROVE  Precedes(s, t) \/ Precedes(t, s)
  <2> DEFINE Apart == {k \in Nat : k \in 1..m /\ s[k] # t[k]}
  <2>1. Apart # {}
    <3>1. s = [k \in 1..m |-> s[k]] /\ t = [k \in 1..m |-> t[k]]
      BY DEF Keys
    <3> QED
      BY <1>4, <3>1
  <2>2. PICK k \in Apart : \A j \in Apart : k <= j
    BY <2>1, LeastNumber
  <2>3. k \in 1..m /\ \A j \in 1..(k - 1) : j \in 1..m /\ j \in Nat /\ ~ (k <= j)
    OBVIOUS
  <2>4. \A j \in 1..(k - 1) : s[j] = t[j]
    BY <2>2, <2>3
  <2>5. s[k] \in Nat /\ t[k] \in Nat /\ s[k] # t[k]
    BY <1>1, <2>2
  <2>6. s[k] < t[k] \/ t[k] < s[k]
    BY <2>5
  <2> QED
    BY <1>0, <2>3, <2>4, <2>6
<1> QED
  BY <1>2, <1>3, <1>4

\* The order of the places in a list: by key, then as they are.
Order(n, keys) ==
  {p \in (1..n) \X (1..n) : \/ Precedes(keys[p[1]], keys[p[2]])
                            \/ keys[p[1]] = keys[p[2]] /\ p[1] < p[2]}

\* Which place of the sorted list, counted from 0, goes to a place of the list.
Place(n, keys, x) == Rank(1..n, Order(n, keys), x)

\* Places of a list are in a strict total order: by their keys, and those with
\* equal keys as they come.
LEMMA OrderIsTotal ==
  ASSUME NEW n \in Nat, NEW m \in Nat, NEW keys, Keyed(n, m, keys)
  PROVE  /\ \A x \in 1..n : <<x, x>> \notin Order(n, keys)
         /\ \A x, y, z \in 1..n : /\ <<x, y>> \in Order(n, keys)
                                  /\ <<y, z>> \in Order(n, keys)
                                  => <<x, z>> \in Order(n, keys)
         /\ \A x, y \in 1..n : x # y => \/ <<x, y>> \in Order(n, keys)
                                        \/ <<y, x>> \in Order(n, keys)
<1>0. \A x \in 1..n : keys[x] \in Keys(m)
  BY DEF Keyed
<1>1. \A x, y \in 1..n : <<x, y>> \in Order(n, keys) <=>
                            \/ Precedes(keys[x], keys[y])
                            \/ keys[x] = keys[y] /\ x < y
  BY DEF Order
<1>2. \A x \in 1..n : <<x, x>> \notin Order(n, keys)
  BY <1>0, <1>1, KeysAreOrdered
<1>3. ASSUME NEW x \in 1..n, NEW y \in 1..n, NEW z \in 1..n,
             <<x, y>> \in Order(n, keys), <<y, z>> \in Order(n, keys)
      PROVE  <<x, z>> \in Order(n, keys)
  <2>1. keys[x] \in Keys(m) /\ keys[y] \in Keys(m) /\ keys[z] \in Keys(m)
    BY <1>0
  <2>2. Precedes(keys[x], keys[y]) /\ Precedes(keys[y], keys[z])
           => Precedes(keys[x], keys[z])
    BY <2>1, KeysAreOrdered
  <2>3. x < y /\ y < z => x < z
    OBVIOUS
  <2> QED
    BY <1>1, <1>3, <2>2, <2>3
<1>4. ASSUME NEW x \in 1..n, NEW y \in 1..n, x # y
      PROVE  <<x, y>> \in Order(n, keys) \/ <<y, x>> \in Order(n, keys)
  <2>1. keys[x] # keys[y] => Precedes(keys[x], keys[y]) \/ Precedes(keys[y], keys[x])
    BY <1>0, KeysAreOrdered
  <2>2. x < y \/ y < x
    BY <1>4
  <2> QED
    BY <1>1, <2>1, <2>2
<1> QED
  BY <1>2, <1>3, <1>4

\* Which place of the list a place of the sorted list has its element from.
LEMMA SortedByIs ==
  ASSUME NEW seq, IsList(seq), NEW keys, NEW m \in Nat,
         Keyed(Len(seq), m, keys)
  PROVE  /\ IsList(SortedBy(seq, keys))
         /\ Len(SortedBy(seq, keys)) = Len(seq)
         /\ \A k, x \in 1..Len(seq) :
               Place(Len(seq), keys, x) = k - 1 => SortedBy(seq, keys)[k] = seq[x]
<1> DEFINE n == Len(seq)
           R == Order(n, keys)
           places == {<<k, Cardinality({i \in DOMAIN seq :
                                          \/ Precedes(keys[i], keys[k])
                                          \/ keys[i] = keys[k] /\ i < k})>> :
                        k \in DOMAIN seq}
           From(k) == seq[(CHOOSE p \in places : p[2] = k - 1)[1]]
<1>1. n \in Nat /\ DOMAIN seq = 1..n
  BY DEF IsList
<1>2. places = {<<x, Rank(1..n, R, x)>> : x \in 1..n}
  <2>1. \A x \in 1..n : {i \in DOMAIN seq : \/ Precedes(keys[i], keys[x])
                                            \/ keys[i] = keys[x] /\ i < x}
                          = Earlier(1..n, R, x)
    BY <1>1 DEF Earlier, Order
  <2> QED
    BY <1>1, <2>1 DEF Rank
<1>3. SortedBy(seq, keys) = [k \in 1..n |-> From(k)]
  BY <1>1 DEF SortedBy
<1> HIDE DEF places, n
<1>4. \A x, y \in 1..n : Rank(1..n, R, x) = Rank(1..n, R, y) => x = y
  <2>1. IsFiniteSet(1..n)
    BY <1>1, FS_Interval
  <2>2. /\ \A x \in 1..n : <<x, x>> \notin R
        /\ \A x, y, z \in 1..n : <<x, y>> \in R /\ <<y, z>> \in R => <<x, z>> \in R
        /\ \A x, y \in 1..n : x # y => <<x, y>> \in R \/ <<y, x>> \in R
    BY <1>1, OrderIsTotal DEF n
  <2> HIDE DEF R
  <2> QED
    BY <2>1, <2>2, RanksAreTaken
<1> HIDE DEF R
<1>5. ASSUME NEW k \in 1..n, NEW x \in 1..n, Rank(1..n, R, x) = k - 1
      PROVE  From(k) = seq[x]
  <2>1. <<x, k - 1>> \in places
    BY <1>2, <1>5
  <2> DEFINE q == CHOOSE p \in places : p[2] = k - 1
  <2>2. q \in places /\ q[2] = k - 1
    BY <2>1
  <2>3. PICK y \in 1..n : q = <<y, Rank(1..n, R, y)>>
    BY <1>2, <2>2
  <2>4. y = x
    BY <1>4, <1>5, <2>2, <2>3
  <2>5. From(k) = seq[q[1]]
    OBVIOUS
  <2> HIDE DEF q, From
  <2> QED
    BY <2>3, <2>4, <2>5
<1> HIDE DEF From
<1>6. DOMAIN SortedBy(seq, keys) = 1..n
      /\ SortedBy(seq, keys) = [k \in 1..n |-> SortedBy(seq, keys)[k]]
      /\ \A k \in 1..n : SortedBy(seq, keys)[k] = From(k)
  BY <1>3
<1>7. IsList(SortedBy(seq, keys)) /\ Len(SortedBy(seq, keys)) = n
  BY <1>1, <1>6, ListOf
<1> QED
  BY <1>5, <1>6, <1>7 DEF n, R, Place

\* Every place of the list has a place of its own in the sorted list, and the
\* sorted list has no others.
LEMMA PlacesAreTaken ==
  ASSUME NEW n \in Nat, NEW m \in Nat, NEW keys, Keyed(n, m, keys)
  PROVE  /\ \A x \in 1..n : Place(n, keys, x) \in 0..(n - 1)
         /\ \A x, y \in 1..n : <<x, y>> \in Order(n, keys)
                                 <=> Place(n, keys, x) < Place(n, keys, y)
         /\ \A x, y \in 1..n : Place(n, keys, x) = Place(n, keys, y) => x = y
         /\ \A k \in 1..n : \E x \in 1..n : Place(n, keys, x) = k - 1
<1> DEFINE R == Order(n, keys)
<1>1. IsFiniteSet(1..n) /\ Cardinality(1..n) = n
  BY FS_Interval
<1>2. /\ \A x \in 1..n : <<x, x>> \notin R
      /\ \A x, y, z \in 1..n : <<x, y>> \in R /\ <<y, z>> \in R => <<x, z>> \in R
      /\ \A x, y \in 1..n : x # y => <<x, y>> \in R \/ <<y, x>> \in R
  BY OrderIsTotal
<1> HIDE DEF R
<1>3. /\ \A x \in 1..n : Rank(1..n, R, x) \in 0..(n - 1)
      /\ \A x, y \in 1..n : <<x, y>> \in R <=> Rank(1..n, R, x) < Rank(1..n, R, y)
      /\ \A x, y \in 1..n : Rank(1..n, R, x) = Rank(1..n, R, y) => x = y
      /\ \A k \in 1..n : \E x \in 1..n : Rank(1..n, R, x) = k - 1
  BY <1>1, <1>2, RanksAreTaken
<1> QED
  BY <1>3 DEF R, Place

\* One list has the elements of another, each as often, and in the order
\* of their keys.
Arranged(seq, keys, sorted, from) ==
  /\ from \in [1..Len(seq) -> 1..Len(seq)]
  /\ \A k, l \in 1..Len(seq) : from[k] = from[l] => k = l
  /\ \A x \in 1..Len(seq) : \E k \in 1..Len(seq) : from[k] = x
  /\ \A k \in 1..Len(seq) : sorted[k] = seq[from[k]]
  /\ \A k, l \in 1..Len(seq) :
        k < l => \/ Precedes(keys[from[k]], keys[from[l]])
                 \/ keys[from[k]] = keys[from[l]]

\* A sorted list has the elements of the list, each as often, and their keys do
\* not decrease (sorted of Python, which is stable).
LEMMA SortedByIsSorted ==
  ASSUME NEW seq, IsList(seq), NEW keys, NEW m \in Nat,
         Keyed(Len(seq), m, keys)
  PROVE  \E from : Arranged(seq, keys, SortedBy(seq, keys), from)
<1> DEFINE n == Len(seq)
           R == Order(n, keys)
           rank(x) == Place(n, keys, x)
           from == [k \in 1..n |-> CHOOSE x \in 1..n : rank(x) = k - 1]
           sorted == SortedBy(seq, keys)
<1>1. n \in Nat /\ Keyed(n, m, keys)
  BY DEF IsList
<1>3. \A k, x \in 1..n : Place(n, keys, x) = k - 1 => sorted[k] = seq[x]
  BY SortedByIs
<1> HIDE DEF n, sorted
<1>2. /\ \A x \in 1..n : rank(x) \in 0..(n - 1)
      /\ \A x, y \in 1..n : <<x, y>> \in R <=> rank(x) < rank(y)
      /\ \A x, y \in 1..n : rank(x) = rank(y) => x = y
      /\ \A k \in 1..n : \E x \in 1..n : rank(x) = k - 1
  BY <1>1, PlacesAreTaken
<1>4. \A x, y \in 1..n : <<x, y>> \in R => \/ Precedes(keys[x], keys[y])
                                           \/ keys[x] = keys[y]
  BY DEF Order
<1> HIDE DEF R, rank
<1>5. \A k \in 1..n : from[k] \in 1..n /\ rank(from[k]) = k - 1
  BY <1>2
<1>6. from \in [1..n -> 1..n]
  BY <1>5
<1> HIDE DEF from
<1>7. \A k, l \in 1..n : from[k] = from[l] => k = l
  <2> TAKE k, l \in 1..n
  <2>1. k - 1 = l - 1 => k = l
    BY <1>1
  <2> QED
    BY <1>5, <2>1
<1>8. \A x \in 1..n : \E k \in 1..n : from[k] = x
  <2> TAKE x \in 1..n
  <2>1. rank(x) \in 0..(n - 1)
    BY <1>2
  <2> DEFINE k == rank(x) + 1
  <2>2. k \in 1..n /\ k - 1 = rank(x)
    BY <1>1, <2>1
  <2> HIDE DEF k
  <2>3. rank(from[k]) = rank(x) /\ from[k] \in 1..n
    BY <1>5, <2>2
  <2> QED
    BY <1>2, <2>2, <2>3
<1>9. \A k \in 1..n : sorted[k] = seq[from[k]]
  BY <1>3, <1>5 DEF rank
<1>10. \A k, l \in 1..n : k < l => \/ Precedes(keys[from[k]], keys[from[l]])
                                   \/ keys[from[k]] = keys[from[l]]
  <2> TAKE k, l \in 1..n
  <2> HAVE k < l
  <2>1. rank(from[k]) < rank(from[l])
    BY <1>1, <1>5
  <2> QED
    BY <1>2, <1>4, <1>5, <2>1
<1> QED
  BY <1>6, <1>7, <1>8, <1>9, <1>10 DEF n, sorted, Arranged

\* A list and its reverse, of elements with different keys, are sorted alike.
LEMMA ReverseIsSortedAlike ==
  ASSUME NEW seq, IsList(seq), NEW keys, NEW mirrored, NEW m \in Nat,
         Keyed(Len(seq), m, keys),
         \A i, j \in 1..Len(seq) : keys[i] = keys[j] => i = j,
         \A i \in 1..Len(seq) : mirrored[i] = keys[Len(seq) + 1 - i]
  PROVE  SortedBy(Reverse(seq), mirrored) = SortedBy(seq, keys)
<1> DEFINE n == Len(seq)
           back == Reverse(seq)
           R == Order(n, keys)
           M == Order(n, mirrored)
           other(x) == n + 1 - x
           a == SortedBy(back, mirrored)
           b == SortedBy(seq, keys)
<1>1. n \in Nat /\ Keyed(n, m, keys)
  BY DEF IsList
<1>0. /\ \A i, j \in 1..n : keys[i] = keys[j] => i = j
      /\ \A i \in 1..n : keys[i] \in Keys(m)
      /\ \A i \in 1..n : mirrored[i] = keys[other(i)]
  BY DEF Keyed
<1>1a. \A k, x \in 1..n : Place(n, keys, x) = k - 1 => b[k] = seq[x]
  BY SortedByIs
<1>2. /\ IsList(back) /\ Len(back) = n
      /\ \A x \in 1..n : back[x] = seq[other(x)]
  <2>1. back = [x \in 1..n |-> seq[n - x + 1]]
    BY DEF Reverse
  <2>2. DOMAIN back = 1..n /\ back = [x \in 1..n |-> back[x]]
    BY <2>1
  <2> HIDE DEF back
  <2>3. IsList(back) /\ Len(back) = n
    BY <1>1, <2>2, ListOf
  <2>4. \A x \in 1..n : n - x + 1 = other(x)
    BY <1>1
  <2> QED
    BY <2>1, <2>3, <2>4
<1>3. \A x \in 1..n : /\ other(x) \in 1..n /\ other(other(x)) = x
                      /\ keys[x] \in Keys(m) /\ mirrored[x] \in Keys(m)
  <2> TAKE x \in 1..n
  <2>1. n + 1 - x \in 1..n /\ n + 1 - (n + 1 - x) = x
    BY <1>1
  <2>2. keys[x] \in Keys(m) /\ keys[n + 1 - x] \in Keys(m)
    BY <1>0, <2>1
  <2> QED
    BY <1>0, <2>1, <2>2
<1> HIDE DEF back, n
<1>4. \A x \in 1..n : Rank(1..n, M, other(x)) = Rank(1..n, R, x)
  <2> TAKE x \in 1..n
  <2> DEFINE A == Earlier(1..n, R, x)
  <2>1. A \subseteq 1..n
    BY DEF Earlier
  <2>2. Earlier(1..n, M, other(x)) = {i \in 1..n : other(i) \in A}
    <3>1. \A i \in 1..n : <<i, other(x)>> \in M <=> <<other(i), x>> \in R
      <4> TAKE i \in 1..n
      <4> DEFINE j == other(i)
                 y == other(x)
      <4>1. /\ j \in 1..n /\ y \in 1..n
            /\ mirrored[i] = keys[j] /\ mirrored[y] = keys[x]
        BY <1>0, <1>3
      <4> HIDE DEF j, y
      <4>2. <<i, y>> \in M <=> \/ Precedes(keys[j], keys[x])
                               \/ keys[j] = keys[x] /\ i < y
        BY <4>1 DEF Order
      <4>3. <<j, x>> \in R <=> \/ Precedes(keys[j], keys[x])
                               \/ keys[j] = keys[x] /\ j < x
        BY <4>1 DEF Order
      <4>4. keys[j] = keys[x] => ~ (j < x) /\ ~ (i < y)
        <5>1. keys[j] = keys[x] => j = x
          BY <1>0, <4>1
        <5>2. keys[j] = keys[x] => i = y
          BY <1>1, <5>1 DEF j, y
        <5> QED
          BY <1>1, <4>1, <5>1, <5>2
      <4> QED
        BY <4>2, <4>3, <4>4 DEF j, y
    <3>2. \A i \in 1..n : other(i) \in A <=> <<other(i), x>> \in R
      BY <1>3 DEF Earlier
    <3> HIDE DEF A, other
    <3> QED
      BY <3>1, <3>2 DEF Earlier
  <2> HIDE DEF A
  <2>3. Cardinality({i \in 1..n : n + 1 - i \in A}) = Cardinality(A)
    BY <1>1, <2>1, MirrorImage
  <2> QED
    BY <2>2, <2>3 DEF Rank, A
<1>5. \A k \in 1..n : \E x \in 1..n : Place(n, keys, x) = k - 1
  <2>1. /\ \A x \in 1..n : Place(n, keys, x) \in 0..(n - 1)
        /\ \A x, y \in 1..n : <<x, y>> \in Order(n, keys)
                                <=> Place(n, keys, x) < Place(n, keys, y)
        /\ \A x, y \in 1..n : Place(n, keys, x) = Place(n, keys, y) => x = y
        /\ \A k \in 1..n : \E x \in 1..n : Place(n, keys, x) = k - 1
    BY <1>1, PlacesAreTaken
  <2> QED
    BY <2>1
<1>6. /\ IsList(b) /\ Len(b) = n /\ IsList(a) /\ Len(a) = n
  <2>1. IsList(b) /\ Len(b) = n
    BY SortedByIs DEF n
  <2>2. Keyed(Len(back), m, mirrored)
    BY <1>2, <1>3 DEF Keyed
  <2> QED
    BY <1>2, <2>1, <2>2, SortedByIs
<1> HIDE DEF b
<1>7. \A k \in 1..n : a[k] = b[k]
  <2> TAKE k \in 1..n
  <2>1. PICK x \in 1..n : Place(n, keys, x) = k - 1
    BY <1>5
  <2>2. b[k] = seq[x]
    BY <1>1a, <2>1
  <2>3. other(x) \in 1..n /\ Place(n, mirrored, other(x)) = k - 1
    BY <1>3, <1>4, <2>1 DEF Place
  <2> DEFINE y == other(x)
  <2> HIDE DEF y
  <2>4. y \in 1..Len(back) /\ Place(Len(back), mirrored, y) = k - 1
    BY <1>2, <2>3 DEF y
  <2>5. a[k] = back[y]
    <3>1. Keyed(Len(back), m, mirrored)
      BY <1>2, <1>3 DEF Keyed
    <3>2. /\ IsList(a) /\ Len(a) = Len(back)
          /\ \A l, z \in 1..Len(back) :
                Place(Len(back), mirrored, z) = l - 1 => a[l] = back[z]
      BY <1>2, <3>1, SortedByIs, SMTT(20)
    <3>3. k \in 1..Len(back)
      BY <1>2
    <3> HIDE DEF a
    <3> QED
      BY <2>4, <3>2, <3>3
  <2>6. back[y] = seq[x]
    BY <1>2, <1>3, <2>3 DEF y
  <2> QED
    BY <2>2, <2>5, <2>6
<1> HIDE DEF a
<1>8. a = [k \in 1..n |-> a[k]] /\ b = [k \in 1..n |-> b[k]]
  BY <1>6 DEF IsList
<1>9. a = b
  BY <1>7, <1>8
<1> QED
  BY <1>9 DEF a, b, back

-----------------------------------------------------------------------------
(* The events derived from a report.                                       *)

\* Types and namespaces are ranked by numbers, and types with one rank are equal.
LEMMA RanksAreNumbers ==
  /\ \A t \in ToSet(Types) : TypeRank[t] \in Nat /\ Types[TypeRank[t]] = t
  /\ \A s \in ToSet(Namespaces) : NamespaceRank[s] \in Nat
<1>1. DOMAIN Types = 1..21 /\ DOMAIN Namespaces = 1..5
  BY DEF Types, Namespaces
<1>2. /\ \A t \in ToSet(Types) : \E k \in 1..21 : Types[k] = t
      /\ \A s \in ToSet(Namespaces) : \E k \in 1..5 : Namespaces[k] = s
  BY <1>1 DEF ToSet
<1>3. \A t \in ToSet(Types) : TypeRank[t] \in 1..21 /\ Types[TypeRank[t]] = t
  BY <1>1, <1>2 DEF TypeRank
<1>4. \A s \in ToSet(Namespaces) : NamespaceRank[s] \in 1..5
  BY <1>1, <1>2 DEF NamespaceRank
<1> QED
  BY <1>3, <1>4

\* The types and namespaces of the events are among those that are ranked.
LEMMA NamesAreListed ==
  /\ {"pair::", "proposal::", "report::", "router::", "gaia_pipeline::"}
        \subseteq ToSet(Namespaces)
  /\ Decisions \subseteq ToSet(Types)
  /\ {"CompatibilityChecked", "CompatibilityMatrixReported", "ProposalEvaluated",
      "ExpertProposalBatchReported", "GaiaSurrogateProposalEvaluated",
      "GaiaSurrogatePredictionMismatch", "GaiaSurrogateEvaluationCompleted",
      "RouterFixtureValidated", "RouterEligibilityEvaluated",
      "RouterReplayCertified", "RouterReplayDiverged",
      "RouterBatchReportGenerated"} \subseteq ToSet(Types)
<1>1. \A k \in 1..5 : Namespaces[k] \in ToSet(Namespaces)
  <2>1. DOMAIN Namespaces = 1..5
    BY DEF Namespaces
  <2> QED
    BY <2>1 DEF ToSet
<1>2. \A k \in 1..21 : Types[k] \in ToSet(Types)
  <2>1. DOMAIN Types = 1..21
    BY DEF Types
  <2> QED
    BY <2>1 DEF ToSet
<1>3. {"pair::", "proposal::", "report::", "router::", "gaia_pipeline::"}
        \subseteq ToSet(Namespaces)
  <2>1. /\ Namespaces[1] = "gaia_pipeline::" /\ Namespaces[2] = "pair::"
        /\ Namespaces[3] = "proposal::" /\ Namespaces[4] = "report::"
        /\ Namespaces[5] = "router::"
    BY DEF Namespaces
  <2>2. 1 \in 1..5 /\ 2 \in 1..5 /\ 3 \in 1..5 /\ 4 \in 1..5 /\ 5 \in 1..5
    OBVIOUS
  <2>3. /\ Namespaces[1] \in ToSet(Namespaces) /\ Namespaces[2] \in ToSet(Namespaces)
        /\ Namespaces[3] \in ToSet(Namespaces) /\ Namespaces[4] \in ToSet(Namespaces)
        /\ Namespaces[5] \in ToSet(Namespaces)
    BY <1>1, <2>2
  <2> QED
    BY <2>1, <2>3
<1>4. /\ Types[1] = "CompatibilityAccepted" /\ Types[2] = "CompatibilityCertified"
      /\ Types[3] = "CompatibilityChecked" /\ Types[4] = "CompatibilityMatrixReported"
      /\ Types[5] = "CompatibilityRejected" /\ Types[6] = "ExpertProposalBatchReported"
      /\ Types[7] = "GaiaSurrogateEvaluationCompleted"
      /\ Types[8] = "GaiaSurrogatePredictionMismatch"
      /\ Types[9] = "GaiaSurrogateProposalEvaluated"
      /\ Types[10] = "ProposalAccepted" /\ Types[11] = "ProposalCertified"
      /\ Types[12] = "ProposalEvaluated" /\ Types[13] = "ProposalMissingEvidence"
      /\ Types[14] = "ProposalRejected" /\ Types[15] = "ProposalUnsafe"
      /\ Types[16] = "ProposalUnsupported" /\ Types[17] = "RouterBatchReportGenerated"
      /\ Types[18] = "RouterEligibilityEvaluated" /\ Types[19] = "RouterFixtureValidated"
      /\ Types[20] = "RouterReplayCertified" /\ Types[21] = "RouterReplayDiverged"
  BY DEF Types
<1>5. \A k \in {1, 2, 3, 4, 5, 6, 7, 8, 9, 10, 11, 12, 13, 14, 15, 16, 17, 18, 19,
                20, 21} : k \in 1..21
  OBVIOUS
<1>6. \A k \in {1, 2, 3, 4, 5, 6, 7, 8, 9, 10, 11, 12, 13, 14, 15, 16, 17, 18, 19,
                20, 21} : Types[k] \in ToSet(Types)
  BY <1>2, <1>5
<1> HIDE <1>2
<1>7. Decisions \subseteq ToSet(Types)
  BY <1>4, <1>6 DEF Decisions
<1>8. {"CompatibilityChecked", "CompatibilityMatrixReported", "ProposalEvaluated",
      "ExpertProposalBatchReported", "GaiaSurrogateProposalEvaluated",
      "GaiaSurrogatePredictionMismatch", "GaiaSurrogateEvaluationCompleted",
      "RouterFixtureValidated", "RouterEligibilityEvaluated",
      "RouterReplayCertified", "RouterReplayDiverged",
      "RouterBatchReportGenerated"} \subseteq ToSet(Types)
  BY <1>4, <1>6
<1> QED
  BY <1>3, <1>7, <1>8

\* An event of a report as it should be.
Proper(e, r) ==
  /\ e.payload.fp = r.fp /\ e.tick \in Nat
  /\ e.correlation[1] \in ToSet(Namespaces) /\ e.correlation[2] \in Nat
  /\ e.type \in ToSet(Types)

\* What is known of the items of a report.
Items(r) == /\ r.items \in Seq(ToSet(r.items))
            /\ \A k \in DOMAIN r.items : r.items[k].id \in Nat /\ r.items[k].sub \in Nat

SortedItems(r) ==
  SortedBy(r.items, [k \in DOMAIN r.items |-> <<r.items[k].id, r.items[k].sub>>])

Unnamed(r) ==
  Cardinality({k \in DOMAIN SortedItems(r) : SortedItems(r)[k].id = 0})

\* The items of a report, sorted, are as many, and those without a name are the
\* first.  There are none of these when each item has a name.
LEMMA ItemsAreSorted ==
  ASSUME NEW r, Items(r)
  PROVE  /\ IsList(r.items)
         /\ IsList(SortedItems(r)) /\ Len(SortedItems(r)) = Len(r.items)
         /\ \A k \in 1..Len(r.items) : SortedItems(r)[k].id \in Nat
         /\ Unnamed(r) \in 0..Len(r.items)
         /\ (\A k \in DOMAIN r.items : r.items[k].id # 0) => Unnamed(r) = 0
<1> DEFINE items == r.items
           n == Len(items)
           keys == [k \in 1..n |-> <<items[k].id, items[k].sub>>]
           sorted == SortedBy(items, keys)
<1>1. IsList(items)
  <2>1. items \in Seq(ToSet(items))
    BY DEF Items
  <2> DEFINE T == ToSet(items)
  <2> HIDE DEF items, T
  <2>2. items \in Seq(T)
    BY <2>1 DEF T
  <2>3. Len(items) \in Nat /\ items \in [1..Len(items) -> T]
    BY <2>2
  <2> QED
    BY <2>3 DEF IsList
<1>2. n \in Nat /\ DOMAIN items = 1..n
  BY <1>1 DEF IsList
<1>3. \A k \in 1..n : items[k].id \in Nat /\ items[k].sub \in Nat
  BY <1>2 DEF Items
<1>4. SortedItems(r) = sorted
  BY <1>2 DEF SortedItems
<1>5. Keyed(n, 2, keys)
  BY <1>2, <1>3 DEF Keyed, Keys
<1> HIDE DEF keys, items
<1>6. IsList(sorted) /\ Len(sorted) = n
  BY <1>1, <1>5, SortedByIs
<1>7. PICK from : /\ from \in [1..n -> 1..n]
                  /\ \A k, l \in 1..n : from[k] = from[l] => k = l
                  /\ \A x \in 1..n : \E k \in 1..n : from[k] = x
                  /\ \A k \in 1..n : sorted[k] = items[from[k]]
                  /\ \A k, l \in 1..n :
                        k < l => \/ Precedes(keys[from[k]], keys[from[l]])
                                 \/ keys[from[k]] = keys[from[l]]
  <2>1. \E from : Arranged(items, keys, sorted, from)
    BY <1>1, <1>5, SortedByIsSorted
  <2> HIDE DEF sorted
  <2> QED
    BY <2>1 DEF Arranged
<1> HIDE DEF sorted, n
<1>8. \A k \in 1..n : sorted[k].id \in Nat /\ from[k] \in 1..n
                      /\ sorted[k] = items[from[k]]
  <2> TAKE k \in 1..n
  <2>1. from[k] \in 1..n /\ sorted[k] = items[from[k]]
    BY <1>7
  <2> QED
    BY <1>3, <2>1
<1>9. DOMAIN sorted = 1..n
  BY <1>6 DEF IsList, n
<1> DEFINE U == {k \in 1..n : sorted[k].id = 0}
<1>10. Unnamed(r) = Cardinality(U)
  BY <1>4, <1>9 DEF Unnamed
<1>11. Cardinality(U) \in 0..n
  <2>1. IsFiniteSet(1..n) /\ Cardinality(1..n) = n
    BY <1>2, FS_Interval
  <2>2. U \in SUBSET (1..n)
    OBVIOUS
  <2> HIDE DEF U
  <2>3. IsFiniteSet(U) /\ Cardinality(U) <= n
    BY <2>1, <2>2, FS_Subset
  <2>4. Cardinality(U) \in Nat
    BY <2>3, FS_CardinalityType
  <2> QED
    BY <1>2, <2>3, <2>4
<1>12. (\A k \in 1..n : items[k].id # 0) => Cardinality(U) = 0
  <2>1. (\A k \in 1..n : items[k].id # 0) => U = {}
    BY <1>8
  <2> HIDE DEF U
  <2> QED
    BY <2>1, FS_EmptySet
<1> QED
  BY <1>1, <1>2, <1>4, <1>6, <1>8, <1>10, <1>11, <1>12 DEF items, n

\* Where the events about item u + h stand among those of the named items.
LEMMA TicksCount ==
  ASSUME NEW u \in Nat, NEW h \in Nat, NEW p \in Nat
  PROVE  /\ 2 * h = p => 2 * (u + h) - 1 = 2 * u + p - 1
         /\ 2 * h = p + 1 => 2 * (u + h) - 2 = 2 * u + p - 1
OBVIOUS

\* Ticks go by the place, and what is decided was looked at just before.
ItemStory(r, namespace, look, whole, all, n) ==
  /\ n \in Nat /\ IsList(all) /\ Len(all) = n + 1
  /\ all[n + 1] = Event(whole, <<"report::", r.fp>>, n,
                        [fp |-> r.fp, names |-> {r.fp}])
  /\ \A p \in 1..n : \E k \in 1..Len(r.items) :
        /\ all[p].tick = 2 * Unnamed(r) + p - 1
        /\ all[p].correlation = <<namespace, SortedItems(r)[k].id>>
        /\ all[p].payload.fp = r.fp
        /\ \/ all[p].type = look
           \/ /\ all[p].type = Decision(namespace, SortedItems(r)[k])
              /\ p - 1 \in 1..n /\ all[p - 1].type = look
              /\ all[p - 1].payload = all[p].payload

\* A report on items has the events that ItemStory tells of.
LEMMA ItemEventsAre ==
  ASSUME NEW r, Items(r), NEW namespace, NEW look, NEW whole,
         NEW all, all = ItemEvents(r, namespace, look, whole),
         NEW n, n = 2 * (Len(r.items) - Unnamed(r))
  PROVE  ItemStory(r, namespace, look, whole, all, n)
<1> DEFINE items == SortedItems(r)
           u == Unnamed(r)
           half(p) == (p + 1) \div 2
           About(k) == <<namespace, items[k].id>>
           Of(k) == [fp |-> r.fp, item |-> items[k],
                     names |-> {items[k].id, items[k].sub, r.fp}]
           Look(k) == Event(look, About(k), LookTick(k), Of(k))
           Decided(k) == Event(Decision(namespace, items[k]), About(k), DecisionTick(k), Of(k))
           most == [p \in 1..n |-> IF p = 2 * half(p) THEN Decided(u + half(p))
                                                      ELSE Look(u + half(p))]
           last == Event(whole, <<"report::", r.fp>>, Len(most),
                         [fp |-> r.fp, names |-> {r.fp}])
<1>1. /\ IsList(items) /\ Len(items) = Len(r.items)
      /\ u \in 0..Len(r.items) /\ IsList(r.items)
  BY ItemsAreSorted
<1>2. n \in Nat /\ u \in Nat /\ Len(r.items) \in Nat /\ n = 2 * (Len(r.items) - u)
  BY <1>1 DEF IsList
<1>3. all = Append(most, last)
  BY <1>1 DEF ItemEvents, SortedItems, Unnamed, Correlation
<1>4. IsList(most) /\ Len(most) = n
  <2>1. DOMAIN most = 1..n /\ most = [p \in 1..n |-> most[p]]
    OBVIOUS
  <2> HIDE DEF most
  <2> QED
    BY <1>2, <2>1, ListOf
<1>5. \A p \in 1..n : most[p] = IF p = 2 * half(p) THEN Decided(u + half(p))
                                                   ELSE Look(u + half(p))
  OBVIOUS
<1>6. \A k : /\ Look(k).type = look /\ Look(k).tick = 2 * k - 2
             /\ Look(k).correlation = About(k) /\ Look(k).payload = Of(k)
             /\ Decided(k).type = Decision(namespace, items[k])
             /\ Decided(k).tick = 2 * k - 1
             /\ Decided(k).correlation = About(k) /\ Decided(k).payload = Of(k)
             /\ Of(k).fp = r.fp
  BY DEF Event, LookTick, DecisionTick
<1> HIDE DEF most, Look, Decided, Of, last
<1>7. /\ IsList(all) /\ Len(all) = n + 1
      /\ \A p \in 1..n : all[p] = most[p]
      /\ all[n + 1] = last
  BY <1>3, <1>4, AppendList
<1>8. last = Event(whole, <<"report::", r.fp>>, n, [fp |-> r.fp, names |-> {r.fp}])
  BY <1>4 DEF last
<1>9. ASSUME NEW p \in 1..n
      PROVE  \E k \in 1..Len(r.items) :
               /\ all[p].tick = 2 * u + p - 1
               /\ all[p].correlation = About(k)
               /\ all[p].payload.fp = r.fp
               /\ \/ all[p].type = look
                  \/ /\ all[p].type = Decision(namespace, items[k])
                     /\ p - 1 \in 1..n /\ all[p - 1].type = look
                     /\ all[p - 1].payload = all[p].payload
  <2> DEFINE h == half(p)
             k == u + h
  <2>1. h \in Nat /\ (2 * h = p \/ 2 * h = p + 1)
    BY <1>2, Half
  <2>2. 2 * h = p => p - 1 \in 1..n /\ half(p - 1) = h /\ p - 1 # 2 * h
    BY <1>2
  <2> HIDE DEF h, half
  <2>3. k \in 1..Len(r.items) /\ k \in Nat
    BY <1>1, <1>2, <2>1
  <2>4. most[p] = IF p = 2 * h THEN Decided(k) ELSE Look(k)
    BY <1>5 DEF h
  <2>7. p \in Nat /\ u \in Nat /\ h \in Nat
    BY <1>2, <2>1
  <2> HIDE DEF u
  <2>8. /\ 2 * h = p => 2 * k - 1 = 2 * u + p - 1
        /\ 2 * h = p + 1 => 2 * k - 2 = 2 * u + p - 1
    BY <2>7, TicksCount
  <2>5. CASE 2 * h = p
    <3>1. all[p] = Decided(k)
      BY <1>7, <2>4, <2>5
    <3>2. p - 1 \in 1..n /\ all[p - 1] = most[p - 1]
      BY <1>7, <2>2, <2>5
    <3>3. most[p - 1] = Look(k)
      BY <1>5, <2>2, <2>5, <3>2
    <3>4. 2 * k - 1 = 2 * u + p - 1
      BY <2>5, <2>8
    <3> HIDE DEF k, u, About, items
    <3>5. /\ all[p].tick = 2 * u + p - 1 /\ all[p].correlation = About(k)
          /\ all[p].payload = Of(k) /\ all[p].payload.fp = r.fp
          /\ all[p].type = Decision(namespace, items[k])
          /\ all[p - 1].type = look /\ all[p - 1].payload = Of(k)
      BY <1>6, <3>1, <3>2, <3>3, <3>4
    <3> QED
      BY <2>3, <3>2, <3>5
  <2>6. CASE 2 * h = p + 1
    <3>1. p # 2 * h
      BY <2>6
    <3>2. all[p] = Look(k)
      BY <1>7, <2>4, <3>1
    <3>3. 2 * k - 2 = 2 * u + p - 1
      BY <2>6, <2>8
    <3> HIDE DEF k, u, About, items
    <3>4. /\ all[p].tick = 2 * u + p - 1 /\ all[p].correlation = About(k)
          /\ all[p].payload.fp = r.fp /\ all[p].type = look
      BY <1>6, <3>2, <3>3
    <3> QED
      BY <2>3, <3>4
  <2> QED
    BY <2>1, <2>5, <2>6
<1> QED
  BY <1>2, <1>7, <1>8, <1>9 DEF ItemStory

ReportTypes == {"compatibility_matrix", "expert_report"}

\* What is decided about an item is a decision.
LEMMA DecisionsAreListed ==
  /\ \A item : Decision("pair::", item) \in Decisions
  /\ \A item : Decision("proposal::", item) \in Decisions
<1>1. \A item : Decision("pair::", item) \in Decisions
  BY DEF Decision, PairDecision, Decisions
<1>2. \A item : Decision("proposal::", item) = ProposalDecision(item)
  BY DEF Decision
<1>3. \A item : ProposalDecision(item) \in Decisions
  BY DEF ProposalDecision, Decisions
<1> QED
  BY <1>1, <1>2, <1>3

\* Events of a report as they should be: none is the same as another.
Apart(all) == \A p, q \in 1..Len(all) :
                all[p].tick = all[q].tick /\ all[p].type = all[q].type => p = q

\* The events of a report on items can be sorted, and no two of them have the
\* same tick and the same type.
LEMMA ItemEventsAreProper ==
  ASSUME NEW r, Items(r), r.fp \in Nat,
         NEW namespace \in {"pair::", "proposal::"},
         NEW look \in {"CompatibilityChecked", "ProposalEvaluated"},
         NEW whole \in {"CompatibilityMatrixReported", "ExpertProposalBatchReported"},
         NEW all, all = ItemEvents(r, namespace, look, whole)
  PROVE  /\ IsList(all) /\ Len(all) \in Nat \ {0}
         /\ \A p \in 1..Len(all) : Proper(all[p], r)
         /\ Apart(all)
<1> DEFINE n == 2 * (Len(r.items) - Unnamed(r))
           u == Unnamed(r)
<1>0. n = 2 * (Len(r.items) - Unnamed(r))
  OBVIOUS
<1> HIDE DEF n
<1>1. /\ n \in Nat /\ IsList(all) /\ Len(all) = n + 1
      /\ all[n + 1] = Event(whole, <<"report::", r.fp>>, n,
                            [fp |-> r.fp, names |-> {r.fp}])
      /\ \A p \in 1..n : \E k \in 1..Len(r.items) :
            /\ all[p].tick = 2 * Unnamed(r) + p - 1
            /\ all[p].correlation = <<namespace, SortedItems(r)[k].id>>
            /\ all[p].payload.fp = r.fp
            /\ \/ all[p].type = look
               \/ /\ all[p].type = Decision(namespace, SortedItems(r)[k])
                  /\ p - 1 \in 1..n /\ all[p - 1].type = look
                  /\ all[p - 1].payload = all[p].payload
  <2>1. ItemStory(r, namespace, look, whole, all, n)
    BY <1>0, ItemEventsAre
  <2> QED
    BY <2>1 DEF ItemStory
<1>2. u \in Nat /\ \A k \in 1..Len(r.items) : SortedItems(r)[k].id \in Nat
  <2>1. u \in 0..Len(r.items) /\ IsList(r.items)
    BY ItemsAreSorted
  <2> QED
    BY <2>1, ItemsAreSorted DEF IsList
<1> HIDE DEF n, u
<1>3. \A p \in 1..n : /\ all[p].tick = 2 * u + p - 1 /\ all[p].tick \in Nat
                      /\ all[p].correlation[1] = namespace
                      /\ all[p].correlation[2] \in Nat
                      /\ all[p].payload.fp = r.fp
                      /\ all[p].type = look \/ all[p].type \in Decisions
  <2> TAKE p \in 1..n
  <2>1. PICK k \in 1..Len(r.items) :
            /\ all[p].tick = 2 * u + p - 1
            /\ all[p].correlation = <<namespace, SortedItems(r)[k].id>>
            /\ all[p].payload.fp = r.fp
            /\ \/ all[p].type = look
               \/ all[p].type = Decision(namespace, SortedItems(r)[k])
    BY <1>1 DEF u
  <2>2. all[p].type = look \/ all[p].type \in Decisions
    BY <2>1, DecisionsAreListed
  <2>3. 2 * u + p - 1 \in Nat
    BY <1>1, <1>2
  <2>4. all[p].correlation[1] = namespace /\ all[p].correlation[2] \in Nat
    BY <1>2, <2>1
  <2> QED
    BY <2>1, <2>2, <2>3, <2>4
<1>4. /\ all[n + 1].tick = n /\ all[n + 1].type = whole
      /\ all[n + 1].correlation[1] = "report::" /\ all[n + 1].correlation[2] = r.fp
      /\ all[n + 1].payload.fp = r.fp
  BY <1>1 DEF Event
<1>5. \A p \in 1..(n + 1) : Proper(all[p], r)
  <2> TAKE p \in 1..(n + 1)
  <2>1. p \in 1..n \/ p = n + 1
    BY <1>1
  <2>2. /\ namespace \in ToSet(Namespaces) /\ "report::" \in ToSet(Namespaces)
        /\ look \in ToSet(Types) /\ whole \in ToSet(Types)
        /\ \A t \in Decisions : t \in ToSet(Types)
    BY NamesAreListed
  <2>3. CASE p \in 1..n
    BY <1>3, <2>2, <2>3 DEF Proper
  <2>4. CASE p = n + 1
    BY <1>1, <1>4, <2>2, <2>4 DEF Proper
  <2> QED
    BY <2>1, <2>3, <2>4
<1>6. ASSUME NEW p \in 1..(n + 1), NEW q \in 1..(n + 1),
             all[p].tick = all[q].tick, all[p].type = all[q].type
      PROVE  p = q
  <2>1. whole # look /\ whole \notin Decisions
    BY DEF Decisions
  <2>2. \A s \in 1..n : all[s].type # whole
    BY <1>3, <2>1
  <2>3. (p \in 1..n \/ p = n + 1) /\ (q \in 1..n \/ q = n + 1)
    BY <1>1
  <2>4. p = n + 1 <=> q = n + 1
    BY <1>4, <1>6, <2>2, <2>3
  <2>5. CASE p \in 1..n /\ q \in 1..n
    <3>1. 2 * u + p - 1 = 2 * u + q - 1
      BY <1>3, <1>6, <2>5
    <3>2. p \in Nat /\ q \in Nat
      BY <1>1
    <3> QED
      BY <1>2, <3>1, <3>2
  <2> QED
    BY <2>3, <2>4, <2>5
<1> QED
  BY <1>1, <1>5, <1>6 DEF Apart

\* Ticks go by the place: the start, a row after the other, and the end.
SurrogateStory(r, all, n) ==
  /\ n \in Nat /\ IsList(all) /\ Len(all) = n + 2
  /\ \A p \in 1..(n + 2) :
       /\ all[p].tick = p - 1
       /\ all[p].correlation = <<"gaia_pipeline::", RoutingOf(r)>>
       /\ all[p].payload.fp = r.fp
       /\ all[p].type = IF p = 1 THEN "GaiaSurrogateProposalEvaluated"
                        ELSE IF p = n + 2 THEN "GaiaSurrogateEvaluationCompleted"
                        ELSE "GaiaSurrogatePredictionMismatch"
  /\ \A p, q \in 2..(n + 1) :
       p < q => \/ all[p].payload.row <= all[q].payload.row
                \/ NoRow \in ToSet(r.mismatches) /\ all[p].payload.row = p - 1

\* The evaluation of a surrogate has the events that SurrogateStory tells of.
LEMMA SurrogateEventsAre ==
  ASSUME NEW r, r.mismatches \in Seq(Nat \cup {NoRow}), r.fp \in Nat, r.routing \in Nat,
         NEW all, all = SurrogateEvents(r),
         NEW n, n = Len(r.mismatches)
  PROVE  SurrogateStory(r, all, n)
<1> DEFINE seq == r.mismatches
           keys == [k \in 1..n |-> <<Row(seq[k], 0)>>]
           rows == SortedBy(seq, keys)
           About == <<"gaia_pipeline::", RoutingOf(r)>>
           Of(row) == [fp |-> r.fp, row |-> row, names |-> {RoutingOf(r), r.fp}]
           Start == Event("GaiaSurrogateProposalEvaluated", About, 0, Of(0))
           Mismatch(k) == Event("GaiaSurrogatePredictionMismatch", About, k,
                                Of(Row(rows[k], k)))
           End == Event("GaiaSurrogateEvaluationCompleted", About, n + 1, Of(0))
<1>1. /\ n \in Nat /\ IsList(seq) /\ DOMAIN seq = 1..n
      /\ \A k \in 1..n : seq[k] \in Nat \cup {NoRow}
  <2>1. n \in Nat /\ seq \in [1..n -> Nat \cup {NoRow}]
    OBVIOUS
  <2> QED
    BY <2>1 DEF IsList
<1>1a. \A m \in Nat \cup {NoRow} : \A k \in Nat :
         /\ Row(m, k) \in Nat /\ Row(m, 0) <= Row(m, k)
         /\ m = NoRow => Row(m, k) = k
         /\ m # NoRow => Row(m, k) = Row(m, 0)
  BY DEF Row, NoRow
<1>2. Keyed(n, 1, keys)
  <2>1. \A k \in 1..n : Row(seq[k], 0) \in Nat
    BY <1>1, <1>1a
  <2> HIDE DEF seq
  <2> QED
    BY <1>1, <2>1 DEF Keyed, Keys
<1>3. \A k \in 1..n : keys[k] = <<Row(seq[k], 0)>>
  OBVIOUS
<1>4. rows = SortedBy(r.mismatches,
                      [k \in DOMAIN r.mismatches |-> <<Row(r.mismatches[k], 0)>>])
  BY <1>1
<1> HIDE DEF seq, keys
<1>5. n = Len(seq)
  BY DEF seq
<1>6. IsList(rows) /\ Len(rows) = n
  BY <1>1, <1>2, <1>5, SortedByIs
<1>7. PICK from : Arranged(seq, keys, rows, from)
  BY <1>1, <1>2, <1>5, SortedByIsSorted
<1>8. all = [p \in 1..(n + 2) |->
               IF p = 1 THEN Start ELSE IF p = n + 2 THEN End ELSE Mismatch(p - 1)]
  <2> DEFINE m == Len(rows)
  <2>1. all = [p \in 1..(m + 2) |->
                 IF p = 1 THEN Start
                 ELSE IF p = m + 2
                      THEN Event("GaiaSurrogateEvaluationCompleted", About, m + 1, Of(0))
                 ELSE Mismatch(p - 1)]
    BY <1>4 DEF SurrogateEvents, Correlation
  <2>2. m = n
    BY <1>6
  <2> HIDE DEF m, rows
  <2> QED
    BY <2>1, <2>2
<1> HIDE DEF rows
<1>7a. /\ \A k \in 1..n : from[k] \in 1..n /\ rows[k] = seq[from[k]]
       /\ \A k, l \in 1..n :
             k < l => \/ Precedes(keys[from[k]], keys[from[l]])
                      \/ keys[from[k]] = keys[from[l]]
  BY <1>5, <1>7 DEF Arranged
<1>9. \A k, l \in 1..n : k < l => Row(rows[k], 0) <= Row(rows[l], 0)
  <2> TAKE k, l \in 1..n
  <2> HAVE k < l
  <2>1. /\ from[k] \in 1..n /\ from[l] \in 1..n
        /\ rows[k] = seq[from[k]] /\ rows[l] = seq[from[l]]
    BY <1>7a
  <2>2. Precedes(keys[from[k]], keys[from[l]]) \/ keys[from[k]] = keys[from[l]]
    BY <1>7a
  <2> DEFINE x == Row(rows[k], 0)
             y == Row(rows[l], 0)
  <2>3. keys[from[k]] = <<x>> /\ keys[from[l]] = <<y>>
    BY <1>3, <2>1
  <2>4. x \in Nat /\ y \in Nat
    BY <1>1, <1>1a, <2>1
  <2> HIDE DEF x, y
  <2>5. <<x>> = <<y>> => x = y
    OBVIOUS
  <2>6. Precedes(<<x>>, <<y>>) => x < y
    BY <2>4 DEF Precedes
  <2>7. x <= y
    BY <2>2, <2>3, <2>4, <2>5, <2>6
  <2> QED
    BY <2>7 DEF x, y
<1>10. IsList(all) /\ Len(all) = n + 2
  <2>1. DOMAIN all = 1..(n + 2) /\ all = [p \in 1..(n + 2) |-> all[p]]
    BY <1>8
  <2> QED
    BY <1>1, <2>1, ListOf
<1>11. \A p \in 1..(n + 2) :
         all[p] = IF p = 1 THEN Start ELSE IF p = n + 2 THEN End ELSE Mismatch(p - 1)
  BY <1>8
<1>12. /\ Start.tick = 0 /\ Start.correlation = About /\ Start.payload.fp = r.fp
       /\ Start.type = "GaiaSurrogateProposalEvaluated"
       /\ End.tick = n + 1 /\ End.correlation = About /\ End.payload.fp = r.fp
       /\ End.type = "GaiaSurrogateEvaluationCompleted"
       /\ \A k : /\ Mismatch(k).tick = k /\ Mismatch(k).correlation = About
                 /\ Mismatch(k).payload.fp = r.fp
                 /\ Mismatch(k).payload.row = Row(rows[k], k)
                 /\ Mismatch(k).type = "GaiaSurrogatePredictionMismatch"
  BY DEF Event
<1> HIDE DEF Start, End, Mismatch, About
<1>13. ASSUME NEW p \in 1..(n + 2)
       PROVE  /\ all[p].tick = p - 1
              /\ all[p].correlation = About
              /\ all[p].payload.fp = r.fp
              /\ all[p].type = IF p = 1 THEN "GaiaSurrogateProposalEvaluated"
                               ELSE IF p = n + 2 THEN "GaiaSurrogateEvaluationCompleted"
                               ELSE "GaiaSurrogatePredictionMismatch"
  <2>1. CASE p = 1
    BY <1>1, <1>11, <1>12, <2>1
  <2>2. CASE p = n + 2
    BY <1>1, <1>11, <1>12, <2>2
  <2>3. CASE p # 1 /\ p # n + 2
    <3>1. all[p] = Mismatch(p - 1)
      BY <1>11, <2>3
    <3> QED
      BY <1>12, <2>3, <3>1
  <2> QED
    BY <2>1, <2>2, <2>3
<1>14. ASSUME NEW p \in 2..(n + 1), NEW q \in 2..(n + 1), p < q
       PROVE  \/ all[p].payload.row <= all[q].payload.row
              \/ NoRow \in ToSet(seq) /\ all[p].payload.row = p - 1
  <2>1. /\ p \in 1..(n + 2) /\ p # 1 /\ p # n + 2 /\ p - 1 \in 1..n
        /\ q \in 1..(n + 2) /\ q # 1 /\ q # n + 2 /\ q - 1 \in 1..n
        /\ p - 1 < q - 1
    BY <1>1, <1>14
  <2>2. all[p] = Mismatch(p - 1) /\ all[q] = Mismatch(q - 1)
    BY <1>11, <2>1
  <2>3. /\ all[p].payload.row = Row(rows[p - 1], p - 1)
        /\ all[q].payload.row = Row(rows[q - 1], q - 1)
    BY <1>12, <2>2
  <2>4. /\ p - 1 \in Nat /\ q - 1 \in Nat
        /\ from[p - 1] \in DOMAIN seq /\ rows[p - 1] = seq[from[p - 1]]
        /\ rows[p - 1] \in Nat \cup {NoRow} /\ rows[q - 1] \in Nat \cup {NoRow}
    <3>1. /\ p - 1 \in Nat /\ q - 1 \in Nat
          /\ from[p - 1] \in 1..n /\ rows[p - 1] = seq[from[p - 1]]
          /\ from[q - 1] \in 1..n /\ rows[q - 1] = seq[from[q - 1]]
      BY <1>1, <1>7a, <2>1
    <3> QED
      BY <1>1, <3>1
  <2>5. CASE rows[p - 1] = NoRow
    <3>1. NoRow \in ToSet(seq)
      BY <2>4, <2>5 DEF ToSet
    <3>2. all[p].payload.row = p - 1
      BY <1>1a, <2>3, <2>4, <2>5
    <3> QED
      BY <3>1, <3>2
  <2>6. CASE rows[p - 1] # NoRow
    <3>1. all[p].payload.row = Row(rows[p - 1], 0)
      BY <1>1a, <2>3, <2>4, <2>6
    <3>2. Row(rows[p - 1], 0) <= Row(rows[q - 1], 0)
      BY <1>9, <2>1
    <3>3. /\ Row(rows[q - 1], 0) <= Row(rows[q - 1], q - 1)
          /\ Row(rows[p - 1], 0) \in Nat /\ Row(rows[q - 1], 0) \in Nat
          /\ Row(rows[q - 1], q - 1) \in Nat
      BY <1>1a, <2>4
    <3> QED
      BY <2>3, <3>1, <3>2, <3>3
  <2> QED
    BY <2>5, <2>6
<1> QED
  BY <1>1, <1>10, <1>13, <1>14 DEF About, SurrogateStory, seq

\* What the assumption on the reports says of one.
LEMMA ReportsAre ==
  ASSUME NEW r \in Reports
  PROVE  /\ r.fp \in Nat
         /\ \A s \in Reports : r.fp = s.fp => r = s
         /\ r.type \in {"compatibility_matrix", "expert_report", "gaia_surrogate",
                        "expert_router_validation", "expert_router_evaluation",
                        "expert_router_replay_certification", "expert_router_report"}
         /\ r.type \in ReportTypes => Items(r)
         /\ r.type = "gaia_surrogate" => r.routing \in Nat /\ r.mismatches \in Seq(Nat \cup {NoRow})
         /\ r.type \in {"expert_router_validation", "expert_router_evaluation",
                        "expert_router_replay_certification"} => r.routing \in Nat
<1>1. r.fp \in Nat /\ \A s \in Reports : r.fp = s.fp => r = s
  BY ReportAssumption
<1>2. \/ /\ r.type \in {"compatibility_matrix", "expert_report"}
         /\ r.items \in Seq(ToSet(r.items))
         /\ \A k \in DOMAIN r.items :
               r.items[k].id \in Nat /\ r.items[k].sub \in Nat
      \/ /\ r.type = "gaia_surrogate"
         /\ r.routing \in Nat /\ r.mismatches \in Seq(Nat \cup {NoRow})
      \/ /\ r.type \in {"expert_router_validation",
                         "expert_router_evaluation",
                         "expert_router_replay_certification"}
         /\ r.routing \in Nat
      \/ r.type = "expert_router_report"
  BY ReportAssumption
<1>3. r.type \in ReportTypes => Items(r)
  BY <1>2 DEF ReportTypes, Items
<1>4. r.type = "gaia_surrogate" => r.routing \in Nat /\ r.mismatches \in Seq(Nat \cup {NoRow})
  BY <1>2
<1>5. r.type \in {"expert_router_validation", "expert_router_evaluation",
                  "expert_router_replay_certification"} => r.routing \in Nat
  BY <1>2
<1>6. r.type \in {"compatibility_matrix", "expert_report", "gaia_surrogate",
                  "expert_router_validation", "expert_router_evaluation",
                  "expert_router_replay_certification", "expert_router_report"}
  BY <1>2
<1> QED
  BY <1>1, <1>3, <1>4, <1>5, <1>6

RouterTypes == {"expert_router_validation", "expert_router_evaluation",
                "expert_router_replay_certification", "expert_router_report"}

\* What kind of event each kind of router report has.
RouterEventTypes(r) ==
  CASE r.type = "expert_router_validation" -> {"RouterFixtureValidated"}
    [] r.type = "expert_router_evaluation" -> {"RouterEligibilityEvaluated"}
    [] r.type = "expert_router_report" -> {"RouterBatchReportGenerated"}
    [] r.type = "expert_router_replay_certification" ->
         {"RouterReplayCertified", "RouterReplayDiverged"}

\* A report of the router has one event.
LEMMA RouterEventsAre ==
  ASSUME NEW r \in Reports, r.type \in RouterTypes
  PROVE  \E e : /\ EventsOf(r) = <<e>> /\ Proper(e, r) /\ e.tick = 0
                /\ e.correlation = IF r.type = "expert_router_report"
                                   THEN <<"report::", r.fp>>
                                   ELSE <<"router::", RoutingOf(r)>>
                /\ e.type \in RouterEventTypes(r)
<1>1. /\ r.fp \in Nat
      /\ r.type # "expert_router_report" => r.routing \in Nat
  BY ReportsAre DEF RouterTypes
<1>2. r.type # "expert_router_report" => RoutingOf(r) \in Nat
  BY <1>1 DEF RoutingOf
<1>3. /\ "router::" \in ToSet(Namespaces) /\ "report::" \in ToSet(Namespaces)
      /\ \A t \in {"RouterFixtureValidated", "RouterEligibilityEvaluated",
                   "RouterReplayCertified", "RouterReplayDiverged",
                   "RouterBatchReportGenerated"} : t \in ToSet(Types)
  BY NamesAreListed
<1>4. ASSUME r.type # "expert_router_report", NEW payload, payload.fp = r.fp,
             NEW t \in {"RouterFixtureValidated", "RouterEligibilityEvaluated",
                        "RouterReplayCertified", "RouterReplayDiverged"},
             EventsOf(r) = <<Event(t, Correlation("router::", RoutingOf(r)), 0, payload)>>,
             t \in RouterEventTypes(r)
      PROVE  \E e : /\ EventsOf(r) = <<e>> /\ Proper(e, r) /\ e.tick = 0
                    /\ e.correlation = IF r.type = "expert_router_report"
                                       THEN <<"report::", r.fp>>
                                       ELSE <<"router::", RoutingOf(r)>>
                    /\ e.type \in RouterEventTypes(r)
  <2> DEFINE e == Event(t, Correlation("router::", RoutingOf(r)), 0, payload)
  <2>1. /\ e.type = t /\ e.tick = 0 /\ e.payload = payload
        /\ e.correlation = <<"router::", RoutingOf(r)>>
        /\ e.correlation[1] = "router::" /\ e.correlation[2] = RoutingOf(r)
    BY DEF Event, Correlation
  <2>2. EventsOf(r) = <<e>>
    BY <1>4
  <2> HIDE DEF e
  <2>3. Proper(e, r)
    BY <1>2, <1>3, <1>4, <2>1 DEF Proper
  <2> QED
    BY <1>4, <2>1, <2>2, <2>3
<1>5. CASE r.type = "expert_router_validation"
  <2> DEFINE payload == [fp |-> r.fp, names |-> {RoutingOf(r), r.fp}]
  <2>1. EventsOf(r) = <<Event("RouterFixtureValidated",
                              Correlation("router::", RoutingOf(r)), 0, payload)>>
    BY <1>5 DEF EventsOf, ValidationEvents, RouterEvent
  <2>2. payload.fp = r.fp /\ "RouterFixtureValidated" \in RouterEventTypes(r)
    BY <1>5 DEF RouterEventTypes
  <2> HIDE DEF payload
  <2> QED
    BY <1>4, <1>5, <2>1, <2>2
<1>6. CASE r.type = "expert_router_evaluation"
  <2>1. PICK payload : /\ payload.fp = r.fp
                       /\ EventsOf(r) = <<Event("RouterEligibilityEvaluated",
                              Correlation("router::", RoutingOf(r)), 0, payload)>>
    BY <1>6 DEF EventsOf, EvaluationEvents, RouterEvent
  <2>2. "RouterEligibilityEvaluated" \in RouterEventTypes(r)
    BY <1>6 DEF RouterEventTypes
  <2> QED
    BY <1>4, <1>6, <2>1, <2>2
<1>7. CASE r.type = "expert_router_replay_certification"
  <2> DEFINE payload == [fp |-> r.fp, status |-> r.status, names |-> {r.routing, r.fp}]
             t == IF r.status = "certified" THEN "RouterReplayCertified"
                                            ELSE "RouterReplayDiverged"
  <2>1. EventsOf(r) = <<Event(t, Correlation("router::", RoutingOf(r)), 0, payload)>>
    BY <1>7 DEF EventsOf, ReplayEvents, RouterEvent
  <2>2. payload.fp = r.fp /\ t \in RouterEventTypes(r)
        /\ t \in {"RouterReplayCertified", "RouterReplayDiverged"}
    BY <1>7 DEF RouterEventTypes
  <2> HIDE DEF payload, t
  <2> QED
    BY <1>4, <1>7, <2>1, <2>2
<1>8. CASE r.type = "expert_router_report"
  <2> DEFINE e == Event("RouterBatchReportGenerated", Correlation("report::", r.fp), 0,
                        [fp |-> r.fp, files |-> r.files, names |-> {r.fp}])
  <2>1. EventsOf(r) = <<e>>
    BY <1>8 DEF EventsOf, BatchReportEvents
  <2>2. /\ e.type = "RouterBatchReportGenerated" /\ e.tick = 0
        /\ e.correlation = <<"report::", r.fp>> /\ e.payload.fp = r.fp
        /\ e.correlation[1] = "report::" /\ e.correlation[2] = r.fp
    BY DEF Event, Correlation
  <2>3. "RouterBatchReportGenerated" \in RouterEventTypes(r)
    BY <1>8 DEF RouterEventTypes
  <2> HIDE DEF e
  <2>4. Proper(e, r)
    BY <1>1, <1>3, <2>2 DEF Proper
  <2> QED
    BY <1>8, <2>1, <2>2, <2>3, <2>4
<1> QED
  BY <1>5, <1>6, <1>7, <1>8 DEF RouterTypes

\* The events of a report, whatever its type.
LEMMA EventsOfReport ==
  ASSUME NEW r \in Reports
  PROVE  /\ IsList(EventsOf(r)) /\ Len(EventsOf(r)) \in Nat \ {0}
         /\ \A p \in 1..Len(EventsOf(r)) : Proper(EventsOf(r)[p], r)
         /\ Apart(EventsOf(r))
<1> DEFINE all == EventsOf(r)
<1>1. CASE r.type = "compatibility_matrix"
  <2>1. all = ItemEvents(r, "pair::", "CompatibilityChecked",
                         "CompatibilityMatrixReported")
    BY <1>1 DEF EventsOf, CompatibilityEvents
  <2>2. Items(r) /\ r.fp \in Nat
    BY <1>1, ReportsAre DEF ReportTypes
  <2> HIDE DEF all
  <2>3. /\ IsList(all) /\ Len(all) \in Nat \ {0}
        /\ \A p \in 1..Len(all) : Proper(all[p], r)
        /\ Apart(all)
    BY <2>1, <2>2, ItemEventsAreProper
  <2> QED
    BY <2>3 DEF all
<1>2. CASE r.type = "expert_report"
  <2>1. all = ItemEvents(r, "proposal::", "ProposalEvaluated",
                         "ExpertProposalBatchReported")
    BY <1>2 DEF EventsOf, ExpertReportEvents
  <2>2. Items(r) /\ r.fp \in Nat
    BY <1>2, ReportsAre DEF ReportTypes
  <2> HIDE DEF all
  <2>3. /\ IsList(all) /\ Len(all) \in Nat \ {0}
        /\ \A p \in 1..Len(all) : Proper(all[p], r)
        /\ Apart(all)
    BY <2>1, <2>2, ItemEventsAreProper
  <2> QED
    BY <2>3 DEF all
<1>3. CASE r.type = "gaia_surrogate"
  <2>1. all = SurrogateEvents(r)
    BY <1>3 DEF EventsOf
  <2>2. r.mismatches \in Seq(Nat \cup {NoRow}) /\ r.fp \in Nat /\ r.routing \in Nat
    BY <1>3, ReportsAre
  <2> DEFINE n == Len(r.mismatches)
             types == {"GaiaSurrogateProposalEvaluated", "GaiaSurrogateEvaluationCompleted",
                       "GaiaSurrogatePredictionMismatch"}
  <2> HIDE DEF all
  <2>3. /\ n \in Nat /\ IsList(all) /\ Len(all) = n + 2
        /\ \A p \in 1..(n + 2) :
              /\ all[p].tick = p - 1
              /\ all[p].correlation = <<"gaia_pipeline::", RoutingOf(r)>>
              /\ all[p].payload.fp = r.fp
              /\ all[p].type \in types
    <3>1. SurrogateStory(r, all, Len(r.mismatches))
      BY <2>1, <2>2, SurrogateEventsAre
    <3> QED
      BY <3>1 DEF SurrogateStory
  <2>4. RoutingOf(r) \in Nat
    BY <2>2 DEF RoutingOf
  <2>5. "gaia_pipeline::" \in ToSet(Namespaces) /\ \A t \in types : t \in ToSet(Types)
    BY NamesAreListed
  <2> HIDE DEF n, types
  <2>6. ASSUME NEW p \in 1..(n + 2)
        PROVE  Proper(all[p], r)
    <3>1. p - 1 \in Nat
      BY <2>3
    <3>2. /\ all[p].correlation[1] = "gaia_pipeline::"
          /\ all[p].correlation[2] = RoutingOf(r)
      BY <2>3
    <3> QED
      BY <2>3, <2>4, <2>5, <3>1, <3>2 DEF Proper
  <2>7. ASSUME NEW p \in 1..(n + 2), NEW q \in 1..(n + 2), all[p].tick = all[q].tick
        PROVE  p = q
    <3>1. p - 1 = q - 1 /\ p \in Nat /\ q \in Nat
      BY <2>3, <2>7
    <3> QED
      BY <3>1
  <2>8. Apart(all) /\ Len(all) \in Nat \ {0}
    BY <2>3, <2>7 DEF Apart
  <2> QED
    BY <2>3, <2>6, <2>8 DEF all
<1>4. CASE r.type \in RouterTypes
  <2>1. PICK e : all = <<e>> /\ Proper(e, r)
    BY <1>4, RouterEventsAre
  <2>2. DOMAIN all = 1..1 /\ all = [i \in 1..1 |-> all[i]] /\ all[1] = e
    BY <2>1
  <2> HIDE DEF all
  <2>3. IsList(all) /\ Len(all) = 1
    BY <2>2, ListOf
  <2>4. \A p \in 1..1 : p = 1
    OBVIOUS
  <2>5. \A p \in 1..Len(all) : Proper(all[p], r)
    BY <2>1, <2>2, <2>3, <2>4
  <2>6. Apart(all)
    BY <2>3, <2>4 DEF Apart
  <2>7. Len(all) \in Nat \ {0}
    BY <2>3
  <2> QED
    BY <2>3, <2>5, <2>6, <2>7 DEF all
<1> QED
  BY <1>1, <1>2, <1>3, <1>4, ReportsAre DEF RouterTypes

-----------------------------------------------------------------------------
(* The index: one sort key for each event, and what it tells of the reports.*)

Different(s) == \A i, j \in 1..Len(s) : s[i] = s[j] => i = j

\* Of an event of a report, that it is one.
Comes(e, r) == \E p \in 1..Len(EventsOf(r)) : e = EventsOf(r)[p]

\* An event has one sort key, and a sort key one event (canonical_event_sort_key):
\* the id in it, here the fingerprint in the payload, tells events apart that are
\* alike otherwise.
LEMMA KeysIdentify ==
  ASSUME NEW r \in Reports, NEW s \in Reports, NEW e, NEW f, Comes(e, r), Comes(f, s)
  PROVE  /\ SortKey(e) \in Keys(5) /\ SortKey(e)[1] = e.tick
         /\ SortKey(e) = SortKey(f) => r = s /\ e = f
         /\ e = f => r = s
         /\ e.payload.fp = r.fp
<1>1. PICK p \in 1..Len(EventsOf(r)) : e = EventsOf(r)[p]
  BY DEF Comes
<1>2. PICK q \in 1..Len(EventsOf(s)) : f = EventsOf(s)[q]
  BY DEF Comes
<1>3. Proper(e, r) /\ Proper(f, s)
  BY <1>1, <1>2, EventsOfReport
<1>4. /\ NamespaceRank[e.correlation[1]] \in Nat
      /\ TypeRank[e.type] \in Nat /\ TypeRank[f.type] \in Nat
      /\ Types[TypeRank[e.type]] = e.type /\ Types[TypeRank[f.type]] = f.type
  BY <1>3, RanksAreNumbers DEF Proper
<1>5. e.tick \in Nat /\ e.payload.fp = r.fp /\ f.payload.fp = s.fp /\ r.fp \in Nat
      /\ e.correlation[2] \in Nat
  BY <1>3, ReportsAre DEF Proper
<1>6. /\ SortKey(e) = <<e.tick, NamespaceRank[e.correlation[1]], e.correlation[2],
                        TypeRank[e.type], r.fp>>
      /\ SortKey(f) = <<f.tick, NamespaceRank[f.correlation[1]], f.correlation[2],
                        TypeRank[f.type], s.fp>>
  BY <1>5 DEF SortKey
<1>7. SortKey(e) \in Keys(5) /\ SortKey(e)[1] = e.tick
  BY <1>4, <1>5, <1>6, SMTT(20) DEF Keys
<1>8. ASSUME SortKey(e) = SortKey(f)
      PROVE  r = s /\ e = f
  <2>1. e.tick = f.tick /\ TypeRank[e.type] = TypeRank[f.type] /\ r.fp = s.fp
    BY <1>6, <1>8
  <2>2. r = s
    BY <2>1, ReportsAre
  <2>3. e.type = f.type
    BY <1>4, <2>1
  <2>4. Apart(EventsOf(r))
    BY EventsOfReport
  <2>5. p = q
    BY <1>1, <1>2, <2>1, <2>2, <2>3, <2>4 DEF Apart
  <2> QED
    BY <1>1, <1>2, <2>2, <2>5
<1> QED
  BY <1>5, <1>7, <1>8

\* What is collected, and the events there are.
Derived(c, all) ==
  /\ IsList(c) /\ IsList(all)
  /\ \A k \in 1..Len(c) : c[k] \in Reports
  /\ \A i \in 1..Len(all) : \E k \in 1..Len(c) : Comes(all[i], c[k])
  /\ \A k \in 1..Len(c) : \A p \in 1..Len(EventsOf(c[k])) :
        \E i \in 1..Len(all) : all[i] = EventsOf(c[k])[p]
  /\ Different(all) <=> Different(c)

\* Nothing is derived from no reports.
LEMMA NothingDerived == Derived(<<>>, <<>>)
<1>1. IsList(<<>>) /\ Len(<<>>) = 0
  BY DEF IsList
<1> QED
  BY <1>1 DEF Derived, Different

\* What a report adds is derived from it, and repeats an event exactly when the
\* report was there already.
LEMMA OneMore ==
  ASSUME NEW c, NEW all, Derived(c, all), NEW r \in Reports
  PROVE  Derived(Append(c, r), all \o EventsOf(r))
<1> DEFINE d == Append(c, r)
           own == EventsOf(r)
           both == all \o own
           n == Len(c)
           m == Len(all)
<1>1. /\ IsList(c) /\ IsList(all) /\ n \in Nat /\ m \in Nat
      /\ \A k \in 1..n : c[k] \in Reports
      /\ \A i \in 1..m : \E k \in 1..n : Comes(all[i], c[k])
      /\ \A k \in 1..n : \A p \in 1..Len(EventsOf(c[k])) :
            \E i \in 1..m : all[i] = EventsOf(c[k])[p]
      /\ Different(all) <=> Different(c)
  BY DEF Derived, IsList
<1>2. /\ IsList(d) /\ Len(d) = n + 1 /\ d[n + 1] = r
      /\ \A k \in 1..n : d[k] = c[k]
  BY <1>1, AppendList
<1>3. IsList(own) /\ Len(own) \in Nat \ {0} /\ Apart(own)
  BY EventsOfReport
<1> DEFINE l == Len(own)
<1>4. /\ IsList(both) /\ Len(both) = m + l
      /\ \A i \in 1..m : both[i] = all[i]
      /\ \A i \in 1..l : both[m + i] = own[i]
  BY <1>1, <1>3, ConcatList
<1>5. l \in Nat \ {0} /\ \A p \in 1..l : Comes(own[p], r)
  BY <1>3 DEF Comes
<1>6. n = Len(c) /\ m = Len(all) /\ own = EventsOf(r)
  OBVIOUS
<1> HIDE DEF d, own, both, n, m, l
<1>7. /\ \A k \in 1..(n + 1) : k \in 1..n \/ k = n + 1
      /\ \A i \in 1..(m + l) : i \in 1..m \/ (i - m \in 1..l /\ i = m + (i - m))
      /\ \A p \in 1..l : m + p \in 1..(m + l)
      /\ \A i \in 1..m : i \in 1..(m + l)
      /\ \A k \in 1..n : k \in 1..(n + 1)
      /\ n + 1 \in 1..(n + 1)
  BY <1>1, <1>5
<1>8. \A k \in 1..(n + 1) : d[k] \in Reports
  BY <1>1, <1>2, <1>7
<1>9. \A i \in 1..(m + l) : \E k \in 1..(n + 1) : Comes(both[i], d[k])
  <2> TAKE i \in 1..(m + l)
  <2>1. CASE i \in 1..m
    <3>1. PICK k \in 1..n : Comes(all[i], c[k])
      BY <1>1, <2>1
    <3>2. Comes(both[i], d[k]) /\ k \in 1..(n + 1)
      BY <1>2, <1>4, <1>7, <2>1, <3>1
    <3> QED
      BY <3>2
  <2>2. CASE i - m \in 1..l /\ i = m + (i - m)
    <3>1. both[i] = own[i - m]
      BY <1>4, <2>2
    <3>2. Comes(both[i], d[n + 1])
      BY <1>2, <1>5, <2>2, <3>1
    <3> QED
      BY <1>7, <3>2
  <2> QED
    BY <1>7, <2>1, <2>2
<1>10. ASSUME NEW k \in 1..(n + 1), NEW p \in 1..Len(EventsOf(d[k]))
       PROVE  \E i \in 1..(m + l) : both[i] = EventsOf(d[k])[p]
  <2>1. CASE k \in 1..n
    <3>1. d[k] = c[k]
      BY <1>2, <2>1
    <3>2. PICK i \in 1..m : all[i] = EventsOf(c[k])[p]
      BY <1>1, <2>1, <3>1
    <3> QED
      BY <1>4, <1>7, <3>1, <3>2
  <2>2. CASE k = n + 1
    <3>1. EventsOf(d[k]) = own /\ p \in 1..l
      BY <1>2, <1>6, <2>2 DEF l
    <3> QED
      BY <1>4, <1>7, <3>1
  <2> QED
    BY <1>7, <2>1, <2>2
<1>11. Different(c) <=> \A i, j \in 1..n : c[i] = c[j] => i = j
  BY <1>6 DEF Different
<1>12. Different(all) <=> \A i, j \in 1..m : all[i] = all[j] => i = j
  BY <1>6 DEF Different
<1>13. Different(d) <=> Different(c) /\ \A k \in 1..n : c[k] # r
  <2>1. Different(d) <=> \A i, j \in 1..(n + 1) : d[i] = d[j] => i = j
    BY <1>2 DEF Different
  <2>2. ASSUME Different(d)
        PROVE  Different(c) /\ \A k \in 1..n : c[k] # r
    <3>1. ASSUME NEW i \in 1..n, NEW j \in 1..n, c[i] = c[j]
          PROVE  i = j
      BY <1>2, <1>7, <2>1, <2>2, <3>1
    <3>2. ASSUME NEW k \in 1..n, c[k] = r
          PROVE  FALSE
      <4>1. d[k] = d[n + 1] /\ k # n + 1
        BY <1>1, <1>2, <3>2
      <4> QED
        BY <1>7, <2>1, <2>2, <4>1
    <3> QED
      BY <1>11, <3>1, <3>2
  <2>3. ASSUME Different(c), \A k \in 1..n : c[k] # r
        PROVE  Different(d)
    <3>1. ASSUME NEW i \in 1..(n + 1), NEW j \in 1..(n + 1), d[i] = d[j]
          PROVE  i = j
      <4>1. CASE i \in 1..n /\ j \in 1..n
        BY <1>2, <1>11, <2>3, <3>1, <4>1
      <4>2. CASE i \in 1..n /\ j = n + 1
        BY <1>2, <2>3, <3>1, <4>2
      <4>3. CASE i = n + 1 /\ j \in 1..n
        BY <1>2, <2>3, <3>1, <4>3
      <4> QED
        BY <1>7, <4>1, <4>2, <4>3
    <3> QED
      BY <2>1, <3>1
  <2> QED
    BY <2>2, <2>3
<1>14. Different(both) <=> Different(all) /\ \A i \in 1..m : \A p \in 1..l : all[i] # own[p]
  <2>1. Different(both) <=> \A i, j \in 1..(m + l) : both[i] = both[j] => i = j
    BY <1>4 DEF Different
  <2>2. ASSUME Different(both)
        PROVE  Different(all) /\ \A i \in 1..m : \A p \in 1..l : all[i] # own[p]
    <3>1. ASSUME NEW i \in 1..m, NEW j \in 1..m, all[i] = all[j]
          PROVE  i = j
      BY <1>4, <1>7, <2>1, <2>2, <3>1
    <3>2. ASSUME NEW i \in 1..m, NEW p \in 1..l, all[i] = own[p]
          PROVE  FALSE
      <4>1. both[i] = both[m + p] /\ i # m + p
        BY <1>1, <1>4, <3>2
      <4> QED
        BY <1>7, <2>1, <2>2, <4>1
    <3> QED
      BY <1>12, <3>1, <3>2
  <2>3. ASSUME Different(all), \A i \in 1..m : \A p \in 1..l : all[i] # own[p]
        PROVE  Different(both)
    <3>1. ASSUME NEW i \in 1..(m + l), NEW j \in 1..(m + l), both[i] = both[j]
          PROVE  i = j
      <4>1. CASE i \in 1..m /\ j \in 1..m
        BY <1>4, <1>12, <2>3, <3>1, <4>1
      <4>2. CASE i \in 1..m /\ j - m \in 1..l /\ j = m + (j - m)
        BY <1>4, <2>3, <3>1, <4>2
      <4>3. CASE j \in 1..m /\ i - m \in 1..l /\ i = m + (i - m)
        BY <1>4, <2>3, <3>1, <4>3
      <4>4. CASE /\ i - m \in 1..l /\ i = m + (i - m)
                 /\ j - m \in 1..l /\ j = m + (j - m)
        <5> DEFINE p == i - m
                   q == j - m
        <5>1. p \in 1..l /\ q \in 1..l /\ own[p] = own[q]
          <6>1. both[m + (i - m)] = own[i - m] /\ both[m + (j - m)] = own[j - m]
            BY <1>4, <4>4
          <6> QED
            BY <3>1, <4>4, <6>1
        <5> HIDE DEF p, q
        <5>2. p = q
          BY <1>3, <5>1 DEF Apart, l
        <5> QED
          BY <4>4, <5>2 DEF p, q
      <4> QED
        BY <1>7, <4>1, <4>2, <4>3, <4>4
    <3> QED
      BY <2>1, <3>1
  <2> QED
    BY <2>2, <2>3
<1>15. (\A k \in 1..n : c[k] # r) <=> \A i \in 1..m : \A p \in 1..l : all[i] # own[p]
  <2>1. ASSUME NEW i \in 1..m, NEW p \in 1..l, all[i] = own[p]
        PROVE  \E k \in 1..n : c[k] = r
    <3>1. PICK k \in 1..n : Comes(all[i], c[k])
      BY <1>1
    <3>2. c[k] \in Reports /\ Comes(own[p], r)
      BY <1>1, <1>5
    <3>3. c[k] = r
      BY <2>1, <3>1, <3>2, KeysIdentify
    <3> QED
      BY <3>3
  <2>2. ASSUME NEW k \in 1..n, c[k] = r
        PROVE  \E i \in 1..m : \E p \in 1..l : all[i] = own[p]
    <3>1. 1 \in 1..l
      BY <1>5
    <3>2. EventsOf(c[k]) = own /\ 1 \in 1..Len(EventsOf(c[k]))
      BY <1>6, <2>2, <3>1 DEF l
    <3>3. \E i \in 1..m : all[i] = own[1]
      BY <1>1, <3>2
    <3> QED
      BY <3>1, <3>3
  <2> QED
    BY <2>1, <2>2
<1>16. Different(both) <=> Different(d)
  BY <1>1, <1>13, <1>14, <1>15
<1>17. Derived(d, both)
  BY <1>2, <1>4, <1>8, <1>9, <1>10, <1>16 DEF Derived
<1> QED
  BY <1>17 DEF d, both, own

EventKeys(seq) == [k \in DOMAIN seq |-> SortKey(seq[k])]

\* The events collected can be sorted, and a sort key is of one event.
LEMMA EventsAreKeyed ==
  ASSUME NEW c, NEW all, Derived(c, all)
  PROVE  /\ IsList(all) /\ Len(all) \in Nat /\ DOMAIN all = 1..Len(all)
         /\ \A i \in 1..Len(all) : EventKeys(all)[i] = SortKey(all[i])
         /\ Keyed(Len(all), 5, EventKeys(all))
         /\ \A i, j \in 1..Len(all) :
               EventKeys(all)[i] = EventKeys(all)[j] => all[i] = all[j]
<1>1. IsList(all) /\ Len(all) \in Nat
  BY DEF Derived, IsList
<1>2. DOMAIN all = 1..Len(all)
  BY <1>1 DEF IsList
<1>3. \A i \in 1..Len(all) : EventKeys(all)[i] = SortKey(all[i])
  BY <1>2 DEF EventKeys
<1>4. \A i \in 1..Len(all) : \E r \in Reports : Comes(all[i], r)
  BY DEF Derived
<1>5. \A i \in 1..Len(all) : SortKey(all[i]) \in Keys(5)
  BY <1>4, KeysIdentify
<1>6. ASSUME NEW i \in 1..Len(all), NEW j \in 1..Len(all), SortKey(all[i]) = SortKey(all[j])
      PROVE  all[i] = all[j]
  BY <1>4, <1>6, KeysIdentify
<1> QED
  BY <1>1, <1>2, <1>3, <1>5, <1>6 DEF Keyed

\* What an index has of the events there are: all of them, and in the order of
\* their ticks.
Tells(c, indexed) ==
  /\ IsList(indexed) /\ Different(indexed)
  /\ \A i \in 1..Len(indexed) : \E k \in 1..Len(c) : Comes(indexed[i], c[k])
  /\ \A k \in 1..Len(c) : \A p \in 1..Len(EventsOf(c[k])) :
        \E i \in 1..Len(indexed) : indexed[i] = EventsOf(c[k])[p]
  /\ \A i, j \in 1..Len(indexed) : i < j => indexed[i].tick <= indexed[j].tick

\* Sorted, the events are those that were collected, in the order of their ticks.
LEMMA IndexTells ==
  ASSUME NEW c, NEW all, Derived(c, all), Different(all)
  PROVE  Tells(c, Sorted(all))
<1> DEFINE n == Len(all)
           keys == EventKeys(all)
           indexed == Sorted(all)
<1>1. /\ IsList(all) /\ n \in Nat /\ DOMAIN all = 1..n
      /\ \A i \in 1..n : keys[i] = SortKey(all[i])
      /\ Keyed(n, 5, keys)
  BY EventsAreKeyed
<1>2. indexed = SortedBy(all, keys)
  BY DEF Sorted, EventKeys
<1> HIDE DEF keys
<1>3. IsList(indexed) /\ Len(indexed) = n
  BY <1>1, <1>2, SortedByIs
<1>4. PICK from : Arranged(all, keys, indexed, from)
  BY <1>1, <1>2, SortedByIsSorted
<1> HIDE DEF n, indexed
<1>5. /\ \A k \in 1..n : from[k] \in 1..n /\ indexed[k] = all[from[k]]
      /\ \A k, l \in 1..n : from[k] = from[l] => k = l
      /\ \A x \in 1..n : \E k \in 1..n : from[k] = x
      /\ \A k, l \in 1..n : k < l => \/ Precedes(keys[from[k]], keys[from[l]])
                                     \/ keys[from[k]] = keys[from[l]]
  BY <1>4 DEF Arranged, n
<1>6. /\ \A i, j \in 1..n : all[i] = all[j] => i = j
      /\ \A i \in 1..n : \E k \in 1..Len(c) : Comes(all[i], c[k])
      /\ \A k \in 1..Len(c) : c[k] \in Reports
      /\ \A k \in 1..Len(c) : \A p \in 1..Len(EventsOf(c[k])) :
            \E i \in 1..n : all[i] = EventsOf(c[k])[p]
  BY DEF Derived, Different, n
<1>7. Different(indexed)
  <2>1. ASSUME NEW i \in 1..n, NEW j \in 1..n, indexed[i] = indexed[j]
        PROVE  i = j
    <3>1. /\ from[i] \in 1..n /\ indexed[i] = all[from[i]]
          /\ from[j] \in 1..n /\ indexed[j] = all[from[j]]
      BY <1>5
    <3>2. from[i] = from[j]
      BY <1>6, <2>1, <3>1
    <3> QED
      BY <1>5, <3>2
  <2> QED
    BY <1>3, <2>1 DEF Different
<1>8. \A i \in 1..n : \E k \in 1..Len(c) : Comes(indexed[i], c[k])
  <2> TAKE i \in 1..n
  <2>1. from[i] \in 1..n /\ indexed[i] = all[from[i]]
    BY <1>5
  <2> QED
    BY <1>6, <2>1
<1>9. \A k \in 1..Len(c) : \A p \in 1..Len(EventsOf(c[k])) :
         \E i \in 1..n : indexed[i] = EventsOf(c[k])[p]
  <2> TAKE k \in 1..Len(c)
  <2> TAKE p \in 1..Len(EventsOf(c[k]))
  <2>1. PICK x \in 1..n : all[x] = EventsOf(c[k])[p]
    BY <1>6
  <2>2. PICK i \in 1..n : from[i] = x
    BY <1>5
  <2> QED
    BY <1>5, <2>1, <2>2
<1>10. ASSUME NEW i \in 1..n, NEW j \in 1..n, i < j
       PROVE  indexed[i].tick <= indexed[j].tick
  <2>1. PICK r \in Reports : Comes(indexed[i], r)
    BY <1>6, <1>8
  <2>2. PICK s \in Reports : Comes(indexed[j], s)
    BY <1>6, <1>8
  <2> DEFINE a == SortKey(indexed[i])
             b == SortKey(indexed[j])
  <2>3. /\ a \in Keys(5) /\ a[1] = indexed[i].tick
        /\ b \in Keys(5) /\ b[1] = indexed[j].tick
    BY <2>1, <2>2, KeysIdentify
  <2>4. keys[from[i]] = a /\ keys[from[j]] = b
    <3>1. from[i] \in 1..n /\ from[j] \in 1..n
      BY <1>5
    <3>2. keys[from[i]] = SortKey(all[from[i]]) /\ keys[from[j]] = SortKey(all[from[j]])
      BY <1>1, <3>1 DEF n
    <3> QED
      BY <1>5, <3>2
  <2>5. Precedes(a, b) \/ a = b
    BY <1>5, <1>10, <2>4
  <2> HIDE DEF a, b
  <2>6. a[1] \in Nat /\ b[1] \in Nat /\ DOMAIN a = 1..5
    BY <2>3 DEF Keys
  <2>7. Precedes(a, b) => a[1] <= b[1]
    <3>1. ASSUME NEW k \in 1..5, a[k] < b[k], \A j_1 \in 1..(k - 1) : a[j_1] = b[j_1]
          PROVE  a[1] <= b[1]
      <4>1. k = 1 \/ 1 \in 1..(k - 1)
        OBVIOUS
      <4> QED
        BY <2>6, <3>1, <4>1
    <3> QED
      BY <2>3, <2>6, <3>1 DEF Precedes, Keys
  <2> QED
    BY <2>3, <2>5, <2>6, <2>7
<1>11. Tells(c, indexed)
  BY <1>3, <1>7, <1>8, <1>9, <1>10 DEF Tells
<1> QED
  BY <1>11 DEF indexed

\* That the elements of a list are different, said in two ways.
LEMMA DifferentIsInjective ==
  ASSUME NEW s, IsList(s)
  PROVE  IsInjective(s) <=> Different(s)
<1>1. DOMAIN s = 1..Len(s)
  BY DEF IsList
<1> QED
  BY <1>1 DEF IsInjective, Different

\* The elements of a list are different when they are so read backwards.
LEMMA MirroredIsDifferent ==
  ASSUME NEW s, IsList(s)
  PROVE  /\ IsList(Reverse(s)) /\ Len(Reverse(s)) = Len(s)
         /\ \A i \in 1..Len(s) : Reverse(s)[i] = s[Len(s) + 1 - i]
         /\ Different(Reverse(s)) <=> Different(s)
<1> DEFINE n == Len(s)
           back == Reverse(s)
<1>1. n \in Nat
  BY DEF IsList
<1>2. back = [x \in 1..n |-> s[n - x + 1]]
  BY DEF Reverse
<1>3. DOMAIN back = 1..n /\ back = [x \in 1..n |-> back[x]]
  BY <1>2
<1>4. \A x \in 1..n : n - x + 1 = n + 1 - x /\ n + 1 - x \in 1..n
                      /\ n + 1 - (n + 1 - x) = x
  BY <1>1
<1>5. \A x \in 1..n : back[x] = s[n + 1 - x]
  BY <1>2, <1>4
<1> HIDE DEF back
<1>6. IsList(back) /\ Len(back) = n
  BY <1>1, <1>3, ListOf
<1> HIDE DEF n
<1>7. ASSUME \A i, j \in 1..n : s[i] = s[j] => i = j
      PROVE  \A i, j \in 1..n : back[i] = back[j] => i = j
  <2> TAKE i, j \in 1..n
  <2>1. back[i] = back[j] => n + 1 - i = n + 1 - j
    BY <1>4, <1>5, <1>7
  <2> QED
    BY <1>1, <2>1
<1>8. ASSUME \A i, j \in 1..n : back[i] = back[j] => i = j
      PROVE  \A i, j \in 1..n : s[i] = s[j] => i = j
  <2> TAKE i, j \in 1..n
  <2>1. back[n + 1 - i] = s[i] /\ back[n + 1 - j] = s[j]
    BY <1>4, <1>5
  <2>2. s[i] = s[j] => n + 1 - i = n + 1 - j
    BY <1>4, <1>8, <2>1
  <2> QED
    BY <1>1, <2>2
<1>9. Different(back) <=> Different(s)
  BY <1>6, <1>7, <1>8 DEF Different, n
<1> QED
  BY <1>5, <1>6, <1>9 DEF back, n

\* The events in the opposite order give the same index.
LEMMA ReverseIndex ==
  ASSUME NEW c, NEW all, Derived(c, all)
  PROVE  IndexOf(Reverse(all)) = IndexOf(all)
<1> DEFINE back == Reverse(all)
           n == Len(all)
           keys == EventKeys(all)
           mirrored == EventKeys(back)
<1>1. /\ IsList(all) /\ n \in Nat /\ DOMAIN all = 1..n
      /\ \A i \in 1..n : keys[i] = SortKey(all[i])
      /\ Keyed(n, 5, keys)
      /\ \A i, j \in 1..n : keys[i] = keys[j] => all[i] = all[j]
  BY EventsAreKeyed
<1>2. /\ IsList(back) /\ Len(back) = n
      /\ \A i \in 1..n : back[i] = all[n + 1 - i]
      /\ Different(back) <=> Different(all)
  BY <1>1, MirroredIsDifferent
<1>3. IsInjective(back) <=> IsInjective(all)
  BY <1>1, <1>2, DifferentIsInjective
<1>4. Sorted(back) = SortedBy(back, mirrored) /\ Sorted(all) = SortedBy(all, keys)
  BY DEF Sorted, EventKeys
<1>5. \A i \in 1..n : mirrored[i] = keys[n + 1 - i]
  <2> TAKE i \in 1..n
  <2>1. n + 1 - i \in 1..n /\ DOMAIN back = 1..n
    BY <1>1, <1>2 DEF IsList
  <2>2. mirrored[i] = SortKey(back[i])
    BY <2>1 DEF EventKeys
  <2> HIDE DEF mirrored, keys, back
  <2> QED
    BY <1>1, <1>2, <2>1, <2>2
<1> HIDE DEF keys, mirrored
<1>6. ASSUME Different(all)
      PROVE  Sorted(back) = Sorted(all)
  <2>1. \A i, j \in 1..n : keys[i] = keys[j] => i = j
    BY <1>1, <1>6 DEF Different
  <2>2. SortedBy(Reverse(all), mirrored) = SortedBy(all, keys)
    BY <1>1, <1>5, <2>1, ReverseIsSortedAlike
  <2> QED
    BY <1>4, <2>2
<1> HIDE DEF back
<1>7. IsInjective(all) <=> Different(all)
  BY <1>1, DifferentIsInjective
<1>8. IndexOf(back) = IndexOf(all)
  BY <1>3, <1>6, <1>7 DEF IndexOf
<1> QED
  BY <1>8 DEF back

-----------------------------------------------------------------------------
(* The trail.                                                              *)

\* The index has just what was collected.
TrailInv ==
  /\ trail.state \in {"none", "collecting", "built", "refused"}
  /\ Derived(collected, events)
  /\ trail.state \in {"none", "collecting"} => trail.events = <<>>
  /\ trail.state \in {"built", "refused"} => trail = IndexOf(events)

\* A trail starts with nothing collected.
LEMMA TrailStarts ==
  ASSUME NEW started \in {"none", "collecting"}, TrailInit(started)
  PROVE  TrailInv
<1>1. /\ trail.state \in {"none", "collecting"} /\ trail.events = <<>>
      /\ collected = <<>> /\ events = <<>>
  BY DEF TrailInit
<1>2. Derived(collected, events)
  BY <1>1, NothingDerived
<1> QED
  BY <1>1, <1>2 DEF TrailInv

\* A trail that does not change keeps its invariant.
LEMMA TrailStays ==
  ASSUME TrailInv, UNCHANGED trailVars
  PROVE  TrailInv'
<1>1. collected' = collected /\ events' = events /\ trail' = trail
  BY DEF trailVars
<1>2. Derived(collected', events') <=> Derived(collected, events)
  BY <1>1
<1>3. IndexOf(events') = IndexOf(events)
  BY <1>1
<1> QED
  BY <1>1, <1>2, <1>3 DEF TrailInv

\* Collecting a report keeps the invariant of the trail, and so does indexing.
LEMMA TrailSteps ==
  ASSUME TrailInv, TrailNext
  PROVE  TrailInv'
<1>1. CASE BuildIndex
  <2>1. collected' = collected /\ events' = events /\ trail' = IndexOf(events)
    BY <1>1 DEF BuildIndex
  <2>2. IndexOf(events).state \in {"built", "refused"}
    BY DEF IndexOf
  <2>3. Derived(collected', events') /\ trail' = IndexOf(events')
    BY <2>1 DEF TrailInv
  <2>4. trail'.state \in {"built", "refused"}
    BY <2>1, <2>2
  <2> QED
    BY <2>3, <2>4 DEF TrailInv
<1>2. ASSUME NEW r \in Reports, Collect(r)
      PROVE  TrailInv'
  <2>1. /\ collected' = Append(collected, r) /\ events' = events \o EventsOf(r)
        /\ trail' = trail /\ trail.state = "collecting"
    BY <1>2 DEF Collect
  <2>2. Derived(Append(collected, r), events \o EventsOf(r))
    BY OneMore DEF TrailInv
  <2>3. Derived(collected', events')
    BY <2>1, <2>2
  <2> QED
    BY <2>1, <2>3 DEF TrailInv
<1> QED
  BY <1>1, <1>2 DEF TrailNext

\* Whatever is collected, the index has its events and no others.
THEOREM TrailInvariant == TrailSpec => []TrailInv
<1>1. TrailInit("collecting") => TrailInv
  BY TrailStarts
<1>2. TrailInv /\ [TrailNext]_trailVars => TrailInv'
  BY TrailStays, TrailSteps
<1> QED
  BY <1>1, <1>2, PTL DEF TrailSpec

\* The invariant makes an index independent of the order of arrival: both orders
\* sort to the same list, since no two events have equal sort keys.
LEMMA ArrivalDoesNotMatterNow ==
  ASSUME TrailInv
  PROVE  ArrivalDoesNotMatter
<1> SUFFICES ASSUME trail.state \in {"built", "refused"}
             PROVE  /\ trail = IndexOf(Reverse(events))
                    /\ trail.state = "refused" <=> ~IsInjective(collected)
  BY DEF ArrivalDoesNotMatter
<1>1. Derived(collected, events) /\ trail = IndexOf(events)
  BY DEF TrailInv
<1>2. trail = IndexOf(Reverse(events))
  BY <1>1, ReverseIndex
<1>3. IsInjective(events) <=> IsInjective(collected)
  <2>1. IsList(events) /\ IsList(collected) /\ (Different(events) <=> Different(collected))
    BY <1>1 DEF Derived
  <2> QED
    BY <2>1, DifferentIsInjective
<1>4. trail.state = "refused" <=> ~IsInjective(events)
  BY <1>1 DEF IndexOf
<1> QED
  BY <1>2, <1>3, <1>4

\* An index that was built has the events that were derived.
LEMMA IndexIsBuilt ==
  ASSUME TrailInv, trail.state = "built"
  PROVE  Derived(collected, events) /\ Tells(collected, trail.events)
<1>1. Derived(collected, events) /\ trail = IndexOf(events)
  BY DEF TrailInv
<1>2. IsInjective(events) /\ trail.events = Sorted(events)
  BY <1>1 DEF IndexOf
<1>3. Different(events)
  BY <1>1, <1>2, DifferentIsInjective DEF Derived
<1> QED
  BY <1>1, <1>2, <1>3, IndexTells

\* The events of a report in the index.
OwnEvents(r) ==
  /\ \A i \in Own(r) : Comes(trail.events[i], r)
  /\ \A p \in 1..Len(EventsOf(r)) : \E i \in Own(r) : trail.events[i] = EventsOf(r)[p]
  /\ \A i, j \in Own(r) : /\ i \in Nat /\ j \in Nat
                          /\ trail.events[i] = trail.events[j] => i = j
                          /\ i < j => trail.events[i].tick <= trail.events[j].tick

\* The events of a report in the index are those derived from it, by their ticks.
LEMMA OwnEventsAre ==
  ASSUME TrailInv, trail.state = "built", NEW r \in ToSet(collected)
  PROVE  r \in Reports /\ OwnEvents(r)
<1> DEFINE indexed == trail.events
<1>1. Derived(collected, events) /\ Tells(collected, indexed)
  BY IndexIsBuilt
<1> HIDE DEF indexed
<1>2. /\ \A k \in 1..Len(collected) : collected[k] \in Reports
      /\ IsList(collected)
  BY <1>1 DEF Derived
<1>3. PICK k \in 1..Len(collected) : collected[k] = r
  BY <1>2 DEF ToSet, IsList
<1>4. /\ IsList(indexed) /\ Different(indexed)
      /\ \A i \in 1..Len(indexed) : \E l \in 1..Len(collected) : Comes(indexed[i], collected[l])
      /\ \A p \in 1..Len(EventsOf(r)) :
            \E i \in 1..Len(indexed) : indexed[i] = EventsOf(r)[p]
      /\ \A i, j \in 1..Len(indexed) : i < j => indexed[i].tick <= indexed[j].tick
  BY <1>1, <1>3 DEF Tells
<1>5. Own(r) = {i \in 1..Len(indexed) : indexed[i].payload.fp = r.fp}
  BY <1>4 DEF Own, IsList, indexed
<1>6. r \in Reports
  BY <1>2, <1>3
<1>7. ASSUME NEW i \in Own(r)
      PROVE  Comes(indexed[i], r)
  <2>1. PICK l \in 1..Len(collected) : Comes(indexed[i], collected[l])
    BY <1>4, <1>5
  <2>2. collected[l] \in Reports /\ indexed[i].payload.fp = collected[l].fp
    BY <1>2, <2>1, KeysIdentify
  <2>3. collected[l] = r
    BY <1>5, <1>6, <2>2, ReportsAre
  <2> QED
    BY <2>1, <2>3
<1>8. ASSUME NEW p \in 1..Len(EventsOf(r))
      PROVE  \E i \in Own(r) : indexed[i] = EventsOf(r)[p]
  <2>1. PICK i \in 1..Len(indexed) : indexed[i] = EventsOf(r)[p]
    BY <1>4
  <2>2. indexed[i].payload.fp = r.fp
    BY <1>6, <2>1, EventsOfReport DEF Proper
  <2> QED
    BY <1>5, <2>1, <2>2
<1>9. \A i, j \in Own(r) : /\ i \in Nat /\ j \in Nat
                           /\ indexed[i] = indexed[j] => i = j
                           /\ i < j => indexed[i].tick <= indexed[j].tick
  BY <1>4, <1>5 DEF Different
<1> QED
  BY <1>6, <1>7, <1>8, <1>9 DEF OwnEvents, indexed

\* An event that is earlier is before.
LEMMA EarlierIsBefore ==
  ASSUME NEW r \in Reports, OwnEvents(r), NEW i \in Own(r), NEW j \in Own(r),
         trail.events[i].tick < trail.events[j].tick
  PROVE  i < j
<1>1. /\ i \in Nat /\ j \in Nat
      /\ trail.events[i] = trail.events[j] => i = j
      /\ i = j => trail.events[i].tick = trail.events[j].tick
      /\ j < i => trail.events[j].tick <= trail.events[i].tick
  BY DEF OwnEvents
<1>2. trail.events[i].tick \in Nat /\ trail.events[j].tick \in Nat
  <2>1. Comes(trail.events[i], r) /\ Comes(trail.events[j], r)
    BY DEF OwnEvents
  <2> QED
    BY <2>1, EventsOfReport DEF Comes, Proper
<1> QED
  BY <1>1, <1>2

\* A decision has a tick after the look it rests on, and the report has the last
\* when each item has a name.
LEMMA ItemsTellTheStory ==
  ASSUME NEW r \in Reports, OwnEvents(r), Items(r),
         NEW namespace \in {"pair::", "proposal::"},
         NEW look \in {"CompatibilityChecked", "ProposalEvaluated"},
         NEW whole \in {"CompatibilityMatrixReported", "ExpertProposalBatchReported"},
         EventsOf(r) = ItemEvents(r, namespace, look, whole)
  PROVE  /\ LookedAtFirst(r)
         /\ (\A k \in DOMAIN r.items : r.items[k].id # 0) => ReportedLast(r)
<1> DEFINE n == 2 * (Len(r.items) - Unnamed(r))
           u == Unnamed(r)
           all == EventsOf(r)
           indexed == trail.events
<1>1. ItemStory(r, namespace, look, whole, all, n)
  BY ItemEventsAre
<1>2. u \in Nat /\ ((\A k \in DOMAIN r.items : r.items[k].id # 0) => u = 0)
  BY ItemsAreSorted
<1> HIDE DEF n, u, all, indexed
<1>3. /\ n \in Nat /\ Len(all) = n + 1
      /\ all[n + 1].type = whole /\ all[n + 1].tick = n
      /\ all[n + 1].correlation[1] = "report::"
  BY <1>1 DEF ItemStory, Event
<1>4. \A p \in 1..n :
        /\ all[p].tick = 2 * u + p - 1
        /\ \/ all[p].type = look
           \/ /\ p - 1 \in 1..n /\ all[p - 1].type = look
              /\ all[p - 1].payload = all[p].payload
  BY <1>1 DEF ItemStory, u
<1>5. /\ \A i \in Own(r) : \E p \in 1..(n + 1) : indexed[i] = all[p]
      /\ \A p \in 1..(n + 1) : \E i \in Own(r) : indexed[i] = all[p]
      /\ \A i, j \in Own(r) : indexed[i] = indexed[j] => i = j
      /\ \A i \in Own(r) : i \in Nat
  BY <1>3 DEF OwnEvents, Comes, all, indexed
<1>6. \A i, j \in Own(r) : indexed[i].tick < indexed[j].tick => i < j
  BY EarlierIsBefore DEF indexed
<1>7. \A p \in 1..(n + 1) : p \in 1..n \/ p = n + 1
  BY <1>3
<1>8. ASSUME NEW j \in Own(r), indexed[j].type \in Decisions
      PROVE  \E i \in Own(r) :
               /\ i < j
               /\ indexed[i].type \in {"CompatibilityChecked", "ProposalEvaluated"}
               /\ indexed[i].payload = indexed[j].payload
  <2>1. PICK p \in 1..(n + 1) : indexed[j] = all[p]
    BY <1>5
  <2>2. whole \notin Decisions /\ look \notin Decisions
    BY DEF Decisions
  <2>3. p \in 1..n /\ all[p].type # look
    BY <1>3, <1>7, <1>8, <2>1, <2>2
  <2>4. /\ all[p].tick = 2 * u + p - 1
        /\ p - 1 \in 1..n /\ all[p - 1].type = look
        /\ all[p - 1].payload = all[p].payload
    BY <1>4, <2>3
  <2>5. p - 1 \in 1..(n + 1) /\ all[p - 1].tick = 2 * u + (p - 1) - 1
    BY <1>3, <1>4, <2>4
  <2>6. PICK i \in Own(r) : indexed[i] = all[p - 1]
    BY <1>5, <2>5
  <2>7. indexed[i].tick < indexed[j].tick
    <3>1. p \in Nat /\ u \in Nat
      BY <1>2, <1>3, <2>3
    <3>2. 2 * u + (p - 1) - 1 < 2 * u + p - 1
      BY <3>1
    <3> QED
      BY <2>1, <2>4, <2>5, <2>6, <3>2
  <2> QED
    BY <1>6, <2>1, <2>4, <2>6, <2>7
<1>9. ASSUME u = 0
      PROVE  \E j \in Own(r) : /\ indexed[j].correlation[1] = "report::"
                               /\ \A i \in Own(r) : i <= j
  <2>1. n + 1 \in 1..(n + 1)
    BY <1>3
  <2>2. PICK j \in Own(r) : indexed[j] = all[n + 1]
    BY <1>5, <2>1
  <2>3. ASSUME NEW i \in Own(r)
        PROVE  i <= j
    <3>1. PICK p \in 1..(n + 1) : indexed[i] = all[p]
      BY <1>5
    <3>2. i \in Nat /\ j \in Nat
      BY <1>5
    <3>3. CASE p = n + 1
      BY <1>5, <2>2, <3>1, <3>2, <3>3
    <3>4. CASE p \in 1..n
      <4>1. indexed[i].tick = 2 * 0 + p - 1 /\ indexed[j].tick = n
        BY <1>3, <1>4, <1>9, <2>2, <3>1, <3>4
      <4>2. indexed[i].tick < indexed[j].tick
        BY <1>3, <3>4, <4>1
      <4> QED
        BY <1>6, <3>2, <4>2
    <3> QED
      BY <1>7, <3>3, <3>4
  <2> QED
    BY <1>3, <2>2, <2>3
<1> QED
  BY <1>2, <1>8, <1>9 DEF LookedAtFirst, ReportedLast, indexed

\* The ticks of a surrogate's evaluation are those of its rows, between the start
\* and the end.
LEMMA SurrogateTellsTheStory ==
  ASSUME NEW r \in Reports, OwnEvents(r), r.type = "gaia_surrogate"
  PROVE  EvaluatedRowByRow(r)
<1> DEFINE n == Len(r.mismatches)
           all == EventsOf(r)
           indexed == trail.events
<1>1. /\ all = SurrogateEvents(r) /\ r.mismatches \in Seq(Nat \cup {NoRow})
      /\ r.fp \in Nat /\ r.routing \in Nat
  BY ReportsAre DEF EventsOf
<1> HIDE DEF all, indexed
<1>2. SurrogateStory(r, all, Len(r.mismatches))
  BY <1>1, SurrogateEventsAre
<1> HIDE DEF n
<1>3. /\ n \in Nat /\ Len(all) = n + 2
      /\ \A p \in 1..(n + 2) : all[p].tick = p - 1
      /\ all[1].type = "GaiaSurrogateProposalEvaluated"
      /\ all[n + 2].type = "GaiaSurrogateEvaluationCompleted"
      /\ \A p, q \in 2..(n + 1) :
           p < q => \/ all[p].payload.row <= all[q].payload.row
                    \/ NoRow \in ToSet(r.mismatches) /\ all[p].payload.row = p - 1
  <2>1. SurrogateStory(r, all, n)
    BY <1>2 DEF n
  <2>2. n \in Nat
    BY <2>1 DEF SurrogateStory
  <2>3. 1 \in 1..(n + 2) /\ n + 2 \in 1..(n + 2) /\ n + 2 # 1
    BY <2>2
  <2> QED
    BY <2>1, <2>3 DEF SurrogateStory
<1>4. /\ \A i \in Own(r) : \E p \in 1..(n + 2) : indexed[i] = all[p]
      /\ \A p \in 1..(n + 2) : \E i \in Own(r) : indexed[i] = all[p]
      /\ \A i, j \in Own(r) : indexed[i] = indexed[j] => i = j
      /\ \A i \in Own(r) : i \in Nat
      /\ \A i, j \in Own(r) : i < j => indexed[i].tick <= indexed[j].tick
  BY <1>3 DEF OwnEvents, Comes, all, indexed
<1>5. \A i, j \in Own(r) : indexed[i].tick < indexed[j].tick => i < j
  BY EarlierIsBefore DEF indexed
<1>6. 1 \in 1..(n + 2) /\ n + 2 \in 1..(n + 2)
  BY <1>3
<1>7. PICK a \in Own(r) : indexed[a] = all[1]
  BY <1>4, <1>6
<1>8. PICK z \in Own(r) : indexed[z] = all[n + 2]
  BY <1>4, <1>6
<1>9. indexed[a].tick = 0 /\ indexed[z].tick = n + 1
  BY <1>3, <1>6, <1>7, <1>8
<1>10. ASSUME NEW i \in Own(r)
       PROVE  a <= i /\ i <= z
  <2>1. PICK p \in 1..(n + 2) : indexed[i] = all[p]
    BY <1>4
  <2>2. a \in Nat /\ i \in Nat /\ z \in Nat
    BY <1>4
  <2>3. indexed[i].tick = p - 1
    BY <1>3, <2>1
  <2>4. p = 1 \/ indexed[a].tick < indexed[i].tick
    BY <1>3, <1>9, <2>3
  <2>5. p = n + 2 \/ indexed[i].tick < indexed[z].tick
    BY <1>3, <1>9, <2>3
  <2>6. p = 1 => i = a
    BY <1>4, <1>7, <2>1
  <2>7. p = n + 2 => i = z
    BY <1>4, <1>8, <2>1
  <2> QED
    BY <1>5, <2>2, <2>4, <2>5, <2>6, <2>7
<1>11. ASSUME NEW i \in Own(r) \ {a, z}, NEW j \in Own(r) \ {a, z}, i < j
       PROVE  \/ indexed[i].payload.row <= indexed[j].payload.row
              \/ /\ NoRow \in ToSet(r.mismatches)
                 /\ indexed[i].payload.row = indexed[i].tick
  <2>1. PICK p \in 1..(n + 2) : indexed[i] = all[p]
    BY <1>4
  <2>2. PICK q \in 1..(n + 2) : indexed[j] = all[q]
    BY <1>4
  <2>3. p # 1 /\ p # n + 2 /\ q # 1 /\ q # n + 2
    BY <1>4, <1>7, <1>8, <2>1, <2>2
  <2>4. p \in 2..(n + 1) /\ q \in 2..(n + 1)
    BY <1>3, <2>3
  <2>5. p - 1 <= q - 1
    <3>1. indexed[i].tick <= indexed[j].tick
      BY <1>4, <1>11
    <3>2. indexed[i].tick = p - 1 /\ indexed[j].tick = q - 1
      BY <1>3, <2>1, <2>2
    <3> QED
      BY <3>1, <3>2
  <2>6. p # q
    <3>1. indexed[i] = indexed[j] => i = j
      BY <1>4
    <3>2. i \in Nat /\ i # j
      BY <1>4, <1>11
    <3> QED
      BY <2>1, <2>2, <3>1, <3>2
  <2>7. p < q
    BY <1>3, <2>4, <2>5, <2>6
  <2>8. all[p].tick = p - 1
    BY <1>3, <2>1
  <2> QED
    BY <1>3, <2>1, <2>2, <2>4, <2>7, <2>8
<1> QED
  BY <1>3, <1>7, <1>8, <1>10, <1>11 DEF EvaluatedRowByRow, indexed

\* So the index of the invariant tells what happened.
LEMMA TrailTellsTheStoryNow ==
  ASSUME TrailInv
  PROVE  TrailTellsTheStory
<1> SUFFICES ASSUME trail.state = "built", NEW r \in ToSet(collected)
             PROVE  CASE r.type \in {"compatibility_matrix", "expert_report"} ->
                           /\ LookedAtFirst(r)
                           /\ (\A k \in DOMAIN r.items : r.items[k].id # 0) => ReportedLast(r)
                      [] r.type = "gaia_surrogate" -> EvaluatedRowByRow(r)
                      [] OTHER -> \E i \in Own(r) : Own(r) = {i}
  BY DEF TrailTellsTheStory
<1>1. r \in Reports /\ OwnEvents(r)
  BY OwnEventsAre
<1>2. CASE r.type \in {"compatibility_matrix", "expert_report"}
  <2>1. Items(r)
    BY <1>1, <1>2, ReportsAre DEF ReportTypes
  <2>2. CASE r.type = "compatibility_matrix"
    <3>1. EventsOf(r) = ItemEvents(r, "pair::", "CompatibilityChecked",
                                   "CompatibilityMatrixReported")
      BY <2>2 DEF EventsOf, CompatibilityEvents
    <3>2. /\ LookedAtFirst(r)
          /\ (\A k \in DOMAIN r.items : r.items[k].id # 0) => ReportedLast(r)
      BY <1>1, <2>1, <3>1, ItemsTellTheStory
    <3> QED
      BY <2>2, <3>2
  <2>3. CASE r.type = "expert_report"
    <3>1. EventsOf(r) = ItemEvents(r, "proposal::", "ProposalEvaluated",
                                   "ExpertProposalBatchReported")
      BY <2>3 DEF EventsOf, ExpertReportEvents
    <3>2. /\ LookedAtFirst(r)
          /\ (\A k \in DOMAIN r.items : r.items[k].id # 0) => ReportedLast(r)
      BY <1>1, <2>1, <3>1, ItemsTellTheStory
    <3> QED
      BY <2>3, <3>2
  <2> QED
    BY <1>2, <2>2, <2>3
<1>3. CASE r.type = "gaia_surrogate"
  BY <1>1, <1>3, SurrogateTellsTheStory
<1>4. CASE r.type \in RouterTypes
  <2>1. PICK e : EventsOf(r) = <<e>>
    BY <1>1, <1>4, RouterEventsAre
  <2>2. Len(EventsOf(r)) = 1 /\ EventsOf(r)[1] = e /\ \A p \in 1..1 : p = 1
    BY <2>1
  <2>3. \A i \in Own(r) : trail.events[i] = e
    BY <1>1, <2>2 DEF OwnEvents, Comes
  <2>4. \E i \in Own(r) : trail.events[i] = e
    BY <1>1, <2>2 DEF OwnEvents
  <2>5. \A i, j \in Own(r) : i = j
    BY <1>1, <2>3 DEF OwnEvents
  <2>6. \E i \in Own(r) : Own(r) = {i}
    BY <2>4, <2>5
  <2> QED
    BY <1>4, <2>6 DEF RouterTypes
<1> QED
  BY <1>1, <1>2, <1>3, <1>4, ReportsAre DEF RouterTypes

\* The order in which the reports came leaves no trace in the index.
THEOREM ArrivalsDoNotMatter == TrailSpec => []ArrivalDoesNotMatter
<1>1. TrailInv => ArrivalDoesNotMatter
  BY ArrivalDoesNotMatterNow
<1> QED
  BY <1>1, TrailInvariant, PTL

\* The index tells what happened in the order it happened.
THEOREM TrailsTellTheStory == TrailSpec => []TrailTellsTheStory
<1>1. TrailInv => TrailTellsTheStory
  BY TrailTellsTheStoryNow
<1> QED
  BY <1>1, TrailInvariant, PTL

-----------------------------------------------------------------------------
(* What an answer rests on.                                                *)

\* What is found in a graph, a log and facts depends on nothing else.
LEMMA GraphUnchanged ==
  ASSUME artifacts' = artifacts
  PROVE  /\ NodeIds' = NodeIds /\ AnyType' = AnyType /\ Log' = Log
         /\ \A targets, types : NodesMatching(targets, types)' = NodesMatching(targets, types)
         /\ \A ids : WithLineage(ids)' = WithLineage(ids)
         /\ \A target : EventIds(target)' = EventIds(target)
         /\ \A ids : SeqsOf(ids)' = SeqsOf(ids)
         /\ \A target : Neighborhood(target)' = Neighborhood(target)
         /\ \A target, projections : Commits(target, projections)' = Commits(target, projections)
         /\ \A target : FactsNamed(target)' = FactsNamed(target)
         /\ \A target : FactIds(target)' = FactIds(target)
         /\ \A target, projections :
               FactsOfProjections(target, projections)' = FactsOfProjections(target, projections)
         /\ \A target : ProjectionsOf(target)' = ProjectionsOf(target)
         /\ \A target, seqs : NodesOfEvent(target, seqs)' = NodesOfEvent(target, seqs)
         /\ \A target, seqs : FactsOfEvent(target, seqs)' = FactsOfEvent(target, seqs)
         /\ \A target, own : ProjectionsOfEvent(target, own)' = ProjectionsOfEvent(target, own)
         /\ \A target, projections : OriginNodes(target, projections)' = OriginNodes(target, projections)
<1>1. NodeIds' = NodeIds /\ AnyType' = AnyType /\ Log' = Log
  BY DEF NodeIds, AnyType, Log
<1>2. \A targets, types : NodesMatching(targets, types)' = NodesMatching(targets, types)
  BY DEF NodesMatching
<1>3. \A ids : Ancestors(ids)' = Ancestors(ids)
  BY <1>1 DEF Ancestors
<1>4. \A ids : WithLineage(ids)' = WithLineage(ids)
  BY <1>3 DEF WithLineage
<1>5. \A target : EventIds(target)' = EventIds(target)
  BY <1>1 DEF EventIds
<1>6. \A ids : SeqsOf(ids)' = SeqsOf(ids)
  BY <1>1 DEF SeqsOf
<1>7. \A target : Neighborhood(target)' = Neighborhood(target)
  BY <1>1 DEF Neighborhood
<1>8. \A target, projections : Commits(target, projections)' = Commits(target, projections)
  BY <1>1 DEF Commits
<1>9. \A target : FactsNamed(target)' = FactsNamed(target)
  BY <1>1 DEF FactsNamed
<1>10. \A target : FactIds(target)' = FactIds(target)
  BY <1>9 DEF FactIds
<1>11. \A target, projections :
          FactsOfProjections(target, projections)' = FactsOfProjections(target, projections)
  BY DEF FactsOfProjections
<1>12. \A target : ProjectionsOf(target)' = ProjectionsOf(target)
  BY <1>2, <1>8, <1>9 DEF ProjectionsOf
<1>13. \A target, seqs : NodesOfEvent(target, seqs)' = NodesOfEvent(target, seqs)
  BY DEF NodesOfEvent
<1>14. \A target, seqs : FactsOfEvent(target, seqs)' = FactsOfEvent(target, seqs)
  BY <1>9 DEF FactsOfEvent
<1>15. \A target, own : ProjectionsOfEvent(target, own)' = ProjectionsOfEvent(target, own)
  BY <1>1, <1>6 DEF ProjectionsOfEvent
<1>16. \A target, projections : OriginNodes(target, projections)' = OriginNodes(target, projections)
  BY <1>1, <1>2 DEF OriginNodes
<1> QED
  BY <1>1, <1>2, <1>4, <1>5, <1>6, <1>7, <1>8, <1>9, <1>10, <1>11, <1>12, <1>13, <1>14, <1>15, <1>16

\* What is found in the trail depends on nothing else.
LEMMA TrailUnchanged ==
  ASSUME artifacts' = artifacts, trail' = trail
  PROVE  /\ \A target : AuditEvents(target)' = AuditEvents(target)
         /\ \A target : AuditCorrelations(target)' = AuditCorrelations(target)
         /\ \A found : Answer(found)' = Answer(found)
         /\ \A routing : EvaluationOf(routing)' = EvaluationOf(routing)
         /\ \A routing : FoundOf(routing)' = FoundOf(routing)
         /\ \A name : ReportNamed(name)' = ReportNamed(name)
<1>1. \A target : AuditMatches(target)' = AuditMatches(target)
  BY DEF AuditMatches
<1>2. \A target : AuditEvents(target)' = AuditEvents(target)
  BY <1>1 DEF AuditEvents
<1>3. \A target : AuditCorrelations(target)' = AuditCorrelations(target)
  BY <1>1 DEF AuditCorrelations
<1>4. \A found : StatusOf(found)' = StatusOf(found)
  BY DEF StatusOf
<1>5. \A found : Answer(found)' = Answer(found)
  BY <1>4 DEF Answer
<1>6. \A correlation : LookupCorrelation(correlation)' = LookupCorrelation(correlation)
  BY DEF LookupCorrelation
<1>7. \A type : LookupType(type)' = LookupType(type)
  BY DEF LookupType
<1>8. \A routing, types : OfRouting(routing, types)' = OfRouting(routing, types)
  BY <1>6 DEF OfRouting
<1>9. \A places : FirstOf(places)' = FirstOf(places)
  BY DEF FirstOf
<1>10. \A routing : ValidationOf(routing)' = ValidationOf(routing)
  BY <1>8, <1>9 DEF ValidationOf
<1>11. \A routing : EvaluationOf(routing)' = EvaluationOf(routing)
  BY <1>8, <1>9 DEF EvaluationOf
<1>12. \A routing : ReplayOf(routing)' = ReplayOf(routing)
  BY <1>8, <1>9 DEF ReplayOf
<1>13. \A routing : BatchReportOf(routing)' = BatchReportOf(routing)
  BY <1>7, <1>9 DEF BatchReportOf
<1>14. \A routing : FoundOf(routing)' = FoundOf(routing)
  BY <1>10, <1>11, <1>12, <1>13 DEF FoundOf
<1>15. \A name : ReportNamed(name)' = ReportNamed(name)
  BY <1>7, <1>9 DEF ReportNamed
<1> QED
  BY <1>2, <1>3, <1>5, <1>11, <1>14, <1>15

\* What is asked of the same artifacts is answered the same.
LEMMA ExplainUnchanged ==
  ASSUME artifacts' = artifacts, trail' = trail
  PROVE  \A q : Explain(q)' = Explain(q)
<1>1. \A target : CauseOfProjection(target)' = CauseOfProjection(target)
  BY GraphUnchanged, TrailUnchanged DEF CauseOfProjection
<1>2. \A target : OriginProjection(target)' = OriginProjection(target)
  BY GraphUnchanged, TrailUnchanged DEF OriginProjection
<1>3. \A target : LineageOfFact(target)' = LineageOfFact(target)
  <2> TAKE target
  <2>1. /\ FactIds(target)' = FactIds(target) /\ FactsNamed(target)' = FactsNamed(target)
        /\ NodesMatching({target} \cup FactIds(target), AnyType)'
             = NodesMatching({target} \cup FactIds(target), AnyType)
    BY GraphUnchanged
  <2>2. WithLineage(NodesMatching({target} \cup FactIds(target), AnyType))'
          = WithLineage(NodesMatching({target} \cup FactIds(target), AnyType))
    BY <2>1, GraphUnchanged
  <2>3. AuditEvents(target)' = AuditEvents(target)
        /\ AuditCorrelations(target)' = AuditCorrelations(target)
    BY TrailUnchanged
  <2>4. \A found : Answer(found)' = Answer(found)
    BY TrailUnchanged
  <2> QED
    BY <2>1, <2>2, <2>3, <2>4 DEF LineageOfFact
<1>4. \A target : TraceOfEvent(target)' = TraceOfEvent(target)
  BY GraphUnchanged, TrailUnchanged DEF TraceOfEvent
<1>5. \A target : CauseOfEvent(target)' = CauseOfEvent(target)
  BY TrailUnchanged DEF CauseOfEvent
<1>6. \A name : TraceOfReport(name)' = TraceOfReport(name)
  BY TrailUnchanged DEF TraceOfReport
<1>7. \A name : RouterReport(name)' = RouterReport(name)
  BY TrailUnchanged DEF RouterReport
<1>8. \A routing : RouterDecision(routing)' = RouterDecision(routing)
  BY TrailUnchanged DEF RouterDecision
<1>9. \A side, routing, expert :
         CauseOfRouter(side, routing, expert)' = CauseOfRouter(side, routing, expert)
  BY TrailUnchanged DEF CauseOfRouter
<1> QED
  BY <1>1, <1>2, <1>3, <1>4, <1>5, <1>6, <1>7, <1>8, <1>9 DEF Explain

-----------------------------------------------------------------------------
(* Lineage: the least set that holds the sources of its own.               *)

\* The sources of the edges to these.
Sources(S) == {e.source : e \in {e \in artifacts.edges : e.target \in S}}

\* The walk against the edges, round by round.
LEMMA AncestorsClimb ==
  ASSUME NEW ids, NEW n \in Nat, Cardinality(artifacts.edges) = n
  PROVE  \E c : /\ c[0] = ids
                /\ \A k \in 1..n : c[k] = c[k - 1] \cup Sources(c[k - 1])
                /\ Ancestors(ids) = c[n] \cap NodeIds
<1> DEFINE Up(f, m) ==
             f = [k \in 0..m |->
                    IF k = 0 THEN ids
                    ELSE f[k - 1] \cup Sources(f[k - 1])]
           Without == {m \in Nat : ~ \E f : Up(f, m)}
<1>1. Without = {}
  <2> SUFFICES ASSUME Without # {} PROVE FALSE
    OBVIOUS
  <2>1. PICK m \in Without : \A k \in Without : m <= k
    BY LeastNumber
  <2>2. m # 0
    <3>1. Up([k \in 0..0 |-> ids], 0)
      OBVIOUS
    <3> QED
      BY <3>1
  <2>3. m \in Nat /\ m - 1 \in Nat /\ m - 1 \notin Without
    <3>1. m \in Nat /\ m - 1 \in Nat /\ ~ (m <= m - 1)
      BY <2>2
    <3> HIDE DEF Without
    <3> QED
      BY <2>1, <3>1
  <2>4. PICK f : Up(f, m - 1)
    BY <2>3
  <2> DEFINE last == f[m - 1] \cup Sources(f[m - 1])
             g == [k \in 0..m |-> IF k = m THEN last ELSE f[k]]
  <2>5. Up(g, m)
    <3>1. \A k \in 0..m : g[k] = IF k = m THEN last ELSE f[k]
      OBVIOUS
    <3>2. g = [k \in 0..m |-> g[k]]
      OBVIOUS
    <3> HIDE DEF g
    <3>3. \A k \in 0..(m - 1) :
            f[k] = IF k = 0 THEN ids
                   ELSE f[k - 1] \cup Sources(f[k - 1])
      BY <2>3, <2>4
    <3>4. ASSUME NEW k \in 0..m
          PROVE  g[k] = IF k = 0 THEN ids
                        ELSE g[k - 1] \cup Sources(g[k - 1])
      <4>1. CASE k = m
        <5>1. m - 1 \in 0..m /\ m - 1 # m
          BY <2>3
        <5>2. g[m - 1] = f[m - 1]
          BY <3>1, <5>1
        <5>3. g[m] = last
          BY <2>3, <3>1
        <5> QED
          BY <2>2, <4>1, <5>2, <5>3
      <4>2. CASE k # m
        <5>1. k \in 0..(m - 1)
          BY <2>3, <4>2
        <5>2. g[k] = f[k]
          BY <3>1, <4>2
        <5>3. k # 0 => g[k - 1] = f[k - 1]
          BY <2>3, <3>1, <4>2
        <5> QED
          BY <3>3, <5>1, <5>2, <5>3
      <4> QED
        BY <4>1, <4>2
    <3> QED
      BY <3>2, <3>4
  <2> QED
    BY <2>1, <2>5
<1>2. \E f : Up(f, n)
  <2>1. n \notin Without
    BY <1>1
  <2> QED
    BY <2>1
<1> DEFINE up == CHOOSE f : Up(f, n)
<1>3. Ancestors(ids) = up[n] \cap NodeIds
  BY DEF Ancestors, Sources
<1>6. Up(up, n)
  <2> HIDE DEF Up
  <2> QED
    BY <1>2
<1> HIDE DEF up
<1>4. up[0] = ids
  BY <1>6
<1>5. \A k \in 1..n : up[k] = up[k - 1] \cup Sources(up[k - 1])
  <2> TAKE k \in 1..n
  <2>1. k \in 0..n /\ k # 0
    OBVIOUS
  <2>2. \A l \in 0..n : up[l] = IF l = 0 THEN ids ELSE up[l - 1] \cup Sources(up[l - 1])
    BY <1>6
  <2> QED
    BY <2>1, <2>2
<1> QED
  BY <1>3, <1>4, <1>5

Endpoints == NodeIds \cup UNION {{e.source, e.target} : e \in artifacts.edges}

\* After as many rounds as there are edges nothing new is reached: an edge that
\* leads out of what is reached is one more edge into it than a round before.
LEMMA LineageIsClosed ==
  ASSUME IsFiniteSet(artifacts.edges), NEW ids, ids \subseteq NodeIds
  PROVE  \E S \in SUBSET Endpoints : /\ Closed(S) /\ ids \subseteq S
                                     /\ WithLineage(ids) = S \cap NodeIds
                                     /\ ids = {} => S = {}
<1> DEFINE E == artifacts.edges
           n == Cardinality(E)
<1>1. n \in Nat
  BY FS_CardinalityType
<1> HIDE DEF n
<1>2. PICK c : /\ c[0] = ids
               /\ \A k \in 1..n : c[k] = c[k - 1] \cup Sources(c[k - 1])
               /\ Ancestors(ids) = c[n] \cap NodeIds
  BY <1>1, AncestorsClimb DEF n
<1> DEFINE Into(k) == {e \in E : e.target \in c[k]}
           Fine(k) == /\ ids \subseteq c[k] /\ c[k] \subseteq Endpoints
                      /\ ids = {} => c[k] = {}
                      /\ Closed(c[k]) \/ k + 1 <= Cardinality(Into(k))
           Bad == {k \in Nat : k <= n /\ ~ Fine(k)}
<1>3. \A k : /\ Into(k) \in SUBSET E /\ IsFiniteSet(Into(k))
             /\ Cardinality(Into(k)) \in Nat /\ Cardinality(Into(k)) <= n
  <2> TAKE k
  <2>1. Into(k) \in SUBSET E
    OBVIOUS
  <2> HIDE DEF Into
  <2>2. IsFiniteSet(Into(k)) /\ Cardinality(Into(k)) <= n
    BY <2>1, FS_Subset DEF n
  <2> QED
    BY <2>1, <2>2, FS_CardinalityType
<1>4. \A S : Sources(S) \subseteq Endpoints
  BY DEF Sources, Endpoints
<1>5. \A S : Sources(S) = {e.source : e \in {e \in E : e.target \in S}}
  BY DEF Sources
<1>6. Fine(0)
  <2>1. c[0] = ids /\ c[0] \subseteq Endpoints
    BY <1>2 DEF Endpoints
  <2>2. ASSUME ~ Closed(c[0])
        PROVE  1 <= Cardinality(Into(0))
    <3>1. Into(0) # {}
      BY <2>2 DEF Closed
    <3> HIDE DEF Into
    <3>2. Cardinality(Into(0)) # 0
      BY <1>3, <3>1, FS_EmptySet
    <3> QED
      BY <1>3, <3>2
  <2> QED
    BY <2>1, <2>2
<1>7. ASSUME NEW k \in 1..n, Fine(k - 1)
      PROVE  Fine(k)
  <2> DEFINE j == k - 1
  <2>1. c[k] = c[j] \cup Sources(c[j])
    BY <1>2
  <2>2. /\ ids \subseteq c[j] /\ c[j] \subseteq Endpoints
        /\ ids = {} => c[j] = {}
        /\ Closed(c[j]) \/ k <= Cardinality(Into(j))
    <3>1. k - 1 + 1 = k
      BY <1>1
    <3> QED
      BY <1>7, <3>1
  <2> HIDE DEF j, Into
  <2>3. ids \subseteq c[k] /\ c[k] \subseteq Endpoints
    BY <1>4, <2>1, <2>2
  <2>4. ids = {} => c[k] = {}
    BY <2>1, <2>2 DEF Sources
  <2>5. ASSUME ~ Closed(c[k])
        PROVE  k + 1 <= Cardinality(Into(k))
    <3>1. ~ Closed(c[j])
      <4>1. ASSUME Closed(c[j])
            PROVE  c[k] = c[j]
        BY <2>1, <4>1 DEF Closed, Sources
      <4> QED
        BY <2>5, <4>1
    <3>2. PICK e \in E : e.target \in c[k] /\ e.source \notin c[k]
      BY <2>5 DEF Closed
    <3>3. e.target \notin c[j]
      BY <2>1, <3>2 DEF Sources
    <3>4. e \in Into(k) /\ e \notin Into(j)
      BY <3>2, <3>3 DEF Into
    <3>5. Into(j) \in SUBSET Into(k) /\ Into(j) # Into(k)
      BY <2>1, <3>4 DEF Into
    <3>6. Cardinality(Into(j)) < Cardinality(Into(k))
      <4>1. /\ Cardinality(Into(j)) <= Cardinality(Into(k))
            /\ Cardinality(Into(j)) = Cardinality(Into(k)) => Into(j) = Into(k)
        BY <1>3, <3>5, FS_Subset
      <4> QED
        BY <1>3, <3>5, <4>1
    <3> QED
      BY <1>3, <2>2, <3>1, <3>6
  <2> QED
    BY <2>3, <2>4, <2>5
<1> HIDE DEF Fine
<1>8. Bad = {}
  <2> SUFFICES ASSUME Bad # {} PROVE FALSE
    OBVIOUS
  <2>0. Bad \subseteq Nat
    OBVIOUS
  <2>1. PICK k \in Bad : \A j \in Bad : k <= j
    BY <2>0, LeastNumber
  <2>2. k \in Nat /\ k <= n /\ ~ Fine(k)
    OBVIOUS
  <2>3. k # 0
    BY <1>6, <2>2
  <2>4. k - 1 \in Nat /\ k - 1 <= n /\ ~ (k <= k - 1) /\ k \in 1..n
    BY <1>1, <2>2, <2>3
  <2>5. Fine(k - 1)
    BY <2>1, <2>4
  <2> QED
    BY <1>7, <2>2, <2>4, <2>5
<1>9. Fine(n)
  <2>1. n \in Nat /\ n <= n /\ n \notin Bad
    BY <1>1, <1>8
  <2> QED
    BY <2>1
<1>10. /\ ids \subseteq c[n] /\ c[n] \subseteq Endpoints
       /\ ids = {} => c[n] = {}
       /\ Closed(c[n]) \/ n + 1 <= Cardinality(Into(n))
  BY <1>9 DEF Fine
<1> HIDE DEF Into, Bad
<1>11. Closed(c[n])
  BY <1>1, <1>3, <1>10
<1>12. WithLineage(ids) = c[n] \cap NodeIds
  BY <1>2, <1>10 DEF WithLineage
<1> QED
  BY <1>10, <1>11, <1>12

\* An answer names what was found.
LEMMA AnswersAreFound == \A found : Answer(found).found = found
BY DEF Answer

-----------------------------------------------------------------------------
(* Complete answers.                                                       *)

\* What is found when only events and projections are looked for.
EventsAndProjections(e, p) == [NothingFound EXCEPT !.events = e, !.projections = p]

\* What has events and projections has no nodes and no facts.
LEMMA OnlyEventsAndProjections ==
  \A e, p : /\ EventsAndProjections(e, p).nodes = {}
            /\ EventsAndProjections(e, p).facts = {}
            /\ EventsAndProjections(e, p).events = e
            /\ EventsAndProjections(e, p).projections = p
            /\ DOMAIN EventsAndProjections(e, p)
                 = {"nodes", "events", "facts", "projections"}
BY DEF NothingFound, EventsAndProjections

\* The causes of an event and the traces of a report name no nodes and no facts.
LEMMA AnswersWithoutNodes ==
  /\ \A target :
       CauseOfEvent(target)
         = Answer(EventsAndProjections({target} \cup AuditEvents(target),
                                       AuditCorrelations(target)))
  /\ \A name :
       TraceOfReport(name)
         = Answer(EventsAndProjections(
                    AuditEvents(Correlation("report::", name)),
                    {Correlation("report::", name)}
                      \cup AuditCorrelations(Correlation("report::", name))))
  /\ \A name :
       RouterReport(name)
         = Answer(EventsAndProjections(
                    AuditEvents(Correlation("report::", name))
                      \cup {AuditId(e) : e \in ReportNamed(name)},
                    {Correlation("report::", name)}
                      \cup AuditCorrelations(Correlation("report::", name))))
<1>1. \A target :
       CauseOfEvent(target)
         = Answer(EventsAndProjections({target} \cup AuditEvents(target),
                                       AuditCorrelations(target)))
  BY DEF CauseOfEvent, EventsAndProjections
<1>2. \A name :
       TraceOfReport(name)
         = Answer(EventsAndProjections(
                    AuditEvents(Correlation("report::", name)),
                    {Correlation("report::", name)}
                      \cup AuditCorrelations(Correlation("report::", name))))
  BY DEF TraceOfReport, EventsAndProjections
<1>3. \A name :
       RouterReport(name)
         = Answer(EventsAndProjections(
                    AuditEvents(Correlation("report::", name))
                      \cup {AuditId(e) : e \in ReportNamed(name)},
                    {Correlation("report::", name)}
                      \cup AuditCorrelations(Correlation("report::", name))))
  BY DEF RouterReport, EventsAndProjections
<1> QED
  BY <1>1, <1>2, <1>3

\* The nodes of an answer are a lineage, or none.
LEMMA NodesOfAnswers ==
  ASSUME NEW q, q.query \in Queries
  PROVE  \E ids \in SUBSET NodeIds : \/ Explain(q).found.nodes = {}
                                     \/ Explain(q).found.nodes = WithLineage(ids)
<1>0. \A targets, types : NodesMatching(targets, types) \in SUBSET NodeIds
  BY DEF NodesMatching, NodeIds
<1>1. CASE q.query = "cause_of_projection"
  <2>1. Explain(q).found.nodes = WithLineage(NodesMatching({q.target}, Projecting))
    BY <1>1, AnswersAreFound DEF Explain, CauseOfProjection
  <2> QED
    BY <1>0, <2>1
<1>2. CASE q.query = "origin_projection"
  <2>1. \A target, projections : OriginNodes(target, projections) \in SUBSET NodeIds
    BY <1>0 DEF OriginNodes
  <2>2. Explain(q).found.nodes
          = WithLineage(OriginNodes(q.target, AuditCorrelations(q.target)
                                              \cup ProjectionsOf(q.target)))
    BY <1>2, AnswersAreFound DEF Explain, OriginProjection
  <2> QED
    BY <2>1, <2>2
<1>3. CASE q.query = "lineage_of_fact"
  <2>1. Explain(q).found.nodes
          = WithLineage(NodesMatching({q.target} \cup FactIds(q.target), AnyType))
    BY <1>3, AnswersAreFound DEF Explain, LineageOfFact
  <2> QED
    BY <1>0, <2>1
<1>4. CASE q.query = "trace_of_event"
  <2>1. \A target, seqs : NodesOfEvent(target, seqs) \in SUBSET NodeIds
    BY DEF NodesOfEvent, NodeIds
  <2>2. Explain(q).found.nodes
          = WithLineage(NodesOfEvent(q.target, SeqsOf(AuditEvents(q.target)
                                                      \cup EventIds(q.target))))
    BY <1>4, AnswersAreFound DEF Explain, TraceOfEvent
  <2> QED
    BY <2>1, <2>2
<1>5. CASE q.query \in {"cause_of_event", "trace_of_report", "trace_of_router_report"}
  <2>2. \A target : CauseOfEvent(target).found.nodes = {}
    <3> TAKE target
    <3>1. PICK e, p : CauseOfEvent(target) = Answer(EventsAndProjections(e, p))
      BY AnswersWithoutNodes
    <3>2. CauseOfEvent(target).found = EventsAndProjections(e, p)
      BY <3>1, AnswersAreFound
    <3> QED
      BY <3>2, OnlyEventsAndProjections
  <2>3. \A name : TraceOfReport(name).found.nodes = {}
    <3> TAKE name
    <3>1. PICK e, p : TraceOfReport(name) = Answer(EventsAndProjections(e, p))
      BY AnswersWithoutNodes
    <3>2. TraceOfReport(name).found = EventsAndProjections(e, p)
      BY <3>1, AnswersAreFound
    <3> QED
      BY <3>2, OnlyEventsAndProjections
  <2>4. \A name : RouterReport(name).found.nodes = {}
    <3> TAKE name
    <3>1. PICK e, p : RouterReport(name) = Answer(EventsAndProjections(e, p))
      BY AnswersWithoutNodes
    <3>2. RouterReport(name).found = EventsAndProjections(e, p)
      BY <3>1, AnswersAreFound
    <3> QED
      BY <3>2, OnlyEventsAndProjections
  <2>1. Explain(q).found.nodes = {}
    BY <1>5, <2>2, <2>3, <2>4 DEF Explain
  <2> QED
    BY <2>1
<1>6. CASE q.query \in {"trace_of_router_decision", "evidence_for_router_decision",
                        "cause_of_router_selection", "cause_of_router_rejection"}
  <2>1. \A routing : FoundOf(routing).nodes = {}
    BY DEF FoundOf, NothingFound
  <2>2. \A routing : RouterDecision(routing).found = FoundOf(routing)
    BY AnswersAreFound DEF RouterDecision
  <2>3. \A side, routing, expert :
           CauseOfRouter(side, routing, expert).found = FoundOf(routing)
    BY DEF CauseOfRouter, Answer
  <2>4. Explain(q).found.nodes = {}
    BY <1>6, <2>1, <2>2, <2>3 DEF Explain
  <2> QED
    BY <2>4
<1> QED
  BY <1>1, <1>2, <1>3, <1>4, <1>5, <1>6 DEF Queries

\* What an explanation does not name leads to nothing it names.
LEMMA NoCauseIsLeftOut ==
  ASSUME NEW nodes, IsFiniteSet(artifacts.edges),
         \E ids \in SUBSET NodeIds : nodes = {} \/ nodes = WithLineage(ids)
  PROVE  \A m \in NodeIds \ nodes :
           \E S \in SUBSET Endpoints : Closed(S) /\ nodes \subseteq S /\ m \notin S
<1> TAKE m \in NodeIds \ nodes
<1>1. CASE nodes = {}
  <2>1. {} \in SUBSET Endpoints /\ Closed({}) /\ nodes \subseteq {} /\ m \notin {}
    BY <1>1 DEF Closed
  <2> QED
    BY <2>1
<1>2. ASSUME NEW ids \in SUBSET NodeIds, nodes = WithLineage(ids)
      PROVE  \E S \in SUBSET Endpoints : Closed(S) /\ nodes \subseteq S /\ m \notin S
  <2>1. PICK S \in SUBSET Endpoints : /\ Closed(S) /\ ids \subseteq S
                                      /\ WithLineage(ids) = S \cap NodeIds
    BY LineageIsClosed
  <2> QED
    BY <1>2, <2>1
<1> QED
  BY <1>1, <1>2

Kinds == {"nodes", "events", "facts", "projections"}

\* Some of the four kinds of evidence are finitely many: fewer than two when they
\* are all one, and at least two with events and projections among them.
LEMMA KindsAreFew ==
  ASSUME NEW K, K \subseteq Kinds
  PROVE  /\ IsFiniteSet(K) /\ Cardinality(K) \in Nat
         /\ \A k : K \subseteq {k} => ~ (2 <= Cardinality(K))
         /\ "events" \in K /\ "projections" \in K => 2 <= Cardinality(K)
<1>1. IsFiniteSet(Kinds)
  <2>1. IsFiniteSet({}) /\ IsFiniteSet({"nodes"}) /\ IsFiniteSet({"nodes", "events"})
        /\ IsFiniteSet({"nodes", "events", "facts"})
    <3>1. /\ {"nodes"} = {} \cup {"nodes"} /\ {"nodes", "events"} = {"nodes"} \cup {"events"}
          /\ {"nodes", "events", "facts"} = {"nodes", "events"} \cup {"facts"}
      OBVIOUS
    <3>2. IsFiniteSet({})
      BY FS_EmptySet
    <3>3. IsFiniteSet({"nodes"})
      BY <3>1, <3>2, FS_AddElement
    <3>4. IsFiniteSet({"nodes", "events"})
      BY <3>1, <3>3, FS_AddElement
    <3> QED
      BY <3>1, <3>2, <3>3, <3>4, FS_AddElement
  <2>2. Kinds = {"nodes", "events", "facts"} \cup {"projections"}
    BY DEF Kinds
  <2> QED
    BY <2>1, <2>2, FS_AddElement
<1>2. IsFiniteSet(K) /\ Cardinality(K) \in Nat
  <2>1. K \in SUBSET Kinds
    OBVIOUS
  <2> QED
    BY <1>1, <2>1, FS_Subset, FS_CardinalityType
<1>3. ASSUME NEW k, K \subseteq {k}
      PROVE  ~ (2 <= Cardinality(K))
  <2>1. K = {} \/ K = {k}
    BY <1>3
  <2>2. Cardinality({}) = 0 /\ Cardinality({k}) = 1
    BY FS_EmptySet, FS_Singleton
  <2> QED
    BY <2>1, <2>2
<1>4. ASSUME "events" \in K, "projections" \in K
      PROVE  2 <= Cardinality(K)
  <2>1. K # {} /\ \A k : ~ (K = {k})
    BY <1>4
  <2>2. Cardinality(K) # 0
    BY <1>2, <2>1, FS_EmptySet
  <2>3. Cardinality(K) # 1
    BY <1>2, <2>1, FS_Singleton
  <2> QED
    BY <1>2, <2>2, <2>3
<1> QED
  BY <1>2, <1>3, <1>4

\* Without nodes and facts, an answer is complete only with events and
\* projections (StaticExplainer._status).
LEMMA CompleteNeedsTwo ==
  ASSUME NEW found, DOMAIN found = Kinds, found.nodes = {}, found.facts = {},
         StatusOf(found) = "complete"
  PROVE  found.events # {} /\ found.projections # {}
<1> DEFINE K == {k \in DOMAIN found : found[k] # {}}
<1>1. K \subseteq Kinds
  OBVIOUS
<1>2. K \subseteq {"events", "projections"}
  BY DEF Kinds
<1>3. found.events = {} => K \subseteq {"projections"}
  BY <1>2
<1>4. found.projections = {} => K \subseteq {"events"}
  BY <1>2
<1>5. 2 <= Cardinality(K)
  <2>1. StatusOf(found) = CASE Cardinality(K) >= 2 -> "complete"
                            [] Cardinality(K) = 1 -> "partial"
                            [] OTHER -> IF artifacts.present \/ trail.state = "built"
                                        THEN "unsupported" ELSE "missing"
    BY DEF StatusOf
  <2> HIDE DEF K
  <2>2. Cardinality(K) \in Nat
    BY <1>1, KindsAreFew
  <2>3. ~ (Cardinality(K) >= 2) => StatusOf(found) # "complete"
    BY <2>1, <2>2
  <2> QED
    BY <2>2, <2>3
<1> HIDE DEF K
<1> QED
  BY <1>1, <1>3, <1>4, <1>5, KindsAreFew

\* And with events and projections an answer is complete.
LEMMA TwoAreComplete ==
  ASSUME NEW found, DOMAIN found = Kinds, found.events # {}, found.projections # {}
  PROVE  StatusOf(found) = "complete"
<1> DEFINE K == {k \in DOMAIN found : found[k] # {}}
<1>1. K \subseteq Kinds /\ "events" \in K /\ "projections" \in K
  BY DEF Kinds
<1>2. StatusOf(found) = CASE Cardinality(K) >= 2 -> "complete"
                          [] Cardinality(K) = 1 -> "partial"
                          [] OTHER -> IF artifacts.present \/ trail.state = "built"
                                      THEN "unsupported" ELSE "missing"
  BY DEF StatusOf
<1> HIDE DEF K
<1>3. Cardinality(K) \in Nat /\ 2 <= Cardinality(K)
  BY <1>1, KindsAreFew
<1> QED
  BY <1>2, <1>3

\* Nothing is found of what nothing mentions.
LEMMA UnmentionedIsNotFound ==
  ASSUME IsFiniteSet(artifacts.edges), NEW target, ~ Mentioned(target)
  PROVE  /\ AuditEvents(target) = {} /\ AuditCorrelations(target) = {}
         /\ NodesMatching({target}, Projecting) = {}
         /\ NodesMatching({target}, AnyType) = {}
         /\ NodesOfEvent(target, {}) = {}
         /\ WithLineage({}) = {}
         /\ FactsNamed(target) = {} /\ FactIds(target) = {}
         /\ FactsOfProjections(target, {}) = {} /\ FactsOfEvent(target, {}) = {}
         /\ ProjectionsOf(target) = {}
         /\ Commits(target, {}) = {} /\ EventIds(target) = {} /\ Neighborhood(target) = {}
         /\ SeqsOf({}) = {} /\ ProjectionsOfEvent(target, {}) = {}
<1>1. /\ AuditMatches(target) = {}
      /\ \A n \in artifacts.nodes : target \notin NodeNames(n)
      /\ \A e \in Log : target \notin {e.id, e.seq, e.type, e.task, Identifier(e)}
                                      \cup Payload(e)
      /\ \A f \in artifacts.facts :
           target \notin {f.id, f.hash, f.transaction} \cup Metadata(f)
  BY DEF Mentioned
<1>2. AuditEvents(target) = {} /\ AuditCorrelations(target) = {}
  BY <1>1 DEF AuditEvents, AuditCorrelations
<1>3. NodesMatching({target}, Projecting) = {} /\ NodesMatching({target}, AnyType) = {}
  BY <1>1 DEF NodesMatching
<1>4. NodesOfEvent(target, {}) = {}
  BY <1>1 DEF NodesOfEvent, NodeNames
<1>5. WithLineage({}) = {}
  <2>1. {} \subseteq NodeIds
    OBVIOUS
  <2>2. PICK S \in SUBSET Endpoints : WithLineage({}) = S \cap NodeIds /\ S = {}
    BY <2>1, LineageIsClosed
  <2> QED
    BY <2>2
<1>6. FactsNamed(target) = {}
  BY <1>1 DEF FactsNamed
<1>7. FactIds(target) = {}
  BY <1>1, <1>6 DEF FactIds
<1>8. FactsOfProjections(target, {}) = {}
  BY <1>1 DEF FactsOfProjections
<1>9. FactsOfEvent(target, {}) = {}
  BY <1>6 DEF FactsOfEvent
<1>10. Commits(target, {}) = {}
  BY <1>1 DEF Commits
<1>11. ProjectionsOf(target) = {}
  BY <1>3, <1>6, <1>10 DEF ProjectionsOf
<1>12. EventIds(target) = {}
  BY <1>1 DEF EventIds
<1>13. Neighborhood(target) = {}
  <2>1. \A k \in DOMAIN artifacts.log : artifacts.log[k] \in Log
    BY DEF Log, ToSet
  <2>2. \A k \in DOMAIN artifacts.log :
          target \notin {artifacts.log[k].id, artifacts.log[k].seq, artifacts.log[k].type,
                         artifacts.log[k].task, Identifier(artifacts.log[k])}
                        \cup Payload(artifacts.log[k])
    BY <1>1, <2>1
  <2> QED
    BY <2>2 DEF Neighborhood
<1>14. SeqsOf({}) = {}
  BY DEF SeqsOf
<1>15. ProjectionsOfEvent(target, {}) = {}
  BY <1>1, <1>14 DEF ProjectionsOfEvent
<1> QED
  BY <1>2, <1>3, <1>4, <1>5, <1>6, <1>7, <1>8, <1>9, <1>10, <1>11, <1>12, <1>13,
     <1>14, <1>15

\* What is found, kind by kind.
Found(n, e, f, p) == [nodes |-> n, events |-> e, facts |-> f, projections |-> p]

\* What was found, taken apart again.
LEMMA FoundIs ==
  ASSUME NEW n, NEW e, NEW f, NEW p
  PROVE  /\ DOMAIN Found(n, e, f, p) = Kinds
         /\ Found(n, e, f, p).nodes = n /\ Found(n, e, f, p).events = e
         /\ Found(n, e, f, p).facts = f /\ Found(n, e, f, p).projections = p
BY DEF Found, Kinds

\* An answer that names nothing is not complete.
LEMMA NothingIsIncomplete ==
  Answer(Found({}, {}, {}, {})).status # "complete"
<1>1. /\ DOMAIN Found({}, {}, {}, {}) = Kinds
      /\ Found({}, {}, {}, {}).nodes = {} /\ Found({}, {}, {}, {}).events = {}
      /\ Found({}, {}, {}, {}).facts = {}
  BY FoundIs
<1>2. StatusOf(Found({}, {}, {}, {})) # "complete"
  BY <1>1, CompleteNeedsTwo
<1> QED
  BY <1>2 DEF Answer

\* Whatever is asked of what nothing mentions, the answer is not complete.
LEMMA UnmentionedIsIncomplete ==
  ASSUME IsFiniteSet(artifacts.edges), NEW q, ~ Mentioned(q.target),
         q.query \in {"cause_of_projection", "origin_projection", "lineage_of_fact",
                      "trace_of_event", "cause_of_event"}
  PROVE  Explain(q).status # "complete"
<1> DEFINE target == q.target
<1>1. /\ AuditEvents(target) = {} /\ AuditCorrelations(target) = {}
      /\ NodesMatching({target}, Projecting) = {}
      /\ NodesMatching({target}, AnyType) = {}
      /\ NodesOfEvent(target, {}) = {}
      /\ WithLineage({}) = {}
      /\ FactsNamed(target) = {} /\ FactIds(target) = {}
      /\ FactsOfProjections(target, {}) = {} /\ FactsOfEvent(target, {}) = {}
      /\ ProjectionsOf(target) = {}
      /\ Commits(target, {}) = {} /\ EventIds(target) = {} /\ Neighborhood(target) = {}
      /\ SeqsOf({}) = {} /\ ProjectionsOfEvent(target, {}) = {}
  BY UnmentionedIsNotFound
<1> HIDE DEF target
<1>2. CauseOfProjection(target) = Answer(Found({}, {}, {}, {}))
  <2>1. AuditCorrelations(target) \cup ProjectionsOf(target) = {}
    BY <1>1
  <2>2. AuditEvents(target) \cup {Identifier(e) : e \in Commits(target, {})} = {}
    BY <1>1
  <2> QED
    BY <1>1, <2>1, <2>2 DEF CauseOfProjection, Found
<1>3. OriginProjection(target) = Answer(Found({}, {}, {}, {}))
  <2>1. AuditCorrelations(target) \cup ProjectionsOf(target) = {}
    BY <1>1
  <2>2. AuditEvents(target) \cup {Identifier(e) : e \in Commits(target, {})} = {}
    BY <1>1
  <2>3. OriginNodes(target, {}) = {}
    BY <1>1 DEF OriginNodes, NodesMatching
  <2> QED
    BY <1>1, <2>1, <2>2, <2>3 DEF OriginProjection, Found
<1>4. LineageOfFact(target) = Answer(Found({}, {}, {}, {}))
  <2>1. {target} \cup FactIds(target) = {target}
    BY <1>1
  <2>2. /\ UNION {f.parents : f \in FactsNamed(target)} = {}
        /\ UNION {f.events : f \in FactsNamed(target)} = {}
        /\ UNION {f.projections : f \in FactsNamed(target)} = {}
    BY <1>1
  <2> QED
    BY <1>1, <2>1, <2>2 DEF LineageOfFact, Found
<1>5. TraceOfEvent(target) = Answer(Found({}, {}, {}, {}))
  <2>1. AuditEvents(target) \cup EventIds(target) = {}
    BY <1>1
  <2> QED
    BY <1>1, <2>1 DEF TraceOfEvent, Found
<1>6. CauseOfEvent(target).status # "complete"
  <2> DEFINE found == EventsAndProjections({target} \cup AuditEvents(target), {})
  <2>1. CauseOfEvent(target) = Answer(found)
    BY <1>1, AnswersWithoutNodes
  <2>2. /\ DOMAIN found = Kinds /\ found.nodes = {} /\ found.facts = {}
        /\ found.projections = {}
    BY OnlyEventsAndProjections DEF Kinds
  <2> HIDE DEF found
  <2>3. StatusOf(found) # "complete"
    BY <2>2, CompleteNeedsTwo
  <2> QED
    BY <2>1, <2>3 DEF Answer
<1>7. \/ Explain(q) = CauseOfProjection(target) \/ Explain(q) = OriginProjection(target)
      \/ Explain(q) = LineageOfFact(target) \/ Explain(q) = TraceOfEvent(target)
      \/ Explain(q) = CauseOfEvent(target)
  BY DEF Explain, target
<1> QED
  BY <1>2, <1>3, <1>4, <1>5, <1>6, <1>7, NothingIsIncomplete

\* The events of the index are those of reports.
LEMMA IndexedEventsCome ==
  ASSUME TrailInv, trail.state \in {"none", "built"}
  PROVE  /\ IsList(trail.events)
         /\ \A i \in DOMAIN trail.events :
               \E r \in ToSet(collected) : r \in Reports /\ Comes(trail.events[i], r)
         /\ \A r \in ToSet(collected) : trail.state = "built" =>
               /\ r \in Reports
               /\ \A p \in 1..Len(EventsOf(r)) :
                     \E i \in DOMAIN trail.events : trail.events[i] = EventsOf(r)[p]
<1>1. CASE trail.state = "none"
  <2>1. trail.events = <<>>
    BY <1>1 DEF TrailInv
  <2> QED
    BY <1>1, <2>1 DEF IsList
<1>2. CASE trail.state = "built"
  <2>1. Derived(collected, events) /\ Tells(collected, trail.events)
    BY <1>2, IndexIsBuilt
  <2>2. /\ IsList(trail.events) /\ IsList(collected)
        /\ \A k \in 1..Len(collected) : collected[k] \in Reports
        /\ \A i \in 1..Len(trail.events) :
              \E k \in 1..Len(collected) : Comes(trail.events[i], collected[k])
        /\ \A k \in 1..Len(collected) : \A p \in 1..Len(EventsOf(collected[k])) :
              \E i \in 1..Len(trail.events) : trail.events[i] = EventsOf(collected[k])[p]
    BY <2>1 DEF Derived, Tells
  <2>3. /\ DOMAIN trail.events = 1..Len(trail.events)
        /\ DOMAIN collected = 1..Len(collected)
    BY <2>2 DEF IsList
  <2>4. /\ \A k \in 1..Len(collected) : collected[k] \in ToSet(collected)
        /\ \A r \in ToSet(collected) : \E k \in 1..Len(collected) : r = collected[k]
    BY <2>3 DEF ToSet
  <2>5. \A i \in DOMAIN trail.events :
           \E r \in ToSet(collected) : r \in Reports /\ Comes(trail.events[i], r)
    <3> TAKE i \in DOMAIN trail.events
    <3>1. PICK k \in 1..Len(collected) : Comes(trail.events[i], collected[k])
      BY <2>2, <2>3
    <3> QED
      BY <2>2, <2>4, <3>1
  <2>6. ASSUME NEW r \in ToSet(collected)
        PROVE  /\ r \in Reports
               /\ \A p \in 1..Len(EventsOf(r)) :
                     \E i \in DOMAIN trail.events : trail.events[i] = EventsOf(r)[p]
    <3>1. PICK k \in 1..Len(collected) : r = collected[k]
      BY <2>4
    <3> QED
      BY <2>2, <2>3, <3>1
  <2> QED
    BY <2>2, <2>5, <2>6
<1> QED
  BY <1>1, <1>2

\* From the type of an event one knows the type of the report it comes from.
LEMMA TypesTell ==
  ASSUME NEW r \in Reports, NEW e, Comes(e, r)
  PROVE  /\ e.type = "RouterBatchReportGenerated" =>
              /\ r.type = "expert_router_report"
              /\ e.correlation = <<"report::", r.fp>>
         /\ e.type = "RouterEligibilityEvaluated" =>
              /\ r.type = "expert_router_evaluation"
              /\ e.correlation = <<"router::", RoutingOf(r)>>
         /\ e.payload.fp = r.fp
<1>1. e.payload.fp = r.fp
  BY KeysIdentify
<1>2. PICK p \in 1..Len(EventsOf(r)) : e = EventsOf(r)[p]
  BY DEF Comes
<1>3. ASSUME NEW namespace \in {"pair::", "proposal::"},
             NEW look \in {"CompatibilityChecked", "ProposalEvaluated"},
             NEW whole \in {"CompatibilityMatrixReported", "ExpertProposalBatchReported"},
             Items(r), EventsOf(r) = ItemEvents(r, namespace, look, whole)
      PROVE  e.type \notin {"RouterBatchReportGenerated", "RouterEligibilityEvaluated"}
  <2> DEFINE n == 2 * (Len(r.items) - Unnamed(r))
             all == EventsOf(r)
  <2>1. ItemStory(r, namespace, look, whole, all, n)
    BY <1>3, ItemEventsAre
  <2> HIDE DEF n, all
  <2>2. /\ n \in Nat /\ Len(all) = n + 1 /\ all[n + 1].type = whole
        /\ \A q \in 1..n : \E k : all[q].type = look
                                  \/ all[q].type = Decision(namespace, SortedItems(r)[k])
    BY <2>1 DEF ItemStory, Event
  <2>3. p \in 1..n \/ p = n + 1
    BY <1>2, <2>2 DEF all
  <2>4. e.type \in Decisions \/ e.type = look \/ e.type = whole
    BY <1>2, <2>2, <2>3, DecisionsAreListed DEF all
  <2> QED
    BY <2>4 DEF Decisions
<1>4. CASE r.type = "compatibility_matrix"
  <2>1. EventsOf(r) = ItemEvents(r, "pair::", "CompatibilityChecked",
                                 "CompatibilityMatrixReported")
    BY <1>4 DEF EventsOf, CompatibilityEvents
  <2>2. Items(r)
    BY <1>4, ReportsAre DEF ReportTypes
  <2> QED
    BY <1>1, <1>3, <2>1, <2>2
<1>5. CASE r.type = "expert_report"
  <2>1. EventsOf(r) = ItemEvents(r, "proposal::", "ProposalEvaluated",
                                 "ExpertProposalBatchReported")
    BY <1>5 DEF EventsOf, ExpertReportEvents
  <2>2. Items(r)
    BY <1>5, ReportsAre DEF ReportTypes
  <2> QED
    BY <1>1, <1>3, <2>1, <2>2
<1>6. CASE r.type = "gaia_surrogate"
  <2>1. EventsOf(r) = SurrogateEvents(r)
    BY <1>6 DEF EventsOf
  <2>2. r.mismatches \in Seq(Nat \cup {NoRow}) /\ r.fp \in Nat /\ r.routing \in Nat
    BY <1>6, ReportsAre
  <2>3. SurrogateStory(r, EventsOf(r), Len(r.mismatches))
    BY <2>1, <2>2, SurrogateEventsAre
  <2>4. e.type \in {"GaiaSurrogateProposalEvaluated", "GaiaSurrogateEvaluationCompleted",
                    "GaiaSurrogatePredictionMismatch"}
    BY <1>2, <2>3 DEF SurrogateStory
  <2> QED
    BY <1>1, <2>4
<1>7. CASE r.type \in RouterTypes
  <2>1. PICK f : /\ EventsOf(r) = <<f>>
                 /\ f.correlation = IF r.type = "expert_router_report"
                                    THEN <<"report::", r.fp>>
                                    ELSE <<"router::", RoutingOf(r)>>
                 /\ f.type \in RouterEventTypes(r)
    BY <1>7, RouterEventsAre
  <2>2. e = f
    <3>1. Len(<<f>>) = 1 /\ <<f>>[1] = f /\ \A q \in 1..1 : q = 1
      OBVIOUS
    <3> QED
      BY <1>2, <2>1, <3>1
  <2> QED
    BY <1>1, <1>7, <2>1, <2>2 DEF RouterEventTypes, RouterTypes
<1> QED
  BY <1>4, <1>5, <1>6, <1>7, ReportsAre DEF RouterTypes

-----------------------------------------------------------------------------
(* Questions and their answers.                                            *)

\* Questions one may ask: of a side, with an expert.
WellFormed(questions) ==
  \A q \in questions :
    /\ q.query \in Queries
    /\ q.query \in {"cause_of_router_selection", "cause_of_router_rejection"} =>
         "expert" \in DOMAIN q

\* What was asked was answered from what there is, and is not answered anew.
ExplanationInv(questions) ==
  /\ TrailInv
  /\ artifacts \in Artifacts \cup {NothingLeft}
  /\ question # Nothing =>
       /\ question \in questions
       /\ "expert" \in DOMAIN question => question.expert # 0
       /\ answer = Explain(question)
       /\ trail.state \in {"none", "built"}

\* Asking keeps what was known: the explainer reads and never writes.
LEMMA ExplanationStep ==
  ASSUME NEW questions, ExplanationInv(questions),
         [\/ TrailNext /\ UNCHANGED explanationVars
          \/ /\ trail.state \in {"none", "built"}
             /\ ExplanationNext(questions) /\ UNCHANGED trailVars
         ]_<<trailVars, explanationVars>>
  PROVE  ExplanationInv(questions)'
<1>0. /\ TrailInv /\ artifacts \in Artifacts \cup {NothingLeft}
      /\ question # Nothing =>
           /\ question \in questions
           /\ "expert" \in DOMAIN question => question.expert # 0
           /\ answer = Explain(question)
           /\ trail.state \in {"none", "built"}
  BY DEF ExplanationInv
<1>1. CASE TrailNext /\ UNCHANGED explanationVars
  <2>1. TrailInv'
    BY <1>0, <1>1, TrailSteps
  <2>2. artifacts' = artifacts /\ question' = question
    BY <1>1 DEF explanationVars
  <2>3. trail.state = "collecting"
    BY <1>1 DEF TrailNext, BuildIndex, Collect
  <2>4. question = Nothing
    BY <1>0, <2>3
  <2>5. question' = Nothing
    BY <2>2, <2>4
  <2>6. artifacts' \in Artifacts \cup {NothingLeft}
    BY <1>0, <2>2
  <2> QED
    BY <2>1, <2>5, <2>6 DEF ExplanationInv, Nothing, NothingLeft
<1>2. CASE /\ trail.state \in {"none", "built"}
           /\ ExplanationNext(questions) /\ UNCHANGED trailVars
  <2>1. TrailInv'
    BY <1>0, <1>2, TrailStays
  <2>2. trail' = trail
    BY <1>2 DEF trailVars
  <2>3. PICK q \in questions : Ask(q)
    BY <1>2 DEF ExplanationNext
  <2>4. /\ question' = q /\ answer' = Explain(q) /\ artifacts' = artifacts
        /\ "expert" \in DOMAIN q => q.expert # 0
    BY <2>3 DEF Ask
  <2>5. \A p : Explain(p)' = Explain(p)
    BY <2>2, <2>4, ExplainUnchanged
  <2>6. answer' = Explain(question)'
    BY <2>4, <2>5
  <2>7. artifacts' \in Artifacts \cup {NothingLeft}
    BY <1>0, <2>4
  <2> QED
    BY <1>2, <2>1, <2>2, <2>4, <2>6, <2>7 DEF ExplanationInv, NothingLeft
<1>3. CASE UNCHANGED <<trailVars, explanationVars>>
  <2>1. TrailInv'
    BY <1>0, <1>3, TrailStays
  <2>2. /\ trail' = trail /\ artifacts' = artifacts
        /\ question' = question /\ answer' = answer
    BY <1>3 DEF trailVars, explanationVars
  <2>3. \A p : Explain(p)' = Explain(p)
    BY <2>2, ExplainUnchanged
  <2>4. artifacts' \in Artifacts \cup {NothingLeft}
    BY <1>0, <2>2
  <2>5. question # Nothing => answer' = Explain(question)'
    BY <1>0, <2>2, <2>3
  <2> QED
    BY <1>0, <2>1, <2>2, <2>4, <2>5 DEF ExplanationInv, NothingLeft, Nothing
<1> QED
  BY <1>1, <1>2, <1>3

\* Whatever is asked is answered from a finished index, or without one.
THEOREM ExplanationInvariant ==
  ASSUME NEW questions
  PROVE  ExplanationSpec(questions) => []ExplanationInv(questions)
<1> DEFINE Init == /\ \E started \in {"none", "collecting"} : TrailInit(started)
                   /\ ExplanationInit(Artifacts \cup {NothingLeft})
           Next == \/ TrailNext /\ UNCHANGED explanationVars
                   \/ /\ trail.state \in {"none", "built"}
                      /\ ExplanationNext(questions) /\ UNCHANGED trailVars
<1>1. Init => ExplanationInv(questions)
  BY TrailStarts DEF ExplanationInit, ExplanationInv
<1>2. ExplanationInv(questions) /\ [Next]_<<trailVars, explanationVars>>
        => ExplanationInv(questions)'
  BY ExplanationStep
<1>3. ExplanationSpec(questions) <=> Init /\ [][Next]_<<trailVars, explanationVars>>
  BY DEF ExplanationSpec
<1> HIDE DEF Init, Next
<1> QED
  BY <1>1, <1>2, <1>3, PTL

\* A report of which there are events is mentioned in the trail.
LEMMA ReportsAreFound ==
  ASSUME TrailInv, trail.state \in {"none", "built"}, NEW name,
         AuditEvents(Correlation("report::", name))
           \cup {AuditId(e) : e \in ReportNamed(name)} # {}
  PROVE  Mentioned(Correlation("report::", name))
<1> DEFINE correlation == Correlation("report::", name)
<1>1. AuditMatches(correlation) # {}
  <2>1. CASE AuditEvents(correlation) # {}
    BY <2>1 DEF AuditEvents
  <2>2. CASE ReportNamed(name) # {}
    <3>1. PICK i \in DOMAIN trail.events :
             /\ trail.events[i].type = "RouterBatchReportGenerated"
             /\ trail.events[i].payload.fp = name
      BY <2>2 DEF ReportNamed, FirstOf, LookupType
    <3>2. PICK r \in Reports : Comes(trail.events[i], r)
      BY IndexedEventsCome
    <3>3. trail.events[i].correlation = correlation
      BY <3>1, <3>2, TypesTell DEF Correlation
    <3>4. trail.events[i] \in ToSet(trail.events)
      BY DEF ToSet
    <3> QED
      BY <3>3, <3>4 DEF AuditMatches
  <2> QED
    BY <2>1, <2>2
<1> QED
  BY <1>1 DEF Mentioned

\* With the invariant an explanation leaves out no cause, and is complete only
\* when something mentions what was asked about.
LEMMA ExplanationsHoldUpNow ==
  ASSUME NEW questions, WellFormed(questions), ExplanationInv(questions)
  PROVE  ExplanationsHoldUp
<1> SUFFICES ASSUME question # Nothing
             PROVE  ExplanationsHoldUp
  BY DEF ExplanationsHoldUp
<1>1. /\ question.query \in Queries /\ answer = Explain(question)
      /\ trail.state \in {"none", "built"} /\ TrailInv
  BY DEF ExplanationInv, WellFormed
<1>2. IsFiniteSet(artifacts.edges)
  <2>1. CASE artifacts \in Artifacts
    BY <2>1, ArtifactAssumption
  <2>2. CASE artifacts = NothingLeft
    BY <2>2, FS_EmptySet DEF NothingLeft
  <2> QED
    BY <2>1, <2>2 DEF ExplanationInv
<1> DEFINE nodes == answer.found.nodes
<1>3. \A m \in NodeIds \ nodes :
        \E S \in SUBSET Endpoints : Closed(S) /\ nodes \subseteq S /\ m \notin S
  <2>1. \E ids \in SUBSET NodeIds : nodes = {} \/ nodes = WithLineage(ids)
    BY <1>1, NodesOfAnswers
  <2> HIDE DEF nodes
  <2> QED
    BY <1>2, <2>1, NoCauseIsLeftOut
<1>4. ASSUME answer.status = "complete",
             question.query \in {"cause_of_projection", "origin_projection",
                                 "lineage_of_fact", "trace_of_event", "cause_of_event"}
      PROVE  Mentioned(question.target)
  BY <1>1, <1>2, <1>4, UnmentionedIsIncomplete
<1>5. ASSUME answer.status = "complete",
             question.query \in {"trace_of_report", "trace_of_router_report"}
      PROVE  Mentioned(Correlation("report::", question.target[2]))
  <2> DEFINE name == question.target[2]
             about == Correlation("report::", name)
             named == {AuditId(e) : e \in ReportNamed(name)}
             p == {about} \cup AuditCorrelations(about)
  <2>1. \/ answer = Answer(EventsAndProjections(AuditEvents(about), p))
        \/ answer = Answer(EventsAndProjections(AuditEvents(about) \cup named, p))
    <3>1. answer = TraceOfReport(name) \/ answer = RouterReport(name)
      BY <1>1, <1>5 DEF Explain
    <3> QED
      BY <3>1, AnswersWithoutNodes
  <2> HIDE DEF named, p, about, name
  <2>2. \A e : Answer(EventsAndProjections(e, p)).status = "complete" => e # {}
    <3> TAKE e
    <3> DEFINE found == EventsAndProjections(e, p)
    <3>1. /\ DOMAIN found = Kinds /\ found.nodes = {} /\ found.facts = {}
          /\ found.events = e
      BY OnlyEventsAndProjections DEF Kinds
    <3> HIDE DEF found
    <3>2. StatusOf(found) = "complete" => e # {}
      BY <3>1, CompleteNeedsTwo
    <3>3. Answer(found).status = StatusOf(found)
      BY DEF Answer
    <3> QED
      BY <3>2, <3>3 DEF found
  <2>3. AuditEvents(about) \cup named # {}
    BY <1>5, <2>1, <2>2
  <2> QED
    BY <1>1, <2>3, ReportsAreFound DEF named, about, name
<1> QED
  BY <1>3, <1>4, <1>5 DEF ExplanationsHoldUp, Endpoints

\* Whatever well-formed question is asked, the explanation holds up.
THEOREM ExplanationsAlwaysHoldUp ==
  ASSUME NEW questions, WellFormed(questions)
  PROVE  ExplanationSpec(questions) => []ExplanationsHoldUp
<1>1. ExplanationInv(questions) => ExplanationsHoldUp
  BY ExplanationsHoldUpNow
<1>2. ExplanationSpec(questions) => []ExplanationInv(questions)
  BY ExplanationInvariant
<1> QED
  BY <1>1, <1>2, PTL

-----------------------------------------------------------------------------
(* What was decided in a routing.                                          *)

\* The first of some places of the index: one event, if there is a place.
LEMMA FirstOfPlaces ==
  ASSUME IsList(trail.events), NEW places, places \subseteq DOMAIN trail.events
  PROVE  /\ \A e \in FirstOf(places) : \E i \in places : e = trail.events[i]
         /\ \A e, f \in FirstOf(places) : e = f
         /\ places # {} => FirstOf(places) # {}
<1>1. Len(trail.events) \in Nat /\ DOMAIN trail.events = 1..Len(trail.events)
  BY DEF IsList
<1>2. places \subseteq Nat
  BY <1>1
<1>3. \A e \in FirstOf(places) :
         \E i \in places : e = trail.events[i] /\ \A j \in places : i <= j
  BY DEF FirstOf
<1>4. ASSUME NEW e \in FirstOf(places), NEW f \in FirstOf(places)
      PROVE  e = f
  <2>1. PICK i \in places : e = trail.events[i] /\ \A j \in places : i <= j
    BY <1>3
  <2>2. PICK k \in places : f = trail.events[k] /\ \A j \in places : k <= j
    BY <1>3
  <2>3. i <= k /\ k <= i /\ i \in Nat /\ k \in Nat
    BY <1>2, <2>1, <2>2
  <2>4. i = k
    BY <2>3
  <2> QED
    BY <2>1, <2>2, <2>4
<1>5. ASSUME places # {}
      PROVE  FirstOf(places) # {}
  <2>1. PICK i \in places : \A j \in places : i <= j
    BY <1>2, <1>5, LeastNumber
  <2>2. trail.events[i] \in FirstOf(places)
    BY <2>1 DEF FirstOf
  <2> QED
    BY <2>2
<1> QED
  BY <1>3, <1>4, <1>5

\* An evaluation of a routing.
Evaluates(r, routing) ==
  /\ r \in Reports /\ r.type = "expert_router_evaluation" /\ RoutingOf(r) = routing

\* The event of an evaluation has an expert on the side that the evaluation has
\* it on, whether there is a record of the decision or not.
LEMMA EvaluationEventIs ==
  ASSUME NEW r \in Reports, r.type = "expert_router_evaluation",
         NEW side \in {"selected", "rejected"}, NEW expert, expert # 0
  PROVE  /\ Len(EventsOf(r)) = 1
         /\ EventsOf(r)[1].type = "RouterEligibilityEvaluated"
         /\ EventsOf(r)[1].correlation = Correlation("router::", RoutingOf(r))
         /\ OnRecord(EventsOf(r)[1], side, expert)
              <=> \E d \in r[side] : d.expert = expert
<1> DEFINE Ids(at) == {d.expert : d \in at} \ {0}
           Records(at) == {d \in at : d.expert # 0 /\ d.proposal # 0}
           payload == [fp |-> r.fp,
                       selectedIds |-> Ids(r.selected),
                       rejectedIds |-> Ids(r.rejected),
                       selected |-> Records(r.selected),
                       rejected |-> Records(r.rejected),
                       names |-> {RoutingOf(r), r.fp}
                                 \cup Ids(r.selected) \cup Ids(r.rejected)]
           e == Event("RouterEligibilityEvaluated",
                      Correlation("router::", RoutingOf(r)), 0, payload)
<1>1. EventsOf(r) = <<e>>
  <2>1. EventsOf(r) = EvaluationEvents(r)
    BY DEF EventsOf
  <2> QED
    BY <2>1 DEF EvaluationEvents, RouterEvent
<1>2. /\ e.type = "RouterEligibilityEvaluated" /\ e.payload = payload
      /\ e.correlation = Correlation("router::", RoutingOf(r))
  BY DEF Event
<1>3. /\ payload.selectedIds = Ids(r.selected) /\ payload.rejectedIds = Ids(r.rejected)
      /\ payload.selected = Records(r.selected) /\ payload.rejected = Records(r.rejected)
  OBVIOUS
<1> HIDE DEF payload, e
<1>4. OnRecord(e, side, expert) <=> \E d \in r[side] : d.expert = expert
  <2>1. CASE side = "selected"
    <3>1. OnRecord(e, side, expert)
            <=> \/ \E d \in Records(r.selected) : d.expert = expert
                \/ expert \in Ids(r.selected)
      BY <1>2, <1>3, <2>1 DEF OnRecord
    <3> QED
      BY <2>1, <3>1
  <2>2. CASE side = "rejected"
    <3>1. OnRecord(e, side, expert)
            <=> \/ \E d \in Records(r.rejected) : d.expert = expert
                \/ expert \in Ids(r.rejected)
      BY <1>2, <1>3, <2>2 DEF OnRecord
    <3> QED
      BY <2>2, <3>1
  <2> QED
    BY <2>1, <2>2
<1>5. Len(<<e>>) = 1 /\ <<e>>[1] = e
  OBVIOUS
<1> QED
  BY <1>1, <1>2, <1>4, <1>5

\* What the index has of a routing's evaluations: the event of one that was
\* collected, if any was.
LEMMA EvaluationOfRouting ==
  ASSUME TrailInv, trail.state = "built", NEW routing
  PROVE  /\ \A e \in EvaluationOf(routing) :
               \E r \in ToSet(collected) : Evaluates(r, routing) /\ e = EventsOf(r)[1]
         /\ \A e, f \in EvaluationOf(routing) : e = f
         /\ (\E r \in ToSet(collected) : Evaluates(r, routing))
              => EvaluationOf(routing) # {}
<1> DEFINE places == OfRouting(routing, {"RouterEligibilityEvaluated"})
<1>1. /\ EvaluationOf(routing) = FirstOf(places)
      /\ places \subseteq DOMAIN trail.events
      /\ \A i \in places : /\ trail.events[i].type = "RouterEligibilityEvaluated"
                           /\ trail.events[i].correlation
                                = Correlation("router::", routing)
      /\ \A i \in DOMAIN trail.events :
            /\ trail.events[i].type = "RouterEligibilityEvaluated"
            /\ trail.events[i].correlation = Correlation("router::", routing)
            => i \in places
  BY DEF EvaluationOf, OfRouting, LookupCorrelation
<1> HIDE DEF places
<1>2. IsList(trail.events)
  BY IndexedEventsCome
<1>3. /\ \A e \in FirstOf(places) : \E i \in places : e = trail.events[i]
      /\ \A e, f \in FirstOf(places) : e = f
      /\ places # {} => FirstOf(places) # {}
  BY <1>1, <1>2, FirstOfPlaces
<1>4. ASSUME NEW e \in EvaluationOf(routing)
      PROVE  \E r \in ToSet(collected) : Evaluates(r, routing) /\ e = EventsOf(r)[1]
  <2>1. PICK i \in places : e = trail.events[i]
    BY <1>1, <1>3, <1>4
  <2>2. PICK r \in ToSet(collected) : r \in Reports /\ Comes(trail.events[i], r)
    BY <1>1, <2>1, IndexedEventsCome
  <2>3. /\ r.type = "expert_router_evaluation"
        /\ e.correlation = <<"router::", RoutingOf(r)>>
    BY <1>1, <2>1, <2>2, TypesTell
  <2>4. e.correlation = <<"router::", routing>>
    BY <1>1, <2>1 DEF Correlation
  <2>5. RoutingOf(r) = routing
    BY <2>3, <2>4
  <2>6. Len(EventsOf(r)) = 1
    BY <2>2, <2>3, EvaluationEventIs
  <2>7. e = EventsOf(r)[1]
    <3>1. \A p \in 1..1 : p = 1
      OBVIOUS
    <3> QED
      BY <2>1, <2>2, <2>6, <3>1 DEF Comes
  <2> QED
    BY <2>2, <2>3, <2>5, <2>7 DEF Evaluates
<1>5. ASSUME NEW r \in ToSet(collected), Evaluates(r, routing)
      PROVE  EvaluationOf(routing) # {}
  <2>1. r \in Reports /\ r.type = "expert_router_evaluation" /\ RoutingOf(r) = routing
    BY <1>5 DEF Evaluates
  <2>2. /\ Len(EventsOf(r)) = 1
        /\ EventsOf(r)[1].type = "RouterEligibilityEvaluated"
        /\ EventsOf(r)[1].correlation = Correlation("router::", RoutingOf(r))
    BY <2>1, EvaluationEventIs
  <2>3. \A p \in 1..Len(EventsOf(r)) :
           \E i \in DOMAIN trail.events : trail.events[i] = EventsOf(r)[p]
    BY IndexedEventsCome
  <2>4. PICK i \in DOMAIN trail.events : trail.events[i] = EventsOf(r)[1]
    BY <2>2, <2>3
  <2>5. i \in places
    BY <1>1, <2>1, <2>2, <2>4
  <2> QED
    BY <1>1, <1>3, <2>5
<1> QED
  BY <1>1, <1>3, <1>4, <1>5

\* A decision is completely explained exactly when the evaluation that the
\* index has of the routing has the expert on that side.
LEMMA CompleteIsOnRecord ==
  ASSUME NEW side, NEW routing, NEW expert
  PROVE  CauseOfRouter(side, routing, expert).status = "complete"
           <=> \E e \in EvaluationOf(routing) : OnRecord(e, side, expert)
<1> DEFINE found == FoundOf(routing)
           listed == \E e \in EvaluationOf(routing) : OnRecord(e, side, expert)
<1>1. CauseOfRouter(side, routing, expert).status
        = IF ~listed /\ found.events # {} THEN "partial" ELSE StatusOf(found)
  BY DEF CauseOfRouter, Answer
<1>2. /\ DOMAIN found = Kinds /\ found.nodes = {} /\ found.facts = {}
      /\ \A e \in EvaluationOf(routing) : AuditId(e) \in found.events
      /\ <<"name", routing>> \in found.projections
  <2> DEFINE report == BatchReportOf(routing)
             ids == {AuditId(e) :
                       e \in ValidationOf(routing) \cup EvaluationOf(routing)
                             \cup ReplayOf(routing) \cup report}
             names == {<<"name", routing>>}
                      \cup {<<"name", e.payload.fp>> : e \in report}
  <2>1. found = EventsAndProjections(ids, names)
    BY DEF FoundOf, EventsAndProjections
  <2>2. /\ \A e \in EvaluationOf(routing) : AuditId(e) \in ids
        /\ <<"name", routing>> \in names
    OBVIOUS
  <2> HIDE DEF ids, names, found
  <2> QED
    BY <2>1, <2>2, OnlyEventsAndProjections DEF Kinds
<1> HIDE DEF found
<1>3. ASSUME listed
      PROVE  CauseOfRouter(side, routing, expert).status = "complete"
  <2>1. found.events # {} /\ found.projections # {}
    BY <1>2, <1>3
  <2>2. StatusOf(found) = "complete"
    BY <1>2, <2>1, TwoAreComplete
  <2> QED
    BY <1>1, <1>3, <2>2
<1>4. ASSUME ~ listed
      PROVE  CauseOfRouter(side, routing, expert).status # "complete"
  <2>1. CASE found.events # {}
    BY <1>1, <1>4, <2>1
  <2>2. CASE found.events = {}
    <3>1. StatusOf(found) # "complete"
      BY <1>2, <2>2, CompleteNeedsTwo
    <3> QED
      BY <1>1, <2>2, <3>1
  <2> QED
    BY <2>1, <2>2
<1> QED
  BY <1>3, <1>4

\* With the invariant an answer about a routing says what was decided in it.
LEMMA ExplainedAsDecidedNow ==
  ASSUME NEW questions, WellFormed(questions), ExplanationInv(questions)
  PROVE  ExplainedAsDecided
<1> SUFFICES ASSUME NEW side \in {"selected", "rejected"},
                    question.query = (IF side = "selected"
                                      THEN "cause_of_router_selection"
                                      ELSE "cause_of_router_rejection"),
                    trail.state = "built"
             PROVE  LET routing == question.target[2]
                        evaluations == {r \in ToSet(collected) :
                                          /\ r.type = "expert_router_evaluation"
                                          /\ RoutingOf(r) = routing}
                        On(r, at) == \E d \in r[at] : d.expert = question.expert
                        other == CHOOSE at \in {"selected", "rejected"} : at # side
                        complete == answer.status = "complete"
                    IN  /\ complete => \E r \in evaluations : On(r, side)
                        /\ evaluations # {} /\ (\A r \in evaluations : On(r, side))
                             => complete
                        /\ complete
                           /\ CauseOfRouter(other, routing, question.expert).status
                                = "complete"
                             => \E r \in evaluations : On(r, side) /\ On(r, other)
  BY DEF ExplainedAsDecided
<1> DEFINE routing == question.target[2]
           expert == question.expert
           evaluations == {r \in ToSet(collected) :
                             /\ r.type = "expert_router_evaluation"
                             /\ RoutingOf(r) = routing}
           On(r, at) == \E d \in r[at] : d.expert = expert
           other == CHOOSE at \in {"selected", "rejected"} : at # side
           Answered(at) == CauseOfRouter(at, routing, expert).status = "complete"
           Listed(at) == \E e \in EvaluationOf(routing) : OnRecord(e, at, expert)
<1>1. /\ TrailInv /\ answer = Explain(question) /\ expert # 0
  <2>1. question # Nothing
    BY DEF Nothing
  <2> QED
    BY <2>1 DEF ExplanationInv, WellFormed
<1>2. answer.status = "complete" <=> Answered(side)
  <2>1. CASE side = "selected"
    BY <1>1, <2>1 DEF Explain
  <2>2. CASE side = "rejected"
    BY <1>1, <2>2 DEF Explain
  <2> QED
    BY <2>1, <2>2
<1>3. other \in {"selected", "rejected"}
  <2>1. \E at \in {"selected", "rejected"} : at # side
    OBVIOUS
  <2> QED
    BY <2>1
<1>4. \A r \in ToSet(collected) : r \in evaluations <=> Evaluates(r, routing)
  BY <1>1, IndexedEventsCome DEF Evaluates
<1>5. \A r \in evaluations : \A at \in {"selected", "rejected"} :
         OnRecord(EventsOf(r)[1], at, expert) <=> On(r, at)
  <2> TAKE r \in evaluations
  <2> TAKE at \in {"selected", "rejected"}
  <2>1. r \in Reports /\ r.type = "expert_router_evaluation"
    BY <1>4 DEF Evaluates
  <2> HIDE DEF expert
  <2> QED
    BY <1>1, <2>1, EvaluationEventIs
<1>6. /\ \A e \in EvaluationOf(routing) : \E r \in evaluations : e = EventsOf(r)[1]
      /\ \A e, f \in EvaluationOf(routing) : e = f
      /\ evaluations # {} => EvaluationOf(routing) # {}
  <2>1. evaluations \subseteq ToSet(collected)
    OBVIOUS
  <2> HIDE DEF evaluations, routing
  <2> QED
    BY <1>1, <1>4, <2>1, EvaluationOfRouting
<1>7. \A at : Answered(at) <=> Listed(at)
  <2> HIDE DEF routing, expert
  <2> QED
    BY CompleteIsOnRecord
<1> HIDE DEF routing, expert, evaluations, On, other, Answered
<1>8. Answered(side) => \E r \in evaluations : On(r, side)
  <2> SUFFICES ASSUME Answered(side)
               PROVE  \E r \in evaluations : On(r, side)
    OBVIOUS
  <2>1. PICK e \in EvaluationOf(routing) : OnRecord(e, side, expert)
    BY <1>7
  <2>2. PICK r \in evaluations : e = EventsOf(r)[1]
    BY <1>6
  <2> QED
    BY <1>5, <2>1, <2>2
<1>9. ASSUME evaluations # {}, \A r \in evaluations : On(r, side)
      PROVE  Answered(side)
  <2>1. PICK e \in EvaluationOf(routing) : TRUE
    BY <1>6, <1>9
  <2>2. PICK r \in evaluations : e = EventsOf(r)[1]
    BY <1>6
  <2>3. OnRecord(e, side, expert)
    BY <1>5, <1>9, <2>2
  <2> QED
    BY <1>7, <2>3
<1>10. ASSUME Answered(side), Answered(other)
       PROVE  \E r \in evaluations : On(r, side) /\ On(r, other)
  <2>1. PICK e \in EvaluationOf(routing) : OnRecord(e, side, expert)
    BY <1>7, <1>10
  <2>2. PICK f \in EvaluationOf(routing) : OnRecord(f, other, expert)
    BY <1>7, <1>10
  <2>3. PICK r \in evaluations : e = EventsOf(r)[1]
    BY <1>6
  <2>4. e = f
    BY <1>6
  <2> QED
    BY <1>3, <1>5, <2>1, <2>2, <2>3, <2>4
<1> QED
  BY <1>2, <1>8, <1>9, <1>10 DEF routing, expert, evaluations, On, other, Answered

\* Whatever well-formed question is asked of the router, the answer says what
\* was decided.
THEOREM ExplainsWhatWasDecided ==
  ASSUME NEW questions, WellFormed(questions)
  PROVE  ExplanationSpec(questions) => []ExplainedAsDecided
<1>1. ExplanationInv(questions) => ExplainedAsDecided
  BY ExplainedAsDecidedNow
<1>2. ExplanationSpec(questions) => []ExplanationInv(questions)
  BY ExplanationInvariant
<1> QED
  BY <1>1, <1>2, PTL
=============================================================================
