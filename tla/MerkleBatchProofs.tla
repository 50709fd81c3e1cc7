-------------------------- MODULE MerkleBatchProofs ---------------------------
(***************************************************************************)
(* Theorems about MerkleBatch, for batches of any size.  The invariant of  *)
(* the loop (MerkleInv) says that each level is a row of the tree and that *)
(* each proof resolves to the node its leaf is below, so the root is that  *)
(* of the tree, and every entry proves itself against it                   *)
(* (LoopBuildsTheTree).  The rows of two trees of one root are equal from  *)
(* the root down, so batches with one root are equal (RootsCommit), and no *)
(* other entry has a proof (NoForeignEntry).  MerkleTypes adds that the    *)
(* leaves below a node climb together (ClimbInv), whole nodes at a time.   *)
(*                                                                         *)
(* Lemmas on lists and ranks come first.                                   *)
(***************************************************************************)
EXTENDS MerkleBatch, FiniteSetTheorems, WellFoundedInduction, TLAPS

-----------------------------------------------------------------------------
(* Lists, and ranks in a strict total order.                               *)

\* A set of numbers that is not empty has a least one.
LEMMA LeastNumber ==
  ASSUME NEW S, S \subseteq Nat, S # {}
  PROVE  \E m \in S : \A k \in S : m <= k
<1> DEFINE Lower == {p \in Nat \X Nat : p[1] < p[2]}
<1>1. IsWellFoundedOn(Lower, Nat)
  BY NatLessThanWellFounded DEF OpToRel
<1>2. PICK m \in S : \A k \in S : <<k, m>> \notin Lower
  BY <1>1, WFMin
<1>3. ASSUME NEW k \in S
      PROVE  m <= k
  <2>1. <<k, m>> \in Nat \X Nat
    OBVIOUS
  <2> QED
    BY <1>2, <2>1
<1> QED
  BY <1>2, <1>3

\* What is a sequence, of whatever elements.
IsList(s) == Len(s) \in Nat /\ s = [i \in 1..Len(s) |-> s[i]]

\* A function on 1..n is a list of length n.
LEMMA ListOf ==
  ASSUME NEW n \in Nat, NEW s, DOMAIN s = 1..n, s = [i \in 1..n |-> s[i]]
  PROVE  IsList(s) /\ Len(s) = n
<1>1. Len(s) = n
  OBVIOUS
<1> QED
  BY <1>1 DEF IsList

\* A list with an element more.
LEMMA AppendList ==
  ASSUME NEW s, IsList(s), NEW x
  PROVE  /\ IsList(Append(s, x))
         /\ Len(Append(s, x)) = Len(s) + 1
         /\ \A i \in 1..Len(s) : Append(s, x)[i] = s[i]
         /\ Append(s, x)[Len(s) + 1] = x
<1> DEFINE T == {s[i] : i \in 1..Len(s)} \cup {x}
<1>1. Len(s) \in Nat /\ s \in [1..Len(s) -> T] /\ x \in T
  BY DEF IsList
<1>2. s \in Seq(T)
  BY <1>1
<1> HIDE DEF T
<1>3. /\ Append(s, x) \in Seq(T)
      /\ Len(Append(s, x)) = Len(s) + 1
      /\ \A i \in 1..Len(s) : Append(s, x)[i] = s[i]
      /\ Append(s, x)[Len(s) + 1] = x
  BY <1>1, <1>2
<1> DEFINE m == Append(s, x)
<1> HIDE DEF m
<1>4. m \in [1..Len(m) -> T] /\ Len(m) \in Nat
  <2>1. m \in Seq(T)
    BY <1>3 DEF m
  <2> QED
    BY <2>1
<1>5. m = [i \in 1..Len(m) |-> m[i]]
  BY <1>4
<1> QED
  BY <1>3, <1>4, <1>5 DEF IsList, m

\* One list after another.
LEMMA ConcatList ==
  ASSUME NEW s, IsList(s), NEW t, IsList(t)
  PROVE  /\ IsList(s \o t)
         /\ Len(s \o t) = Len(s) + Len(t)
         /\ \A i \in 1..Len(s) : (s \o t)[i] = s[i]
         /\ \A i \in 1..Len(t) : (s \o t)[Len(s) + i] = t[i]
<1> DEFINE T == {s[i] : i \in 1..Len(s)} \cup {t[i] : i \in 1..Len(t)}
<1>1. /\ Len(s) \in Nat /\ s \in [1..Len(s) -> T]
      /\ Len(t) \in Nat /\ t \in [1..Len(t) -> T]
  BY DEF IsList
<1>2. s \in Seq(T) /\ t \in Seq(T)
  BY <1>1
<1> HIDE DEF T
<1> DEFINE m == s \o t
<1>3. /\ m \in Seq(T)
      /\ Len(m) = Len(s) + Len(t)
      /\ \A i \in 1..Len(m) : m[i] = IF i <= Len(s) THEN s[i] ELSE t[i - Len(s)]
  BY <1>1, <1>2
<1> HIDE DEF m
<1>4. /\ \A i \in 1..Len(s) : m[i] = s[i]
      /\ \A i \in 1..Len(t) : m[Len(s) + i] = t[i]
  <2>1. \A i \in 1..Len(s) : i \in 1..Len(m) /\ i <= Len(s)
    BY <1>1, <1>3
  <2>2. \A i \in 1..Len(t) : /\ Len(s) + i \in 1..Len(m) /\ ~ (Len(s) + i <= Len(s))
                             /\ Len(s) + i - Len(s) = i
    BY <1>1, <1>3
  <2> QED
    BY <1>3, <2>1, <2>2
<1>5. m \in [1..Len(m) -> T] /\ Len(m) \in Nat
  BY <1>3
<1>6. m = [i \in 1..Len(m) |-> m[i]]
  BY <1>5
<1> QED
  BY <1>3, <1>4, <1>5, <1>6 DEF IsList, m

\* The end of a list, from the i-th element on.
LEMMA RestOfList ==
  ASSUME NEW s, IsList(s), NEW i \in Nat \ {0}
  PROVE  LET t == SubSeq(s, i, Len(s))
         IN  /\ IsList(t)
             /\ Len(t) = IF i <= Len(s) THEN Len(s) - i + 1 ELSE 0
             /\ \A k \in 1..Len(t) : t[k] = s[i + k - 1] /\ i + k - 1 \in i..Len(s)
<1> DEFINE t == SubSeq(s, i, Len(s))
           m == IF i <= Len(s) THEN Len(s) - i + 1 ELSE 0
<1>1. Len(s) \in Nat /\ m \in Nat
  BY DEF IsList
<1>2. t = [k \in 1..m |-> s[i + k - 1]]
  BY <1>1
<1> HIDE DEF t
<1>3. DOMAIN t = 1..m /\ t = [k \in 1..m |-> t[k]] /\ \A k \in 1..m : t[k] = s[i + k - 1]
  BY <1>2
<1>4. IsList(t) /\ Len(t) = m
  BY <1>1, <1>3, ListOf
<1>5. \A k \in 1..m : i + k - 1 \in i..Len(s)
  BY <1>1
<1> QED
  BY <1>3, <1>4, <1>5 DEF t

\* The rank of an element of a finite set in a strict order of it: how many come
\* before.
Earlier(I, R, x) == {y \in I : <<y, x>> \in R}

Rank(I, R, x) == Cardinality(Earlier(I, R, x))

\* Ranks go by the order, and each is taken.
LEMMA RanksAreTaken ==
  ASSUME NEW I, IsFiniteSet(I), NEW R,
         \A x \in I : <<x, x>> \notin R,
         \A x, y, z \in I : <<x, y>> \in R /\ <<y, z>> \in R => <<x, z>> \in R,
         \A x, y \in I : x # y => <<x, y>> \in R \/ <<y, x>> \in R
  PROVE  /\ Cardinality(I) \in Nat
         /\ \A x \in I : Rank(I, R, x) \in 0..(Cardinality(I) - 1)
         /\ \A x, y \in I : <<x, y>> \in R <=> Rank(I, R, x) < Rank(I, R, y)
         /\ \A x, y \in I : Rank(I, R, x) = Rank(I, R, y) => x = y
         /\ \A k \in 1..Cardinality(I) : \E x \in I : Rank(I, R, x) = k - 1
<1>0. Cardinality(I) \in Nat
  BY FS_CardinalityType
<1>1. \A x \in I : /\ IsFiniteSet(Earlier(I, R, x))
                   /\ Rank(I, R, x) \in Nat
                   /\ Rank(I, R, x) < Cardinality(I)
  <2> TAKE x \in I
  <2>1. Earlier(I, R, x) \in SUBSET I /\ Earlier(I, R, x) # I
    BY DEF Earlier
  <2>2. /\ IsFiniteSet(Earlier(I, R, x))
        /\ Cardinality(Earlier(I, R, x)) <= Cardinality(I)
        /\ Cardinality(Earlier(I, R, x)) # Cardinality(I)
    BY <2>1, FS_Subset
  <2>3. Cardinality(Earlier(I, R, x)) \in Nat
    BY <2>2, FS_CardinalityType
  <2> QED
    BY <1>0, <2>2, <2>3 DEF Rank
<1>2. ASSUME NEW x \in I, NEW y \in I, <<x, y>> \in R
      PROVE  Rank(I, R, x) < Rank(I, R, y)
  <2>1. /\ Earlier(I, R, x) \in SUBSET Earlier(I, R, y)
        /\ Earlier(I, R, x) # Earlier(I, R, y)
    BY <1>2 DEF Earlier
  <2>2. /\ Cardinality(Earlier(I, R, x)) <= Cardinality(Earlier(I, R, y))
        /\ Cardinality(Earlier(I, R, x)) # Cardinality(Earlier(I, R, y))
    BY <1>1, <2>1, FS_Subset
  <2> QED
    BY <1>1, <2>2 DEF Rank
<1>3. ASSUME NEW x \in I, NEW y \in I
      PROVE  /\ Rank(I, R, x) = Rank(I, R, y) => x = y
             /\ Rank(I, R, x) < Rank(I, R, y) => <<x, y>> \in R
  <2>1. Rank(I, R, x) \in Nat /\ Rank(I, R, y) \in Nat
    BY <1>1
  <2>2. <<x, y>> \in R => Rank(I, R, x) < Rank(I, R, y)
    BY <1>2
  <2>3. <<y, x>> \in R => Rank(I, R, y) < Rank(I, R, x)
    BY <1>2
  <2>4. x # y => <<x, y>> \in R \/ <<y, x>> \in R
    OBVIOUS
  <2> QED
    BY <2>1, <2>2, <2>3, <2>4
<1>4. \A x, y \in I : <<x, y>> \in R <=> Rank(I, R, x) < Rank(I, R, y)
  BY <1>2, <1>3
<1>5. \A x, y \in I : Rank(I, R, x) = Rank(I, R, y) => x = y
  BY <1>3
<1>6. \A k \in 1..Cardinality(I) : \E x \in I : Rank(I, R, x) = k - 1
  <2> DEFINE n == Cardinality(I)
             place == [x \in I |-> Rank(I, R, x) + 1]
  <2>1. place \in [I -> 1..n]
    BY <1>0, <1>1
  <2>2. place \in Injection(I, 1..n)
    <3>1. \A x, y \in I : place[x] = place[y] => x = y
      <4> TAKE x, y \in I
      <4>1. Rank(I, R, x) \in Nat /\ Rank(I, R, y) \in Nat
        BY <1>1
      <4>2. Rank(I, R, x) = Rank(I, R, y) => x = y
        BY <1>5
      <4> QED
        BY <4>1, <4>2
    <3> QED
      BY <2>1, <3>1 DEF Injection, IsInjective
  <2>3. IsFiniteSet(1..n) /\ Cardinality(1..n) = n
    BY <1>0, FS_Interval
  <2>4. place \in Surjection(I, 1..n)
    BY <2>2, <2>3, FS_Injection
  <2>5. \A k \in 1..n : \E x \in I : place[x] = k
    BY <2>4 DEF Surjection
  <2> QED
    BY <1>1, <2>5
<1>7. \A x \in I : Rank(I, R, x) \in 0..(Cardinality(I) - 1)
  BY <1>0, <1>1
<1> QED
  BY <1>0, <1>4, <1>5, <1>6, <1>7

\* Half of a number, rounded up.
LEMMA Half ==
  ASSUME NEW n \in Nat
  PROVE  /\ (n + 1) \div 2 \in Nat
         /\ 2 * ((n + 1) \div 2) = n \/ 2 * ((n + 1) \div 2) = n + 1
OBVIOUS

\* A function defined by what it is at the number before exists and is as
\* defined: it is built up number by number.
LEMMA LeafAndAbove ==
  ASSUME NEW s, Len(s) \in Nat
  PROVE  /\ DOMAIN Tree(s) = 0..Len(s)
         /\ Tree(s)[0] = [i \in DOMAIN s |-> LeafHash(s[i])]
         /\ \A h \in 1..Len(s) : Tree(s)[h] = Above(Tree(s)[h - 1])
<1> DEFINE Rows(f, n) ==
             f = [h \in 0..n |-> IF h = 0 THEN [i \in DOMAIN s |-> LeafHash(s[i])]
                                          ELSE Above(f[h - 1])]
           Without == {n \in Nat : ~ \E f : Rows(f, n)}
<1>1. Without = {}
  <2> SUFFICES ASSUME Without # {} PROVE FALSE
    OBVIOUS
  <2>1. PICK n \in Without : \A k \in Without : n <= k
    BY LeastNumber
  <2>2. n # 0
    <3>1. Rows([h \in 0..0 |-> [i \in DOMAIN s |-> LeafHash(s[i])]], 0)
      OBVIOUS
    <3> QED
      BY <3>1
  <2>3. n - 1 \in Nat /\ n - 1 \notin Without
    <3>1. n \in Nat /\ n - 1 \in Nat /\ ~ (n <= n - 1)
      BY <2>2
    <3> HIDE DEF Without
    <3> QED
      BY <2>1, <3>1
  <2>4. PICK f : Rows(f, n - 1)
    BY <2>3
  <2> DEFINE g == [h \in 0..n |-> IF h = n THEN Above(f[n - 1]) ELSE f[h]]
  <2>5. Rows(g, n)
    <3> HIDE DEF g
    <3>1. \A h \in 0..n : g[h] = IF h = n THEN Above(f[n - 1]) ELSE f[h]
      BY DEF g
    <3>2. g = [h \in 0..n |-> g[h]]
      BY DEF g
    <3>3. \A h \in 0..(n - 1) :
            f[h] = IF h = 0 THEN [i \in DOMAIN s |-> LeafHash(s[i])]
                            ELSE Above(f[h - 1])
      BY <2>3, <2>4
    <3>4. ASSUME NEW h \in 0..n
          PROVE  g[h] = IF h = 0 THEN [i \in DOMAIN s |-> LeafHash(s[i])]
                                 ELSE Above(g[h - 1])
      <4>1. CASE h = n
        BY <2>2, <2>3, <3>1, <4>1
      <4>2. CASE h # n
        BY <2>2, <2>3, <3>1, <3>3, <4>2
      <4> QED
        BY <4>1, <4>2
    <3> QED
      BY <3>2, <3>4
  <2> QED
    BY <2>1, <2>5
<1>2. PICK f : Rows(f, Len(s))
  BY <1>1
<1>3. Rows(Tree(s), Len(s))
  BY <1>2 DEF Tree
<1> QED
  BY <1>3

\* A proof is climbed node by node.
LEMMA ResolveSteps ==
  ASSUME NEW hash, NEW proof, Len(proof) \in Nat
  PROVE  \E c : /\ c[0] = hash
                /\ \A k \in 1..Len(proof) : c[k] = Climb(c[k - 1], proof[k])
                /\ Resolve(hash, proof) = c[Len(proof)]
<1> DEFINE Chain(f, n) ==
             f = [k \in 0..n |-> IF k = 0 THEN hash
                                          ELSE Climb(f[k - 1], proof[k])]
           Without == {n \in Nat : ~ \E f : Chain(f, n)}
<1>1. Without = {}
  <2> SUFFICES ASSUME Without # {} PROVE FALSE
    OBVIOUS
  <2>1. PICK n \in Without : \A k \in Without : n <= k
    BY LeastNumber
  <2>2. n # 0
    <3>1. Chain([k \in 0..0 |-> hash], 0)
      OBVIOUS
    <3> QED
      BY <3>1
  <2>3. n - 1 \in Nat /\ n - 1 \notin Without
    <3>1. n \in Nat /\ n - 1 \in Nat /\ ~ (n <= n - 1)
      BY <2>2
    <3> HIDE DEF Without
    <3> QED
      BY <2>1, <3>1
  <2>4. PICK f : Chain(f, n - 1)
    BY <2>3
  <2> DEFINE g == [k \in 0..n |-> IF k = n THEN Climb(f[n - 1], proof[n]) ELSE f[k]]
  <2>5. Chain(g, n)
    <3> HIDE DEF g
    <3>1. \A k \in 0..n : g[k] = IF k = n THEN Climb(f[n - 1], proof[n]) ELSE f[k]
      BY DEF g
    <3>2. g = [k \in 0..n |-> g[k]]
      BY DEF g
    <3>3. \A k \in 0..(n - 1) :
            f[k] = IF k = 0 THEN hash ELSE Climb(f[k - 1], proof[k])
      BY <2>3, <2>4
    <3>4. ASSUME NEW k \in 0..n
          PROVE  g[k] = IF k = 0 THEN hash ELSE Climb(g[k - 1], proof[k])
      <4>1. CASE k = n
        BY <2>2, <2>3, <3>1, <4>1
      <4>2. CASE k # n
        BY <2>2, <2>3, <3>1, <3>3, <4>2
      <4> QED
        BY <4>1, <4>2
    <3> QED
      BY <3>2, <3>4
  <2> QED
    BY <2>1, <2>5
<1>2. PICK f : Chain(f, Len(proof))
  BY <1>1
<1>3. PICK c : Chain(c, Len(proof)) /\ Resolve(hash, proof) = c[Len(proof)]
  <2> DEFINE c == CHOOSE c : Chain(c, Len(proof))
  <2>1. Chain(c, Len(proof))
    BY <1>2
  <2>2. Resolve(hash, proof) = c[Len(proof)]
    BY DEF Resolve
  <2> QED
    BY <2>1, <2>2
<1> HIDE DEF Chain
<1>4. \A k \in 0..Len(proof) :
         c[k] = IF k = 0 THEN hash ELSE Climb(c[k - 1], proof[k])
  BY <1>3 DEF Chain
<1> QED
  BY <1>3, <1>4

\* One node more climbs one step further.
LEMMA ResolveAppend ==
  ASSUME NEW hash, NEW proof, IsList(proof), NEW n
  PROVE  /\ IsList(Append(proof, n))
         /\ Len(Append(proof, n)) = Len(proof) + 1
         /\ Resolve(hash, Append(proof, n)) = Climb(Resolve(hash, proof), n)
<1> DEFINE more == Append(proof, n)
<1>1. /\ Len(proof) \in Nat
      /\ proof = [i \in 1..Len(proof) |-> proof[i]]
  BY DEF IsList
<1>2. /\ IsList(more) /\ Len(more) = Len(proof) + 1
      /\ \A i \in 1..Len(proof) : more[i] = proof[i]
      /\ more[Len(proof) + 1] = n
  BY AppendList
<1> HIDE DEF more
<1>3. PICK c : /\ c[0] = hash
               /\ \A k \in 1..Len(proof) : c[k] = Climb(c[k - 1], proof[k])
               /\ Resolve(hash, proof) = c[Len(proof)]
  BY <1>1, ResolveSteps
<1>4. PICK d : /\ d[0] = hash
               /\ \A k \in 1..Len(more) : d[k] = Climb(d[k - 1], more[k])
               /\ Resolve(hash, more) = d[Len(more)]
  BY <1>1, <1>2, ResolveSteps
<1> DEFINE Apart == {k \in Nat : k <= Len(proof) /\ c[k] # d[k]}
<1>5. Apart = {}
  <2> SUFFICES ASSUME Apart # {} PROVE FALSE
    OBVIOUS
  <2>1. PICK k \in Apart : \A j \in Apart : k <= j
    BY LeastNumber
  <2>2. k # 0 /\ k \in 1..Len(proof)
    BY <1>1, <1>3, <1>4
  <2>3. k - 1 \in Nat /\ k - 1 <= Len(proof) /\ ~ (k <= k - 1)
    BY <1>1, <2>2
  <2>4. c[k - 1] = d[k - 1]
    BY <2>1, <2>3
  <2>5. more[k] = proof[k] /\ k \in 1..Len(more)
    BY <1>1, <1>2, <2>2
  <2> QED
    BY <1>3, <1>4, <2>2, <2>4, <2>5
<1>6. c[Len(proof)] = d[Len(proof)]
  BY <1>1, <1>5
<1>7. /\ Len(more) \in 1..Len(more) /\ Len(more) - 1 = Len(proof)
      /\ more[Len(more)] = n
  BY <1>1, <1>2
<1>8. d[Len(more)] = Climb(d[Len(proof)], n)
  BY <1>4, <1>7
<1> QED
  BY <1>2, <1>3, <1>4, <1>6, <1>8 DEF more

\* The entries of a batch are in the order of their rule sets.
LEMMA EntriesAreSorted ==
  ASSUME NEW B, B \subseteq Entry, IsFiniteSet(B),
         \A d, e \in B : d.rule = e.rule => d = e
  PROVE  /\ IsList(Entries(B))
         /\ Len(Entries(B)) = Cardinality(B)
         /\ {Entries(B)[i] : i \in DOMAIN Entries(B)} = B
         /\ \A i, j \in DOMAIN Entries(B) :
               i < j => Entries(B)[i].rule < Entries(B)[j].rule
<1> DEFINE R == {p \in B \X B : p[1].rule < p[2].rule}
           n == Cardinality(B)
<1>1. \A e \in B : e.rule \in Nat
  BY EntryAssumption
<1>2. \A d, e \in B : <<d, e>> \in R <=> d.rule < e.rule
  OBVIOUS
<1> HIDE DEF R
<1>3. /\ n \in Nat
      /\ \A x \in B : Rank(B, R, x) \in 0..(n - 1)
      /\ \A x, y \in B : <<x, y>> \in R <=> Rank(B, R, x) < Rank(B, R, y)
      /\ \A x, y \in B : Rank(B, R, x) = Rank(B, R, y) => x = y
      /\ \A k \in 1..n : \E x \in B : Rank(B, R, x) = k - 1
  <2>1. \A x \in B : <<x, x>> \notin R
    BY <1>1, <1>2
  <2>2. \A x, y, z \in B : <<x, y>> \in R /\ <<y, z>> \in R => <<x, z>> \in R
    BY <1>1, <1>2
  <2>3. \A x, y \in B : x # y => <<x, y>> \in R \/ <<y, x>> \in R
    BY <1>1, <1>2
  <2> QED
    BY <2>1, <2>2, <2>3, RanksAreTaken
<1>4. \A e \in B : Cardinality({d \in B : d.rule < e.rule}) = Rank(B, R, e)
  <2> TAKE e \in B
  <2>1. {d \in B : d.rule < e.rule} = Earlier(B, R, e)
    BY <1>2 DEF Earlier
  <2> QED
    BY <2>1 DEF Rank
<1>5. \A k \in 1..n : /\ Entries(B)[k] \in B
                      /\ Rank(B, R, Entries(B)[k]) = k - 1
  <2> TAKE k \in 1..n
  <2>1. Entries(B)[k] = CHOOSE e \in B : Cardinality({d \in B : d.rule < e.rule}) = k - 1
    BY DEF Entries
  <2>2. \E e \in B : Cardinality({d \in B : d.rule < e.rule}) = k - 1
    BY <1>3, <1>4
  <2> QED
    BY <1>4, <2>1, <2>2
<1>6. IsList(Entries(B)) /\ Len(Entries(B)) = n /\ DOMAIN Entries(B) = 1..n
  <2> DEFINE At(k) == CHOOSE e \in B : Cardinality({d \in B : d.rule < e.rule}) = k - 1
  <2>0. Entries(B) = [k \in 1..n |-> At(k)]
    BY DEF Entries
  <2> HIDE DEF At
  <2>1. DOMAIN Entries(B) = 1..n /\ Entries(B) = [k \in 1..n |-> Entries(B)[k]]
    BY <2>0
  <2> QED
    BY <1>3, <2>1, ListOf
<1>7. \A e \in B : \E k \in 1..n : Entries(B)[k] = e
  <2> TAKE e \in B
  <2>1. Rank(B, R, e) + 1 \in 1..n
    BY <1>3
  <2> QED
    BY <1>3, <1>5, <2>1
<1>8. ASSUME NEW i \in 1..n, NEW j \in 1..n, i < j
      PROVE  Entries(B)[i].rule < Entries(B)[j].rule
  <2>1. Entries(B)[i] \in B /\ Entries(B)[j] \in B
    BY <1>5
  <2>2. Rank(B, R, Entries(B)[i]) < Rank(B, R, Entries(B)[j])
    BY <1>3, <1>5, <1>8
  <2> QED
    BY <1>2, <1>3, <2>1, <2>2
<1> QED
  BY <1>5, <1>6, <1>7, <1>8

-----------------------------------------------------------------------------
(* The loop, row by row.                                                   *)

\* The nodes of a row that were not paired yet, and those of the next one.
Here == index..Len(level)

There == 1..Len(next_level)

\* The level is row h of the tree, and the next one grows to row h + 1.
RowsInv(s, h) ==
  /\ h + Len(level) <= Len(s)
  /\ \A g \in 0..(h - 1) : Len(Tree(s)[g]) > 1
  /\ Len(level) = Len(Tree(s)[h])
  /\ \A i \in 1..Len(level) : level[i].hash = Tree(s)[h][i]
  /\ \A k \in There : next_level[k].hash = Above(Tree(s)[h])[k]

\* The proof of each leaf below the node leads to it.
NodeProved(s, n) ==
  \A i \in n.leaves : i \in DOMAIN s /\ Resolve(LeafHash(s[i]), proofs[i]) = n.hash

\* Each leaf is below one node that waits, here or there, and no other.
LeavesInv(s) ==
  /\ \A j \in Here : NodeProved(s, level[j])
  /\ \A k \in There : NodeProved(s, next_level[k])
  /\ \A i, j \in Here : i # j => level[i].leaves \cap level[j].leaves = {}
  /\ \A k, l \in There : k # l => next_level[k].leaves \cap next_level[l].leaves = {}
  /\ \A j \in Here, k \in There : level[j].leaves \cap next_level[k].leaves = {}
  /\ \A i \in DOMAIN s : \/ \E j \in Here : i \in level[j].leaves
                         \/ \E k \in There : i \in next_level[k].leaves

LoopInv(s) ==
  /\ IsList(level) /\ IsList(next_level)
  /\ index = 2 * Len(next_level) + 1 /\ index <= Len(level) + 2
  /\ Len(level) >= 1
  /\ Len(level) = 1 => index = 1
  /\ root # None => Len(level) = 1 /\ root = level[1].hash
  /\ DOMAIN proofs = DOMAIN s
  /\ \A i \in DOMAIN s : IsList(proofs[i])
  /\ \E h \in 0..Len(s) : RowsInv(s, h)
  /\ LeavesInv(s)

MerkleInv ==
  /\ building \in BOOLEAN
  /\ batch \subseteq Entry /\ IsFiniteSet(batch)
  /\ \A d, e \in batch : d.rule = e.rule => d = e
  /\ ~building => /\ level = <<>> /\ next_level = <<>> /\ index = 1
                  /\ root = None
  /\ building => batch # {} /\ LoopInv(Entries(batch))

\* A row has half as many nodes as the row below it, rounded up.
LEMMA AboveIs ==
  ASSUME NEW row, IsList(row)
  PROVE  /\ IsList(Above(row))
         /\ Len(Above(row)) = (Len(row) + 1) \div 2
         /\ \A k \in 1..Len(Above(row)) :
               Above(row)[k] =
                 ParentHash(row[2 * k - 1],
                            row[IF 2 * k <= Len(row) THEN 2 * k ELSE 2 * k - 1])
<1> DEFINE n == (Len(row) + 1) \div 2
           Node(k) == ParentHash(row[2 * k - 1],
                        row[IF 2 * k <= Len(row) THEN 2 * k ELSE 2 * k - 1])
<1>1. n \in Nat
  BY DEF IsList
<1>2. Above(row) = [k \in 1..n |-> Node(k)]
  BY DEF Above
<1> HIDE DEF n, Node
<1>3. /\ DOMAIN Above(row) = 1..n /\ Above(row) = [k \in 1..n |-> Above(row)[k]]
      /\ \A k \in 1..n : Above(row)[k] = Node(k)
  BY <1>2
<1>4. IsList(Above(row)) /\ Len(Above(row)) = n
  BY <1>1, <1>3, ListOf
<1> QED
  BY <1>3, <1>4 DEF n, Node

\* No row is empty.
LEMMA RowsAreLists ==
  ASSUME NEW s, IsList(s), Len(s) >= 1
  PROVE  \A h \in 0..Len(s) : IsList(Tree(s)[h]) /\ Len(Tree(s)[h]) >= 1
<1> DEFINE Bad == {h \in Nat : /\ h <= Len(s)
                               /\ ~ (IsList(Tree(s)[h]) /\ Len(Tree(s)[h]) >= 1)}
<1>1. Len(s) \in Nat /\ DOMAIN s = 1..Len(s)
  BY DEF IsList
<1>2. Bad = {}
  <2> SUFFICES ASSUME Bad # {} PROVE FALSE
    OBVIOUS
  <2>1. PICK h \in Bad : \A g \in Bad : h <= g
    BY LeastNumber
  <2>2. h # 0
    <3> DEFINE leaf == [i \in DOMAIN s |-> LeafHash(s[i])]
    <3>1. DOMAIN leaf = 1..Len(s) /\ leaf = [i \in 1..Len(s) |-> leaf[i]]
      BY <1>1
    <3>2. Tree(s)[0] = leaf
      BY <1>1, LeafAndAbove
    <3> HIDE DEF leaf
    <3>3. IsList(leaf) /\ Len(leaf) = Len(s)
      BY <1>1, <3>1, ListOf
    <3> QED
      BY <3>2, <3>3
  <2>3. h \in 1..Len(s) /\ h - 1 \in Nat /\ h - 1 <= Len(s) /\ ~ (h <= h - 1)
    BY <1>1, <2>2
  <2>4. IsList(Tree(s)[h - 1]) /\ Len(Tree(s)[h - 1]) >= 1
    BY <2>1, <2>3
  <2>5. Tree(s)[h] = Above(Tree(s)[h - 1])
    BY <1>1, <2>3, LeafAndAbove
  <2>6. IsList(Tree(s)[h]) /\ Len(Tree(s)[h]) = (Len(Tree(s)[h - 1]) + 1) \div 2
    BY <2>4, <2>5, AboveIs
  <2>7. Len(Tree(s)[h - 1]) \in Nat
    BY <2>4 DEF IsList
  <2>8. Len(Tree(s)[h]) >= 1
    <3> DEFINE a == Len(Tree(s)[h - 1])
               b == (a + 1) \div 2
    <3>1. a \in Nat /\ a >= 1 /\ Len(Tree(s)[h]) = b
      BY <2>4, <2>6, <2>7
    <3>2. b \in Nat /\ (2 * b = a \/ 2 * b = a + 1)
      BY <3>1, Half
    <3> HIDE DEF a, b
    <3> QED
      BY <3>1, <3>2
  <2> QED
    BY <2>6, <2>8
<1> QED
  BY <1>1, <1>2

\* A row and the row above it.
LEMMA RowAbove ==
  ASSUME NEW s, IsList(s), Len(s) >= 1, NEW h \in 1..Len(s)
  PROVE  /\ h - 1 \in 0..Len(s)
         /\ IsList(Tree(s)[h - 1]) /\ Len(Tree(s)[h - 1]) \in Nat
         /\ Len(Tree(s)[h - 1]) >= 1
         /\ IsList(Tree(s)[h]) /\ Len(Tree(s)[h]) \in Nat
         /\ Tree(s)[h] = Above(Tree(s)[h - 1])
         /\ Len(Tree(s)[h]) = (Len(Tree(s)[h - 1]) + 1) \div 2
<1>1. Len(s) \in Nat /\ h - 1 \in 0..Len(s) /\ h \in 0..Len(s)
  BY DEF IsList
<1>2. /\ IsList(Tree(s)[h - 1]) /\ Len(Tree(s)[h - 1]) >= 1
      /\ IsList(Tree(s)[h])
  BY <1>1, RowsAreLists
<1>3. Tree(s)[h] = Above(Tree(s)[h - 1])
  BY <1>1, LeafAndAbove
<1>4. Len(Tree(s)[h]) = (Len(Tree(s)[h - 1]) + 1) \div 2
  BY <1>2, <1>3, AboveIs
<1>5. Len(Tree(s)[h - 1]) \in Nat /\ Len(Tree(s)[h]) \in Nat
  BY <1>2 DEF IsList
<1> QED
  BY <1>1, <1>2, <1>3, <1>4, <1>5

\* A level with more than one node does not have one.
LEMMA MoreThanOne ==
  ASSUME NEW n \in Nat, n > 1
  PROVE  n # 1
OBVIOUS

\* A batch that is not empty has a list of entries.
LEMMA EntriesOfBatch ==
  ASSUME MerkleInv, batch # {}
  PROVE  /\ IsList(Entries(batch)) /\ Len(Entries(batch)) \in Nat
         /\ Len(Entries(batch)) >= 1
         /\ DOMAIN Entries(batch) = 1..Len(Entries(batch))
<1>1. IsList(Entries(batch)) /\ Len(Entries(batch)) = Cardinality(batch)
  BY EntriesAreSorted DEF MerkleInv
<1>2. Cardinality(batch) \in Nat /\ Cardinality(batch) # 0
  BY FS_CardinalityType, FS_EmptySet DEF MerkleInv
<1> QED
  BY <1>1, <1>2 DEF IsList

\* A rule set that is not in the batch may be added before the tree is built.
LEMMA AddRuleSetKeeps ==
  ASSUME MerkleInv, NEW e \in Entry, AddRuleSet(e)
  PROVE  MerkleInv'
<1>1. IsFiniteSet(batch')
  BY FS_AddElement DEF MerkleInv, AddRuleSet
<1> QED
  BY <1>1 DEF MerkleInv, AddRuleSet

\* The empty list is one.
LEMMA EmptyList == IsList(<<>>) /\ Len(<<>>) = 0
BY DEF IsList

\* With the leaves hashed, the level is row 0 of the tree, and every leaf, below
\* itself, has an empty proof.
LEMMA HashLeavesKeeps ==
  ASSUME MerkleInv, HashLeaves
  PROVE  MerkleInv'
<1> DEFINE s == Entries(batch)
           n == Len(s)
<1>1. IsList(s) /\ n \in Nat /\ n >= 1 /\ DOMAIN s = 1..n
  BY EntriesOfBatch DEF HashLeaves
<1>2. /\ batch' = batch /\ index' = 1 /\ root' = None /\ next_level' = <<>>
      /\ building'
      /\ batch # {}
      /\ level' = [i \in 1..n |-> [hash |-> LeafHash(s[i]), leaves |-> {i}]]
      /\ proofs' = [i \in 1..n |-> <<>>]
  BY <1>1 DEF HashLeaves, MerkleInv
<1> HIDE DEF s, n
<1>3. s' = s
  BY <1>2 DEF s
<1>4. IsList(level') /\ Len(level') = n
  <2>1. DOMAIN level' = 1..n /\ level' = [i \in 1..n |-> level'[i]]
    BY <1>2
  <2> QED
    BY <1>1, <2>1, ListOf
<1>5. RowsInv(s, 0)'
  <2>1. Tree(s)[0] = [i \in 1..n |-> LeafHash(s[i])]
    BY <1>1, LeafAndAbove DEF n
  <2>2. DOMAIN Tree(s)[0] = 1..n /\ Tree(s)[0] = [i \in 1..n |-> Tree(s)[0][i]]
    BY <2>1
  <2>3. Len(Tree(s)[0]) = n
    BY <1>1, <2>2, ListOf
  <2>4. \A i \in 1..n : level'[i].hash = Tree(s)[0][i]
    BY <1>2, <2>1
  <2>5. There' = {}
    BY <1>2, EmptyList DEF There
  <2>6. 0..(0 - 1) = {}
    OBVIOUS
  <2> QED
    BY <1>1, <1>3, <1>4, <2>3, <2>4, <2>5, <2>6 DEF RowsInv, n
<1>6. LeavesInv(s)'
  <2>1. Here' = 1..n /\ There' = {}
    <3>1. Len(next_level') = 0 /\ Len(level') = n /\ index' = 1
      BY <1>2, <1>4, EmptyList
    <3> QED
      BY <3>1 DEF Here, There
  <2>2. ASSUME NEW i \in 1..n PROVE Resolve(LeafHash(s[i]), <<>>) = LeafHash(s[i])
    BY EmptyList, ResolveSteps
  <2>3. \A i \in 1..n : level'[i].leaves = {i} /\ level'[i].hash = LeafHash(s[i])
                        /\ proofs'[i] = <<>>
    BY <1>2
  <2>4. \A j \in Here' : NodeProved(s, level[j])'
    BY <1>1, <1>3, <2>1, <2>2, <2>3 DEF NodeProved
  <2> QED
    BY <1>1, <1>3, <2>1, <2>3, <2>4 DEF LeavesInv
<1>7. LoopInv(s)'
  <2>1. DOMAIN proofs' = DOMAIN s' /\ \A i \in DOMAIN s' : IsList(proofs'[i])
    BY <1>1, <1>2, <1>3, EmptyList
  <2>2. 0 \in 0..Len(s)'
    BY <1>1, <1>3 DEF n
  <2> QED
    BY <1>1, <1>2, <1>4, <1>5, <1>6, <2>1, <2>2, EmptyList DEF LoopInv
<1> QED
  BY <1>2, <1>7 DEF MerkleInv, s

\* The nodes of a loop that goes on.
LEMMA LoopFacts ==
  ASSUME MerkleInv, Len(level) >= 1
  PROVE  /\ building /\ batch # {} /\ LoopInv(Entries(batch))
         /\ Len(level) \in Nat /\ Len(next_level) \in Nat /\ index \in Nat
<1>1. building
  BY EmptyList DEF MerkleInv
<1>2. batch # {} /\ LoopInv(Entries(batch))
  BY <1>1 DEF MerkleInv
<1>3. Len(level) \in Nat /\ Len(next_level) \in Nat
  BY <1>2 DEF LoopInv, IsList
<1>4. index \in Nat
  BY <1>2, <1>3 DEF LoopInv
<1> QED
  BY <1>1, <1>2, <1>3, <1>4

\* A level of one node is the root.
LEMMA FinishKeeps ==
  ASSUME MerkleInv, Finish
  PROVE  MerkleInv'
<1>1. Len(level) >= 1
  BY DEF Finish
<1>2. building /\ batch # {} /\ LoopInv(Entries(batch))
  BY <1>1, LoopFacts
<1>4. \A h : RowsInv(Entries(batch), h)' <=> RowsInv(Entries(batch), h)
  BY DEF Finish, RowsInv, There
<1>5. LeavesInv(Entries(batch))' <=> LeavesInv(Entries(batch))
  <2>1. /\ level' = level /\ next_level' = next_level /\ index' = index
        /\ Entries(batch)' = Entries(batch)
    BY DEF Finish
  <2>2. Here' = Here /\ There' = There
    BY <2>1 DEF Here, There
  <2>3. \A n : NodeProved(Entries(batch), n)' <=> NodeProved(Entries(batch), n)
    BY DEF Finish, NodeProved
  <2> QED
    BY <2>1, <2>2, <2>3 DEF LeavesInv
<1>6. LoopInv(Entries(batch))'
  BY <1>2, <1>4, <1>5 DEF Finish, LoopInv
<1> QED
  BY <1>2, <1>6 DEF MerkleInv, Finish

\* When all of a level is paired, the next one is a row of the tree.
LEMMA NextLevelKeeps ==
  ASSUME MerkleInv, NextLevel
  PROVE  MerkleInv'
<1> DEFINE s == Entries(batch)
           n == Len(level)
           q == Len(next_level)
<1>1. /\ building /\ batch # {} /\ LoopInv(s)
      /\ n \in Nat /\ q \in Nat /\ index \in Nat /\ n > 1
  <2>1. Len(level) >= 1
    BY DEF NextLevel, MerkleInv, LoopInv, IsList
  <2> QED
    BY <2>1, LoopFacts DEF NextLevel
<1>2. /\ level' = next_level /\ next_level' = <<>> /\ index' = 1
      /\ batch' = batch /\ proofs' = proofs /\ root' = root /\ building' = building
      /\ index > n
  BY DEF NextLevel
<1>3. IsList(s) /\ Len(s) \in Nat /\ Len(s) >= 1
  BY <1>1, EntriesOfBatch
<1> HIDE DEF s
<1>4. s' = s
  BY <1>2 DEF s
<1>5. root = None
  <2>1. root # None => Len(level) = 1
    BY <1>1 DEF LoopInv
  <2>2. Len(level) \in Nat /\ Len(level) > 1
    BY <1>1
  <2>3. Len(level) # 1
    BY <2>2, MoreThanOne
  <2> QED
    BY <2>1, <2>3
<1>6. index = 2 * q + 1 /\ index <= n + 2
  BY <1>1 DEF LoopInv
<1>7. 2 * q = n \/ 2 * q = n + 1
  BY <1>1, <1>2, <1>6
<1>8. q = (n + 1) \div 2 /\ q >= 1 /\ q < n
  BY <1>1, <1>7
<1>9. PICK h \in 0..Len(s) : RowsInv(s, h)
  BY <1>1 DEF LoopInv
<1>10. h + 1 \in 1..Len(s) /\ h + 1 + q <= Len(s) /\ h \in Nat
  <2>1. h + n <= Len(s)
    BY <1>9 DEF RowsInv
  <2> HIDE DEF n, q
  <2> QED
    BY <1>1, <1>3, <1>8, <2>1
<1>11. /\ Tree(s)[h + 1] = Above(Tree(s)[h])
       /\ Len(Tree(s)[h + 1]) = q
  <2>1. h + 1 - 1 = h
    BY <1>10
  <2>2. Len(Tree(s)[h]) = n
    BY <1>9 DEF RowsInv
  <2> DEFINE k == h + 1
  <2>3. k \in 1..Len(s) /\ k - 1 = h
    BY <1>10, <2>1
  <2> HIDE DEF k
  <2>4. /\ Tree(s)[k] = Above(Tree(s)[k - 1])
        /\ Len(Tree(s)[k]) = (Len(Tree(s)[k - 1]) + 1) \div 2
    BY <1>3, <2>3, RowAbove
  <2>5. Tree(s)[k] = Above(Tree(s)[h]) /\ Len(Tree(s)[k]) = q
    BY <1>8, <2>2, <2>3, <2>4
  <2> QED
    BY <2>5 DEF k
<1>12. RowsInv(s, h + 1)'
  <2>1. There' = {}
    <3>1. Len(next_level') = 0
      BY <1>2, EmptyList
    <3> QED
      BY <3>1 DEF There
  <2>2. \A i \in 1..q : next_level[i].hash = Tree(s)[h + 1][i]
    BY <1>9, <1>11 DEF RowsInv, There
  <2>3. ASSUME NEW g \in 0..h PROVE Len(Tree(s)[g]) > 1
    <3>1. CASE g = h
      BY <1>1, <1>9, <3>1 DEF RowsInv
    <3>2. CASE g # h
      BY <1>9, <1>10, <3>2 DEF RowsInv
    <3> QED
      BY <3>1, <3>2
  <2>4. h + 1 - 1 = h
    BY <1>10
  <2> QED
    BY <1>2, <1>4, <1>10, <1>11, <2>1, <2>2, <2>3, <2>4 DEF RowsInv
<1>13. LeavesInv(s)'
  <2>1. Here = {} /\ There = 1..q
    BY <1>1, <1>2 DEF Here, There
  <2>2. Here' = 1..q /\ There' = {}
    <3>1. Len(next_level') = 0 /\ Len(level') = q /\ index' = 1
      BY <1>2, EmptyList
    <3> QED
      BY <3>1 DEF Here, There
  <2>3. LeavesInv(s)
    BY <1>1 DEF LoopInv
  <2>4. \A node : NodeProved(s, node)' <=> NodeProved(s, node)
    BY <1>2, <1>4 DEF NodeProved
  <2>5. \A j \in Here' : NodeProved(s, level[j])'
    BY <1>2, <2>1, <2>2, <2>3, <2>4 DEF LeavesInv
  <2>6. \A i, j \in Here' : i # j => level'[i].leaves \cap level'[j].leaves = {}
    BY <1>2, <2>1, <2>2, <2>3 DEF LeavesInv
  <2>7. \A i \in DOMAIN s : \E j \in Here' : i \in level'[j].leaves
    BY <1>2, <2>1, <2>2, <2>3 DEF LeavesInv
  <2> QED
    BY <1>4, <2>2, <2>5, <2>6, <2>7 DEF LeavesInv
<1>14. LoopInv(s)'
  <2>1. /\ IsList(level') /\ IsList(next_level')
        /\ Len(next_level') = 0 /\ Len(level') = q
    BY <1>1, <1>2, EmptyList DEF LoopInv
  <2>2. index' = 2 * Len(next_level') + 1 /\ index' <= Len(level') + 2
    BY <1>1, <1>2, <2>1
  <2>3. DOMAIN proofs' = DOMAIN s' /\ \A i \in DOMAIN s' : IsList(proofs'[i])
    BY <1>1, <1>2, <1>4 DEF LoopInv
  <2>4. h + 1 \in 0..Len(s)'
    BY <1>3, <1>4, <1>10
  <2> QED
    BY <1>2, <1>5, <1>8, <1>12, <1>13, <2>1, <2>2, <2>3, <2>4 DEF LoopInv
<1> QED
  BY <1>1, <1>2, <1>14 DEF MerkleInv, s

\* A step of the loop that puts one more node in the next level: the hash and
\* the leaves of the node, and what it takes from this level.
LEMMA OneMoreNode ==
  ASSUME MerkleInv, Len(level) > 1, index <= Len(level),
         UNCHANGED <<batch, building, level, root>>,
         index' = index + 2,
         NEW node, next_level' = Append(next_level, node),
         node.hash = ParentHash(level[index].hash,
                       level[IF index < Len(level) THEN index + 1 ELSE index].hash),
         LET s == Entries(batch)
         IN  /\ DOMAIN proofs' = DOMAIN s
             /\ \A i \in DOMAIN s : IsList(proofs'[i])
             /\ LeavesInv(s)'
  PROVE  MerkleInv'
<1> DEFINE s == Entries(batch)
           q == Len(next_level)
<1>1. /\ building /\ batch # {} /\ LoopInv(s)
      /\ Len(level) \in Nat /\ q \in Nat /\ index \in Nat
  BY LoopFacts
<1>2. /\ IsList(s) /\ Len(s) \in Nat /\ Len(s) >= 1
  BY <1>1, EntriesOfBatch
<1> HIDE DEF s
<1>3. s' = s
  BY DEF s
<1>4. /\ IsList(next_level') /\ Len(next_level') = q + 1
      /\ \A k \in 1..q : next_level'[k] = next_level[k]
      /\ next_level'[q + 1] = node
  BY <1>1, AppendList DEF LoopInv
<1>5. index = 2 * q + 1
  BY <1>1 DEF LoopInv
<1>6. index' = 2 * Len(next_level') + 1 /\ index' <= Len(level') + 2
  BY <1>1, <1>4, <1>5
<1>7. PICK h \in 0..Len(s) : RowsInv(s, h)
  BY <1>1 DEF LoopInv
<1>8. IsList(Tree(s)[h]) /\ Len(Tree(s)[h]) = Len(level)
  BY <1>2, <1>7, RowsAreLists DEF RowsInv
<1>9. Above(Tree(s)[h])[q + 1] = node.hash
  <2> DEFINE row == Tree(s)[h]
             twin == IF index < Len(level) THEN index + 1 ELSE index
  <2>1. /\ IsList(row) /\ Len(row) = Len(level)
        /\ \A i \in 1..Len(level) : level[i].hash = row[i]
    BY <1>7, <1>8 DEF RowsInv
  <2> HIDE DEF row
  <2>2. Len(Above(row)) = (Len(level) + 1) \div 2
    BY <2>1, AboveIs
  <2>3. q + 1 \in 1..Len(Above(row))
    <3> DEFINE b == (Len(level) + 1) \div 2
    <3>1. b \in Nat /\ (2 * b = Len(level) \/ 2 * b = Len(level) + 1)
      BY <1>1, Half
    <3> HIDE DEF b
    <3>2. q + 1 \in 1..b
      BY <1>1, <1>5, <3>1
    <3> QED
      BY <2>2, <3>2 DEF b
  <2>4. /\ 2 * (q + 1) - 1 = index
        /\ (IF 2 * (q + 1) <= Len(row) THEN 2 * (q + 1) ELSE 2 * (q + 1) - 1) = twin
    BY <1>1, <1>5, <2>1
  <2>5. Above(row)[q + 1] = ParentHash(row[index], row[twin])
    BY <2>1, <2>3, <2>4, AboveIs
  <2>6. index \in 1..Len(level) /\ twin \in 1..Len(level)
    BY <1>1, <1>5
  <2> QED
    BY <2>1, <2>5, <2>6 DEF row
<1>10. RowsInv(s, h)'
  <2>1. ASSUME NEW k \in There'
        PROVE  next_level'[k].hash = Above(Tree(s)[h])[k]
    <3>1. CASE k = q + 1
      BY <1>4, <1>9, <3>1
    <3>2. CASE k # q + 1
      <4>1. k \in 1..q
        BY <1>1, <1>4, <3>2 DEF There
      <4> QED
        BY <1>4, <1>7, <4>1 DEF RowsInv, There
    <3> QED
      BY <3>1, <3>2
  <2> QED
    BY <1>3, <1>7, <2>1 DEF RowsInv
<1>11. LoopInv(s)'
  <2>1. Len(level) # 1
    BY <1>1, MoreThanOne
  <2>2. /\ IsList(level) /\ Len(level) >= 1
        /\ root # None => Len(level) = 1 /\ root = level[1].hash
    BY <1>1 DEF LoopInv
  <2>3. /\ DOMAIN proofs' = DOMAIN s
        /\ \A i \in DOMAIN s : IsList(proofs'[i])
        /\ LeavesInv(s)'
    BY DEF s
  <2>4. h \in 0..Len(s)'
    BY <1>3
  <2> QED
    BY <1>3, <1>4, <1>6, <1>10, <2>1, <2>2, <2>3, <2>4 DEF LoopInv
<1> QED
  BY <1>1, <1>11 DEF MerkleInv, s

\* The leaves of one or two nodes of this level are those of the node they
\* are paired to; the others stay where they are.
LEMMA LeavesMoveUp ==
  ASSUME NEW s, LeavesInv(s), s' = s, level' = level,
         NEW taken, taken \subseteq Here,
         Here' = Here \ taken,
         NEW node, node.leaves = UNION {level[j].leaves : j \in taken},
         \A i \in node.leaves :
            /\ i \in DOMAIN s
            /\ Resolve(LeafHash(s[i]), proofs'[i]) = node.hash,
         \A i \in DOMAIN s : i \notin node.leaves => proofs'[i] = proofs[i],
         Len(next_level) \in Nat, Len(next_level') = Len(next_level) + 1,
         \A k \in There : next_level'[k] = next_level[k],
         next_level'[Len(next_level) + 1] = node
  PROVE  LeavesInv(s)'
<1> DEFINE q == Len(next_level)
<1>1. There = 1..q /\ There' = There \cup {q + 1} /\ q + 1 \notin There
  BY DEF There
<1>2. \A j \in Here' : j \in Here /\ j \notin taken
  OBVIOUS
<1> DEFINE ProvedNow(n) ==
             \A i \in n.leaves : /\ i \in DOMAIN s
                                 /\ Resolve(LeafHash(s[i]), proofs'[i]) = n.hash
<1>3. ASSUME NEW n, NodeProved(s, n), n.leaves \cap node.leaves = {}
      PROVE  ProvedNow(n)
  <2>1. ASSUME NEW i \in n.leaves
        PROVE  i \in DOMAIN s /\ Resolve(LeafHash(s[i]), proofs'[i]) = n.hash
    <3>1. i \in DOMAIN s /\ Resolve(LeafHash(s[i]), proofs[i]) = n.hash
      BY <1>3 DEF NodeProved
    <3>2. i \notin node.leaves
      BY <1>3
    <3> QED
      BY <3>1, <3>2
  <2> QED
    BY <2>1
<1>4. \A j \in Here' : level[j].leaves \cap node.leaves = {}
  <2> TAKE j \in Here'
  <2>1. j \in Here /\ \A k \in taken : k \in Here /\ k # j
    BY <1>2
  <2>2. \A k \in taken : level[j].leaves \cap level[k].leaves = {}
    BY <2>1 DEF LeavesInv
  <2> QED
    BY <2>2
<1>5. \A k \in There : next_level[k].leaves \cap node.leaves = {}
  <2> TAKE k \in There
  <2>1. \A j \in taken : level[j].leaves \cap next_level[k].leaves = {}
    BY DEF LeavesInv
  <2> QED
    BY <2>1
<1>6. \A j \in Here' : ProvedNow(level[j])
  <2> TAKE j \in Here'
  <2>1. NodeProved(s, level[j])
    BY <1>2 DEF LeavesInv
  <2>2. level[j].leaves \cap node.leaves = {}
    BY <1>4
  <2> HIDE DEF ProvedNow
  <2> QED
    BY <1>3, <2>1, <2>2
<1>7. \A k \in There : ProvedNow(next_level[k])
  <2> TAKE k \in There
  <2>1. NodeProved(s, next_level[k])
    BY DEF LeavesInv
  <2>2. next_level[k].leaves \cap node.leaves = {}
    BY <1>5
  <2> HIDE DEF ProvedNow
  <2> QED
    BY <1>3, <2>1, <2>2
<1>8. ProvedNow(node)
  OBVIOUS
<1>9. \A k \in There' : k = q + 1 \/ k \in There
  BY <1>1
<1>10. \A k \in There' : ProvedNow(next_level'[k])
  <2> HIDE DEF ProvedNow
  <2> QED
    BY <1>7, <1>8, <1>9
<1>11. \A j \in Here' : NodeProved(s, level[j])'
  BY <1>6 DEF NodeProved
<1>12. \A k \in There' : NodeProved(s, next_level[k])'
  BY <1>10 DEF NodeProved
<1>13. \A i, j \in Here' : i # j => level'[i].leaves \cap level'[j].leaves = {}
  BY <1>2 DEF LeavesInv
<1>14. \A k, l \in There' : k # l
                              => next_level'[k].leaves \cap next_level'[l].leaves = {}
  <2> TAKE k, l \in There'
  <2>1. k \in There /\ l \in There /\ k # l
          => next_level[k].leaves \cap next_level[l].leaves = {}
    BY DEF LeavesInv
  <2> QED
    BY <1>5, <1>9, <2>1
<1>15. \A j \in Here', k \in There' : level'[j].leaves \cap next_level'[k].leaves = {}
  <2> TAKE j \in Here', k \in There'
  <2>1. k \in There => level[j].leaves \cap next_level[k].leaves = {}
    BY <1>2 DEF LeavesInv
  <2> QED
    BY <1>4, <1>9, <2>1
<1>16. \A i \in DOMAIN s : \/ \E j \in Here' : i \in level'[j].leaves
                           \/ \E k \in There' : i \in next_level'[k].leaves
  <2> TAKE i \in DOMAIN s
  <2>1. \/ \E j \in Here : i \in level[j].leaves
        \/ \E k \in There : i \in next_level[k].leaves
    BY DEF LeavesInv
  <2>2. CASE \E k \in There : i \in next_level[k].leaves
    <3>1. PICK k \in There : i \in next_level[k].leaves
      BY <2>2
    <3>2. k \in There' /\ next_level'[k] = next_level[k]
      BY <1>1
    <3> QED
      BY <3>1, <3>2
  <2>3. CASE \E j \in Here : i \in level[j].leaves
    <3>1. PICK j \in Here : i \in level[j].leaves
      BY <2>3
    <3>2. CASE j \in Here'
      BY <3>1, <3>2
    <3>3. CASE j \in taken
      <4>1. i \in node.leaves
        BY <3>1, <3>3
      <4>2. q + 1 \in There'
        BY <1>1
      <4> QED
        BY <4>1, <4>2
    <3> QED
      BY <3>2, <3>3
  <2> QED
    BY <2>1, <2>2, <2>3
<1> QED
  BY <1>11, <1>12, <1>13, <1>14, <1>15, <1>16 DEF LeavesInv

\* Every leaf below two nodes side by side gets the other as its sibling.
LEMMA PairUpKeeps ==
  ASSUME MerkleInv, PairUp
  PROVE  MerkleInv'
<1> DEFINE s == Entries(batch)
           q == Len(next_level)
           left == level[index]
           right == level[index + 1]
           node == [hash |-> ParentHash(left.hash, right.hash),
                    leaves |-> left.leaves \cup right.leaves]
<1>1. /\ building /\ batch # {} /\ LoopInv(s)
      /\ Len(level) \in Nat /\ q \in Nat /\ index \in Nat
  <2>1. Len(level) >= 1
    BY DEF PairUp, MerkleInv, LoopInv, IsList
  <2> QED
    BY <2>1, LoopFacts
<1>2. /\ UNCHANGED <<batch, building, level, root>>
      /\ index' = index + 2
      /\ next_level' = Append(next_level, node)
      /\ Len(level) > 1 /\ index < Len(level)
  BY DEF PairUp
<1>3. proofs' = [i \in DOMAIN proofs |->
                   CASE i \in left.leaves -> Append(proofs[i], OnRight(right.hash))
                     [] i \in right.leaves -> Append(proofs[i], OnLeft(left.hash))
                     [] OTHER -> proofs[i]]
  BY DEF PairUp
<1>4. /\ node.hash = ParentHash(left.hash, right.hash)
      /\ node.leaves = left.leaves \cup right.leaves
  OBVIOUS
<1> HIDE DEF s, node
<1>5. s' = s
  BY <1>2 DEF s
<1>6. /\ Here = index..Len(level) /\ There = 1..q
      /\ index \in Here /\ index + 1 \in Here /\ index # index + 1
  BY <1>1, <1>2 DEF Here, There
<1>7. LeavesInv(s)
  BY <1>1 DEF LoopInv
<1>8. left.leaves \cap right.leaves = {}
  BY <1>6, <1>7 DEF LeavesInv
<1>9. DOMAIN proofs' = DOMAIN s /\ DOMAIN proofs = DOMAIN s
  BY <1>1, <1>3 DEF LoopInv
<1>10. ASSUME NEW i \in left.leaves
       PROVE  /\ i \in DOMAIN s /\ IsList(proofs'[i])
              /\ Resolve(LeafHash(s[i]), proofs'[i]) = node.hash
  <2>1. i \in DOMAIN s /\ Resolve(LeafHash(s[i]), proofs[i]) = left.hash
    BY <1>6, <1>7, <1>10 DEF LeavesInv, NodeProved
  <2>2. proofs'[i] = Append(proofs[i], OnRight(right.hash))
    BY <1>3, <1>8, <1>9, <1>10, <2>1
  <2>3. IsList(proofs[i])
    BY <1>1, <2>1 DEF LoopInv
  <2>4. /\ IsList(proofs'[i])
        /\ Resolve(LeafHash(s[i]), proofs'[i])
             = Climb(Resolve(LeafHash(s[i]), proofs[i]), OnRight(right.hash))
    BY <2>2, <2>3, ResolveAppend
  <2>5. Climb(left.hash, OnRight(right.hash)) = ParentHash(left.hash, right.hash)
    BY DEF Climb, OnRight
  <2> QED
    BY <1>4, <2>1, <2>4, <2>5
<1>11. ASSUME NEW i \in right.leaves
       PROVE  /\ i \in DOMAIN s /\ IsList(proofs'[i])
              /\ Resolve(LeafHash(s[i]), proofs'[i]) = node.hash
  <2>1. i \in DOMAIN s /\ Resolve(LeafHash(s[i]), proofs[i]) = right.hash
    BY <1>6, <1>7, <1>11 DEF LeavesInv, NodeProved
  <2>2. proofs'[i] = Append(proofs[i], OnLeft(left.hash))
    BY <1>3, <1>8, <1>9, <1>11, <2>1
  <2>3. IsList(proofs[i])
    BY <1>1, <2>1 DEF LoopInv
  <2>4. /\ IsList(proofs'[i])
        /\ Resolve(LeafHash(s[i]), proofs'[i])
             = Climb(Resolve(LeafHash(s[i]), proofs[i]), OnLeft(left.hash))
    BY <2>2, <2>3, ResolveAppend
  <2>5. Climb(right.hash, OnLeft(left.hash)) = ParentHash(left.hash, right.hash)
    BY DEF Climb, OnLeft
  <2> QED
    BY <1>4, <2>1, <2>4, <2>5
<1>12. \A i \in DOMAIN s : i \notin left.leaves /\ i \notin right.leaves
                              => proofs'[i] = proofs[i]
  BY <1>3, <1>9
<1>13. \A i \in DOMAIN s : IsList(proofs'[i])
  <2> TAKE i \in DOMAIN s
  <2>1. IsList(proofs[i])
    BY <1>1 DEF LoopInv
  <2> QED
    BY <1>10, <1>11, <1>12, <2>1
<1> DEFINE taken == {index, index + 1}
<1>14. Here' = Here \ taken /\ taken \subseteq Here
  <2>1. Here' = (index + 2)..Len(level)
    BY <1>2 DEF Here
  <2> QED
    BY <1>1, <1>2, <1>6, <2>1
<1>15. /\ IsList(next_level') /\ Len(next_level') = q + 1
       /\ \A k \in 1..q : next_level'[k] = next_level[k]
       /\ next_level'[q + 1] = node
  BY <1>1, <1>2, AppendList DEF LoopInv
<1>16. LeavesInv(s)'
  <2>1. node.leaves = UNION {level[j].leaves : j \in taken}
    BY <1>4
  <2>2. /\ \A i \in node.leaves :
             i \in DOMAIN s /\ Resolve(LeafHash(s[i]), proofs'[i]) = node.hash
        /\ \A i \in DOMAIN s : i \notin node.leaves => proofs'[i] = proofs[i]
    BY <1>4, <1>10, <1>11, <1>12
  <2>3. /\ \A k \in There : next_level'[k] = next_level[k]
        /\ next_level'[Len(next_level) + 1] = node
        /\ Len(next_level) \in Nat /\ Len(next_level') = Len(next_level) + 1
    BY <1>1, <1>6, <1>15
  <2>4. level' = level
    BY <1>2
  <2> HIDE DEF taken
  <2> QED
    BY <1>5, <1>7, <1>14, <2>1, <2>2, <2>3, <2>4, LeavesMoveUp
<1>17. level[IF index < Len(level) THEN index + 1 ELSE index] = right
  BY <1>2
<1>18. index <= Len(level)
  BY <1>1, <1>2
<1>19. node.hash = ParentHash(level[index].hash,
                     level[IF index < Len(level) THEN index + 1 ELSE index].hash)
  BY <1>4, <1>17
<1> HIDE DEF left, right, q
<1> QED
  BY <1>2, <1>9, <1>13, <1>16, <1>18, <1>19, OneMoreNode DEF s

\* Every leaf below an odd last node gets the node itself as its sibling.
LEMMA PairOddKeeps ==
  ASSUME MerkleInv, PairOdd
  PROVE  MerkleInv'
<1> DEFINE s == Entries(batch)
           q == Len(next_level)
           left == level[index]
           node == [hash |-> ParentHash(left.hash, left.hash),
                    leaves |-> left.leaves]
<1>1. /\ building /\ batch # {} /\ LoopInv(s)
      /\ Len(level) \in Nat /\ q \in Nat /\ index \in Nat
  <2>1. Len(level) >= 1
    BY DEF PairOdd, MerkleInv, LoopInv, IsList
  <2> QED
    BY <2>1, LoopFacts
<1>2. /\ UNCHANGED <<batch, building, level, root>>
      /\ index' = index + 2
      /\ next_level' = Append(next_level, node)
      /\ Len(level) > 1 /\ index = Len(level)
  BY DEF PairOdd
<1>3. proofs' = [i \in DOMAIN proofs |->
                   IF i \in left.leaves THEN Append(proofs[i], OnRight(left.hash))
                                        ELSE proofs[i]]
  BY DEF PairOdd
<1>4. /\ node.hash = ParentHash(left.hash, left.hash)
      /\ node.leaves = left.leaves
  OBVIOUS
<1> HIDE DEF s, node
<1>5. s' = s
  BY <1>2 DEF s
<1>6. /\ Here = index..Len(level) /\ There = 1..q
      /\ index \in Here
  BY <1>1, <1>2 DEF Here, There
<1>7. LeavesInv(s)
  BY <1>1 DEF LoopInv
<1>9. DOMAIN proofs' = DOMAIN s /\ DOMAIN proofs = DOMAIN s
  BY <1>1, <1>3 DEF LoopInv
<1>10. ASSUME NEW i \in left.leaves
       PROVE  /\ i \in DOMAIN s /\ IsList(proofs'[i])
              /\ Resolve(LeafHash(s[i]), proofs'[i]) = node.hash
  <2>1. i \in DOMAIN s /\ Resolve(LeafHash(s[i]), proofs[i]) = left.hash
    BY <1>6, <1>7, <1>10 DEF LeavesInv, NodeProved
  <2>2. proofs'[i] = Append(proofs[i], OnRight(left.hash))
    BY <1>3, <1>9, <1>10, <2>1
  <2>3. IsList(proofs[i])
    BY <1>1, <2>1 DEF LoopInv
  <2>4. /\ IsList(proofs'[i])
        /\ Resolve(LeafHash(s[i]), proofs'[i])
             = Climb(Resolve(LeafHash(s[i]), proofs[i]), OnRight(left.hash))
    BY <2>2, <2>3, ResolveAppend
  <2>5. Climb(left.hash, OnRight(left.hash)) = ParentHash(left.hash, left.hash)
    BY DEF Climb, OnRight
  <2> QED
    BY <1>4, <2>1, <2>4, <2>5
<1>12. \A i \in DOMAIN s : i \notin left.leaves => proofs'[i] = proofs[i]
  BY <1>3, <1>9
<1>13. \A i \in DOMAIN s : IsList(proofs'[i])
  <2> TAKE i \in DOMAIN s
  <2>1. IsList(proofs[i])
    BY <1>1 DEF LoopInv
  <2> QED
    BY <1>10, <1>12, <2>1
<1> DEFINE taken == {index}
<1>14. Here' = Here \ taken /\ taken \subseteq Here
  <2>1. Here' = (index + 2)..Len(level)
    BY <1>2 DEF Here
  <2> QED
    BY <1>1, <1>2, <1>6, <2>1
<1>15. /\ IsList(next_level') /\ Len(next_level') = q + 1
       /\ \A k \in 1..q : next_level'[k] = next_level[k]
       /\ next_level'[q + 1] = node
  BY <1>1, <1>2, AppendList DEF LoopInv
<1>16. LeavesInv(s)'
  <2>1. node.leaves = UNION {level[j].leaves : j \in taken}
    BY <1>4
  <2>2. /\ \A i \in node.leaves :
             i \in DOMAIN s /\ Resolve(LeafHash(s[i]), proofs'[i]) = node.hash
        /\ \A i \in DOMAIN s : i \notin node.leaves => proofs'[i] = proofs[i]
    BY <1>4, <1>10, <1>12
  <2>3. /\ \A k \in There : next_level'[k] = next_level[k]
        /\ next_level'[Len(next_level) + 1] = node
        /\ Len(next_level) \in Nat /\ Len(next_level') = Len(next_level) + 1
    BY <1>1, <1>6, <1>15
  <2>4. level' = level
    BY <1>2
  <2> HIDE DEF taken
  <2> QED
    BY <1>5, <1>7, <1>14, <2>1, <2>2, <2>3, <2>4, LeavesMoveUp
<1>17. (IF index < Len(level) THEN index + 1 ELSE index) = index
  BY <1>1, <1>2
<1>18. index <= Len(level)
  BY <1>1, <1>2
<1>19. node.hash = ParentHash(level[index].hash,
                     level[IF index < Len(level) THEN index + 1 ELSE index].hash)
  BY <1>4, <1>17
<1> HIDE DEF left, q
<1> QED
  BY <1>2, <1>9, <1>13, <1>16, <1>18, <1>19, OneMoreNode DEF s

\* Every step of the loop keeps the invariant.
LEMMA MerkleInvStep ==
  ASSUME MerkleInv, [MerkleNext]_merkleVars
  PROVE  MerkleInv'
<1>1. ASSUME NEW e \in Entry, AddRuleSet(e) PROVE MerkleInv'
  BY <1>1, AddRuleSetKeeps
<1>2. CASE HashLeaves
  BY <1>2, HashLeavesKeeps
<1>3. CASE PairUp
  BY <1>3, PairUpKeeps
<1>4. CASE PairOdd
  BY <1>4, PairOddKeeps
<1>5. CASE NextLevel
  BY <1>5, NextLevelKeeps
<1>6. CASE Finish
  BY <1>6, FinishKeeps
<1>7. CASE UNCHANGED merkleVars
  <2>1. /\ batch' = batch /\ building' = building /\ level' = level
        /\ next_level' = next_level /\ index' = index /\ proofs' = proofs
        /\ root' = root
    BY <1>7 DEF merkleVars
  <2>2. \A s, h : RowsInv(s, h)' <=> RowsInv(s, h)
    BY <2>1 DEF RowsInv, There
  <2>3. \A s, n : NodeProved(s, n)' <=> NodeProved(s, n)
    BY <2>1 DEF NodeProved
  <2>4. Here' = Here /\ There' = There
    BY <2>1 DEF Here, There
  <2>5. \A s : LeavesInv(s)' <=> LeavesInv(s)
    BY <2>1, <2>3, <2>4 DEF LeavesInv
  <2>6. \A s : LoopInv(s)' <=> LoopInv(s)
    BY <2>1, <2>2, <2>5 DEF LoopInv
  <2> QED
    BY <2>1, <2>6 DEF MerkleInv
<1> QED
  BY <1>1, <1>2, <1>3, <1>4, <1>5, <1>6, <1>7 DEF MerkleNext

\* The loop of build_rule_anchor_batch keeps its invariant: the level is a row of
\* the tree, and the proof of each leaf resolves to the one node it is below.
THEOREM MerkleInvariant == MerkleSpec => []MerkleInv
<1>1. ASSUME MerkleInit(FALSE) PROVE MerkleInv
  BY <1>1, FS_EmptySet DEF MerkleInit, MerkleInv
<1> QED
  BY <1>1, MerkleInvStep, PTL DEF MerkleSpec

-----------------------------------------------------------------------------
(* The bookkeeping of the loop.                                            *)

\* The leaves of this level have climbed d levels, those of the next one more.
Climbed(d) ==
  /\ \A j \in Here : \A i \in level[j].leaves : Done(i) = d
  /\ \A k \in There : \A i \in next_level[k].leaves : Done(i) = d + 1

\* No proof is there before its leaf, no level is longer than the batch, and
\* the leaves climb together.
ClimbInv ==
  /\ ~building => proofs = <<>>
  /\ building => /\ Len(level) <= Cardinality(batch)
                 /\ \E d \in Nat : Climbed(d)

\* What a step of the loop starts from.
LEMMA ClimbFacts ==
  ASSUME MerkleInv, ClimbInv, Len(level) >= 1
  PROVE  /\ building /\ LeavesInv(Entries(batch)) /\ IsList(next_level)
         /\ DOMAIN proofs = DOMAIN Entries(batch)
         /\ \A i \in DOMAIN proofs : IsList(proofs[i])
         /\ \A j \in Here : level[j].leaves \subseteq DOMAIN proofs
         /\ \A k \in There : next_level[k].leaves \subseteq DOMAIN proofs
         /\ Len(level) \in Nat /\ Len(next_level) \in Nat /\ index \in Nat
         /\ index = 2 * Len(next_level) + 1
         /\ index <= Len(level) + 2
         /\ Len(level) <= Cardinality(batch)
         /\ \E d \in Nat : Climbed(d)
<1>1. /\ building /\ LoopInv(Entries(batch))
      /\ Len(level) \in Nat /\ Len(next_level) \in Nat /\ index \in Nat
  BY LoopFacts
<1>2. LeavesInv(Entries(batch)) /\ DOMAIN proofs = DOMAIN Entries(batch)
  BY <1>1 DEF LoopInv
<1>3. /\ \A j \in Here : level[j].leaves \subseteq DOMAIN proofs
      /\ \A k \in There : next_level[k].leaves \subseteq DOMAIN proofs
  BY <1>2 DEF LeavesInv, NodeProved
<1> QED
  BY <1>1, <1>2, <1>3 DEF LoopInv, ClimbInv

\* The proofs of the leaves below the nodes taken grow by one; the others stay.
LEMMA TakenClimb ==
  ASSUME MerkleInv, ClimbInv, Len(level) >= 1,
         NEW taken, taken \subseteq Here, Here' = Here \ taken,
         UNCHANGED <<batch, building, level>>,
         NEW node, node.leaves = UNION {level[j].leaves : j \in taken},
         next_level' = Append(next_level, node),
         \A i \in node.leaves : \E x : proofs'[i] = Append(proofs[i], x),
         \A i \in DOMAIN proofs : i \notin node.leaves => proofs'[i] = proofs[i]
  PROVE  ClimbInv'
<1> DEFINE q == Len(next_level)
<1>1. /\ building /\ LeavesInv(Entries(batch)) /\ IsList(next_level)
      /\ \A i \in DOMAIN proofs : IsList(proofs[i])
      /\ \A j \in Here : level[j].leaves \subseteq DOMAIN proofs
      /\ \A k \in There : next_level[k].leaves \subseteq DOMAIN proofs
      /\ q \in Nat /\ Len(level) <= Cardinality(batch)
  BY ClimbFacts
<1>2. PICK d \in Nat : Climbed(d)
  BY ClimbFacts
<1>3. /\ Len(next_level') = q + 1 /\ next_level'[q + 1] = node
      /\ \A k \in 1..q : next_level'[k] = next_level[k]
  BY <1>1, AppendList
<1>4. /\ \A j \in Here' : level[j].leaves \cap node.leaves = {}
      /\ \A k \in There : next_level[k].leaves \cap node.leaves = {}
  <2>1. ASSUME NEW j \in Here', NEW i \in level[j].leaves, i \in node.leaves
        PROVE  FALSE
    <3>1. PICK t \in taken : i \in level[t].leaves
      BY <2>1
    <3>2. j \in Here /\ t \in Here /\ j # t
      BY <2>1, <3>1
    <3> QED
      BY <1>1, <2>1, <3>1, <3>2 DEF LeavesInv
  <2>2. ASSUME NEW k \in There, NEW i \in next_level[k].leaves, i \in node.leaves
        PROVE  FALSE
    <3>1. PICK t \in taken : i \in level[t].leaves
      BY <2>2
    <3> QED
      BY <1>1, <2>2, <3>1 DEF LeavesInv
  <2> QED
    BY <2>1, <2>2
<1>5. ASSUME NEW j \in Here', NEW i \in level[j].leaves
      PROVE  Len(proofs'[i]) = d
  <2>1. i \in DOMAIN proofs /\ i \notin node.leaves /\ Len(proofs[i]) = d
    BY <1>1, <1>2, <1>4, <1>5 DEF Climbed, Done
  <2> QED
    BY <2>1
<1>6. ASSUME NEW k \in There, NEW i \in next_level[k].leaves
      PROVE  Len(proofs'[i]) = d + 1
  <2>1. i \in DOMAIN proofs /\ i \notin node.leaves /\ Len(proofs[i]) = d + 1
    BY <1>1, <1>2, <1>4, <1>6 DEF Climbed, Done
  <2> QED
    BY <2>1
<1>7. ASSUME NEW i \in node.leaves
      PROVE  Len(proofs'[i]) = d + 1
  <2>1. PICK t \in taken : i \in level[t].leaves
    BY <1>7
  <2>2. i \in DOMAIN proofs /\ IsList(proofs[i]) /\ Len(proofs[i]) = d
    BY <1>1, <1>2, <2>1 DEF Climbed, Done
  <2>3. PICK x : proofs'[i] = Append(proofs[i], x)
    BY <1>7
  <2> QED
    BY <2>2, <2>3, AppendList
<1>8. \A k \in There' : k = q + 1 \/ (k \in There /\ next_level'[k] = next_level[k])
  <2>1. There = 1..q /\ There' = 1..(q + 1)
    BY <1>3 DEF There
  <2>2. \A k \in 1..(q + 1) : k = q + 1 \/ k \in 1..q
    BY <1>1
  <2> QED
    BY <1>3, <2>1, <2>2
<1>9. Climbed(d)'
  BY <1>3, <1>5, <1>6, <1>7, <1>8 DEF Climbed, Done
<1> QED
  BY <1>1, <1>2, <1>9 DEF ClimbInv

LEMMA ClimbStep ==
  ASSUME MerkleInv, ClimbInv, [MerkleNext]_merkleVars
  PROVE  ClimbInv'
<1>1. ASSUME NEW e \in Entry, AddRuleSet(e) PROVE ClimbInv'
  BY <1>1 DEF AddRuleSet, ClimbInv
<1>2. CASE HashLeaves
  <2> DEFINE s == Entries(batch)
             n == Len(s)
  <2>1. n \in Nat /\ DOMAIN s = 1..n /\ n = Cardinality(batch)
    BY <1>2, EntriesOfBatch, EntriesAreSorted DEF HashLeaves, MerkleInv
  <2>2. /\ building' /\ batch' = batch /\ index' = 1 /\ next_level' = <<>>
        /\ level' = [i \in 1..n |-> [hash |-> LeafHash(s[i]), leaves |-> {i}]]
        /\ proofs' = [i \in 1..n |-> <<>>]
    BY <1>2, <2>1 DEF HashLeaves, MerkleInv
  <2> HIDE DEF s, n
  <2>3. Len(level') = n
    BY <2>1, <2>2
  <2>4. Here' = 1..n /\ There' = {}
    <3>1. Len(next_level') = 0 /\ Len(level') = n /\ index' = 1
      BY <2>2, <2>3, EmptyList
    <3> QED
      BY <3>1 DEF Here, There
  <2>5. \A i \in 1..n : level'[i].leaves = {i} /\ Len(proofs'[i]) = 0
    BY <2>2, EmptyList
  <2>6. Climbed(0)'
    BY <2>4, <2>5 DEF Climbed, Done
  <2> QED
    BY <2>1, <2>2, <2>3, <2>6 DEF ClimbInv
<1>3. CASE PairUp
  <2> DEFINE left == level[index]
             right == level[index + 1]
             node == [hash |-> ParentHash(left.hash, right.hash),
                      leaves |-> left.leaves \cup right.leaves]
             taken == {index, index + 1}
  <2>1. /\ Len(level) > 1 /\ index < Len(level) /\ index' = index + 2
        /\ next_level' = Append(next_level, node)
        /\ UNCHANGED <<batch, building, level>>
        /\ proofs' = [i \in DOMAIN proofs |->
                        CASE i \in left.leaves -> Append(proofs[i], OnRight(right.hash))
                          [] i \in right.leaves -> Append(proofs[i], OnLeft(left.hash))
                          [] OTHER -> proofs[i]]
    BY <1>3 DEF PairUp
  <2>2. Len(level) \in Nat /\ index \in Nat /\ Len(level) >= 1
    <3>1. Len(level) >= 1
      BY <2>1 DEF MerkleInv, LoopInv, IsList
    <3> QED
      BY <3>1, ClimbFacts
  <2>3. taken \subseteq Here /\ Here' = Here \ taken
    BY <2>1, <2>2 DEF Here
  <2>4. node.leaves = UNION {level[j].leaves : j \in taken}
    OBVIOUS
  <2>5. left.leaves \cup right.leaves \subseteq DOMAIN proofs
    BY <2>2, <2>3, ClimbFacts
  <2>6. left.leaves \cap right.leaves = {}
    <3>1. index \in Here /\ index + 1 \in Here /\ index # index + 1
      BY <2>2, <2>3
    <3>2. LeavesInv(Entries(batch))
      BY <2>2, ClimbFacts
    <3> QED
      BY <3>1, <3>2 DEF LeavesInv
  <2>7. /\ \A i \in node.leaves : \E x : proofs'[i] = Append(proofs[i], x)
        /\ \A i \in DOMAIN proofs : i \notin node.leaves => proofs'[i] = proofs[i]
    <3>1. \A i \in DOMAIN proofs :
             /\ i \in left.leaves => proofs'[i] = Append(proofs[i], OnRight(right.hash))
             /\ i \notin left.leaves /\ i \in right.leaves
                  => proofs'[i] = Append(proofs[i], OnLeft(left.hash))
             /\ i \notin left.leaves /\ i \notin right.leaves
                  => proofs'[i] = proofs[i]
      <4> TAKE i \in DOMAIN proofs
      <4> HIDE DEF node, left, right
      <4>1. proofs'[i] = CASE i \in left.leaves -> Append(proofs[i], OnRight(right.hash))
                           [] i \in right.leaves -> Append(proofs[i], OnLeft(left.hash))
                           [] OTHER -> proofs[i]
        BY <2>1
      <4>2. CASE i \in left.leaves
        <5>1. i \notin right.leaves
          BY <2>6, <4>2
        <5> QED
          BY <4>1, <4>2, <5>1
      <4>3. CASE i \notin left.leaves
        BY <4>1, <4>3
      <4> QED
        BY <4>2, <4>3
    <3>2. node.leaves = left.leaves \cup right.leaves
      OBVIOUS
    <3> HIDE DEF node, left, right
    <3> QED
      BY <2>5, <3>1, <3>2
  <2> HIDE DEF node, taken
  <2> QED
    BY <2>1, <2>2, <2>3, <2>4, <2>7, TakenClimb
<1>4. CASE PairOdd
  <2> DEFINE left == level[index]
             node == [hash |-> ParentHash(left.hash, left.hash),
                      leaves |-> left.leaves]
             taken == {index}
  <2>1. /\ Len(level) > 1 /\ index = Len(level) /\ index' = index + 2
        /\ next_level' = Append(next_level, node)
        /\ UNCHANGED <<batch, building, level>>
        /\ proofs' = [i \in DOMAIN proofs |->
                        IF i \in left.leaves THEN Append(proofs[i], OnRight(left.hash))
                                             ELSE proofs[i]]
    BY <1>4 DEF PairOdd
  <2>2. Len(level) \in Nat /\ index \in Nat /\ Len(level) >= 1
    <3>1. Len(level) >= 1
      BY <2>1 DEF MerkleInv, LoopInv, IsList
    <3> QED
      BY <3>1, ClimbFacts
  <2>3. taken \subseteq Here /\ Here' = Here \ taken
    BY <2>1, <2>2 DEF Here
  <2>4. node.leaves = UNION {level[j].leaves : j \in taken}
    OBVIOUS
  <2>5. left.leaves \subseteq DOMAIN proofs
    BY <2>2, <2>3, ClimbFacts
  <2>6. /\ \A i \in node.leaves : \E x : proofs'[i] = Append(proofs[i], x)
        /\ \A i \in DOMAIN proofs : i \notin node.leaves => proofs'[i] = proofs[i]
    BY <2>1, <2>5
  <2> HIDE DEF node, taken
  <2> QED
    BY <2>1, <2>2, <2>3, <2>4, <2>6, TakenClimb
<1>5. CASE NextLevel
  <2> DEFINE n == Len(level)
             q == Len(next_level)
  <2>1. /\ n > 1 /\ index > n
        /\ level' = next_level /\ next_level' = <<>> /\ index' = 1
        /\ UNCHANGED <<batch, building, proofs>>
    BY <1>5 DEF NextLevel
  <2>2. n >= 1
    BY <2>1 DEF MerkleInv, LoopInv, IsList
  <2>3. /\ building /\ n \in Nat /\ q \in Nat /\ index = 2 * q + 1 /\ index <= n + 2
        /\ n <= Cardinality(batch)
    BY <2>2, ClimbFacts
  <2>4. PICK d \in Nat : Climbed(d)
    BY <2>2, ClimbFacts
  <2>5. q <= Cardinality(batch)
    <3>1. Cardinality(batch) \in Nat
      BY FS_CardinalityType DEF MerkleInv
    <3> QED
      BY <2>1, <2>3, <3>1
  <2>6. Here' = There /\ There' = {}
    BY <2>1, EmptyList DEF Here, There
  <2>7. Climbed(d + 1)'
    BY <2>1, <2>4, <2>6 DEF Climbed, Done
  <2> QED
    BY <2>1, <2>3, <2>4, <2>5, <2>7 DEF ClimbInv
<1>6. CASE Finish \/ UNCHANGED merkleVars
  <2>1. UNCHANGED <<batch, building, level, next_level, index, proofs>>
    BY <1>6 DEF Finish, merkleVars
  <2>2. Here' = Here /\ There' = There
    BY <2>1 DEF Here, There
  <2>3. \A d : Climbed(d)' <=> Climbed(d)
    BY <2>1, <2>2 DEF Climbed, Done
  <2> QED
    BY <2>1, <2>3 DEF ClimbInv
<1> QED
  BY <1>1, <1>2, <1>3, <1>4, <1>5, <1>6 DEF MerkleNext

\* The nodes that wait, one after another: the next level, then the rest of this.
LEMMA PendingIs ==
  ASSUME IsList(level), IsList(next_level), index \in Nat \ {0},
         index <= Len(level) + 2
  PROVE  /\ DOMAIN Pending \subseteq Nat
         /\ There \subseteq DOMAIN Pending
         /\ \A k \in There : Pending[k] = next_level[k]
         /\ \A n \in DOMAIN Pending : n \notin There =>
               /\ n - Len(next_level) + index - 1 \in Here
               /\ Pending[n] = level[n - Len(next_level) + index - 1]
         /\ \A j \in Here : /\ j - index + 1 + Len(next_level) \in DOMAIN Pending \ There
                            /\ Pending[j - index + 1 + Len(next_level)] = level[j]
<1> DEFINE q == Len(next_level)
           t == SubSeq(level, index, Len(level))
<1>1. /\ IsList(t)
      /\ Len(t) = IF index <= Len(level) THEN Len(level) - index + 1 ELSE 0
      /\ \A k \in 1..Len(t) : t[k] = level[index + k - 1] /\ index + k - 1 \in Here
  BY RestOfList DEF Here
<1>2. q \in Nat /\ Len(level) \in Nat /\ Len(t) \in Nat
  BY <1>1 DEF IsList
<1>3. Pending = next_level \o t
  BY DEF Pending
<1> HIDE DEF t
<1>4. /\ DOMAIN Pending = 1..(q + Len(t))
      /\ \A i \in 1..q : Pending[i] = next_level[i]
      /\ \A i \in 1..Len(t) : Pending[q + i] = t[i]
  BY <1>3, ConcatList DEF IsList
<1>5. There = 1..q
  BY DEF There
<1>6. ASSUME NEW n \in DOMAIN Pending, n \notin There
      PROVE  /\ n - q + index - 1 \in Here
             /\ Pending[n] = level[n - q + index - 1]
  <2> DEFINE i == n - q
  <2>1. i \in 1..Len(t) /\ n = q + i /\ n - q + index - 1 = index + i - 1
    BY <1>2, <1>4, <1>5, <1>6
  <2> HIDE DEF i
  <2>2. t[i] = level[index + i - 1] /\ index + i - 1 \in Here
    BY <1>1, <2>1
  <2>3. Pending[q + i] = t[i]
    BY <1>4, <2>1
  <2> QED
    BY <2>1, <2>2, <2>3
<1>7. ASSUME NEW j \in Here
      PROVE  /\ j - index + 1 + q \in DOMAIN Pending \ There
             /\ Pending[j - index + 1 + q] = level[j]
  <2> DEFINE i == j - index + 1
  <2>1. /\ j \in Int /\ index <= j /\ j <= Len(level)
    BY <1>2, <1>7 DEF Here
  <2>2. i \in 1..Len(t) /\ index + i - 1 = j /\ j - index + 1 + q = q + i
    BY <1>1, <1>2, <2>1
  <2>3. q + i \in DOMAIN Pending /\ q + i \notin There
    BY <1>2, <1>4, <1>5, <2>2
  <2> QED
    BY <1>1, <1>4, <2>2, <2>3
<1> QED
  BY <1>2, <1>4, <1>5, <1>6, <1>7

\* The types of the loop: every leaf is below exactly one node that waits, and
\* the leaves below one node have climbed alike.  (_merkle_root_and_proofs.)
THEOREM MerkleTypes == MerkleSpec => []MerkleTypeOK
<1>1. ASSUME MerkleInit(FALSE) PROVE MerkleInv /\ ClimbInv
  BY <1>1, FS_EmptySet DEF MerkleInit, MerkleInv, ClimbInv
<1>2. ASSUME MerkleInv, ClimbInv, ~building
      PROVE  MerkleTypeOK
  <2>1. Cardinality(batch) \in Nat
    BY <1>2, FS_CardinalityType DEF MerkleInv
  <2>2. index = 1 /\ DOMAIN proofs = {}
    BY <1>2 DEF MerkleInv, ClimbInv
  <2> QED
    BY <1>2, <2>1, <2>2 DEF MerkleTypeOK, MerkleInv
<1>3. ASSUME MerkleInv, ClimbInv, building
      PROVE  MerkleTypeOK
  <2> DEFINE s == Entries(batch)
  <2>1. Len(level) >= 1 /\ batch # {} /\ IsList(level)
    BY <1>3 DEF MerkleInv, LoopInv
  <2>2. /\ LeavesInv(s) /\ IsList(next_level) /\ DOMAIN proofs = DOMAIN s
        /\ Len(level) \in Nat /\ Len(next_level) \in Nat
        /\ index \in Nat /\ index = 2 * Len(next_level) + 1
        /\ index <= Len(level) + 2 /\ Len(level) <= Cardinality(batch)
    BY <1>3, <2>1, ClimbFacts
  <2>3. DOMAIN s = 1..Cardinality(batch) /\ Cardinality(batch) \in Nat
    BY <1>3, <2>1, EntriesOfBatch, EntriesAreSorted DEF MerkleInv
  <2>4. index \in 1..(Cardinality(batch) + 2)
    BY <2>2, <2>3
  <2>5. PICK d \in Nat : Climbed(d)
    BY <1>3, <2>1, ClimbFacts
  <2> DEFINE Place(n) == n - Len(next_level) + index - 1
  <2>6. /\ There \subseteq DOMAIN Pending /\ DOMAIN Pending \subseteq Nat
        /\ \A k \in There : Pending[k] = next_level[k]
        /\ \A n \in DOMAIN Pending : n \notin There =>
              Place(n) \in Here /\ Pending[n] = level[Place(n)]
        /\ \A j \in Here : \E n \in DOMAIN Pending \ There : Pending[n] = level[j]
    <3>1. index \in Nat \ {0}
      BY <2>2
    <3>2. \A j \in Here : /\ j - index + 1 + Len(next_level) \in DOMAIN Pending \ There
                          /\ Pending[j - index + 1 + Len(next_level)] = level[j]
      BY <2>1, <2>2, <3>1, PendingIs
    <3> QED
      BY <2>1, <2>2, <3>1, <3>2, PendingIs
  <2>7. \A m, n \in DOMAIN Pending : m # n => Pending[m].leaves \cap Pending[n].leaves = {}
    <3> TAKE m, n \in DOMAIN Pending
    <3> HAVE m # n
    <3>1. CASE m \in There /\ n \in There
      BY <2>2, <2>6, <3>1 DEF LeavesInv
    <3>2. CASE m \in There /\ n \notin There
      <4>1. /\ Pending[m] = next_level[m] /\ Pending[n] = level[Place(n)]
            /\ Place(n) \in Here
        BY <2>6, <3>2
      <4> HIDE DEF Place
      <4>2. level[Place(n)].leaves \cap next_level[m].leaves = {}
        BY <2>2, <3>2, <4>1 DEF LeavesInv
      <4> QED
        BY <4>1, <4>2
    <3>3. CASE m \notin There /\ n \in There
      <4>1. /\ Pending[n] = next_level[n] /\ Pending[m] = level[Place(m)]
            /\ Place(m) \in Here
        BY <2>6, <3>3
      <4> HIDE DEF Place
      <4>2. level[Place(m)].leaves \cap next_level[n].leaves = {}
        BY <2>2, <3>3, <4>1 DEF LeavesInv
      <4> QED
        BY <4>1, <4>2
    <3>4. CASE m \notin There /\ n \notin There
      <4>1. m \in Nat /\ n \in Nat
        BY <2>6
      <4>2. Place(m) # Place(n)
        BY <2>2, <4>1
      <4> HIDE DEF Place
      <4> QED
        BY <2>2, <2>6, <3>4, <4>2 DEF LeavesInv
    <3> QED
      BY <3>1, <3>2, <3>3, <3>4
  <2>8. \A i \in DOMAIN proofs : \E n \in DOMAIN Pending : i \in Pending[n].leaves
    <3> HIDE DEF Place
    <3> TAKE i \in DOMAIN proofs
    <3>1. \/ \E j \in Here : i \in level[j].leaves
          \/ \E k \in There : i \in next_level[k].leaves
      BY <2>2 DEF LeavesInv
    <3> QED
      BY <2>6, <3>1
  <2>9. \A n \in DOMAIN Pending : \A i, j \in Pending[n].leaves : Done(i) = Done(j)
    <3> HIDE DEF Place
    <3> TAKE n \in DOMAIN Pending
    <3>1. CASE n \in There
      BY <2>5, <2>6, <3>1 DEF Climbed
    <3>2. CASE n \notin There
      BY <2>5, <2>6, <3>2 DEF Climbed
    <3> QED
      BY <3>1, <3>2
  <2>10. \A i \in DOMAIN proofs :
            \E n \in DOMAIN Pending :
               /\ i \in Pending[n].leaves
               /\ \A k \in DOMAIN Pending : i \in Pending[k].leaves => k = n
               /\ \A j \in Pending[n].leaves : Done(i) = Done(j)
    <3> TAKE i \in DOMAIN proofs
    <3>1. PICK n \in DOMAIN Pending : i \in Pending[n].leaves
      BY <2>8
    <3>2. \A k \in DOMAIN Pending : i \in Pending[k].leaves => k = n
      BY <2>7, <3>1
    <3> QED
      BY <2>9, <3>1, <3>2
  <2> QED
    BY <1>3, <2>2, <2>3, <2>4, <2>10 DEF MerkleTypeOK, MerkleInv
<1>4. MerkleInv /\ ClimbInv /\ [MerkleNext]_merkleVars => MerkleInv' /\ ClimbInv'
  BY MerkleInvStep, ClimbStep
<1>5. MerkleInv /\ ClimbInv => MerkleTypeOK
  BY <1>2, <1>3
<1> QED
  BY <1>1, <1>4, <1>5, PTL DEF MerkleSpec

-----------------------------------------------------------------------------
(* The tree and its root.                                                  *)

IsHeight(s, h) ==
  /\ h \in 0..Len(s)
  /\ Len(Tree(s)[h]) = 1
  /\ \A g \in 0..(h - 1) : Len(Tree(s)[g]) > 1

\* A row of more than one node is longer than the row above it.
LEMMA Shorter ==
  ASSUME NEW n \in Nat, n > 1
  PROVE  (n + 1) \div 2 <= n - 1
<1> DEFINE b == (n + 1) \div 2
<1>1. b \in Nat /\ (2 * b = n \/ 2 * b = n + 1)
  BY Half
<1> HIDE DEF b
<1>2. b <= n - 1
  BY <1>1
<1> QED
  BY <1>2 DEF b

\* A tree has one height.
LEMMA HeightIs ==
  ASSUME NEW s, IsList(s), Len(s) >= 1
  PROVE  IsHeight(s, Height(s)) /\ \A h : IsHeight(s, h) => h = Height(s)
<1> DEFINE n == Len(s)
           L(h) == Len(Tree(s)[h])
           Ones == {h \in Nat : h <= n /\ L(h) = 1}
<1>1. n \in Nat /\ DOMAIN s = 1..n
  BY DEF IsList
<1>2. \A h \in 0..n : L(h) \in Nat /\ L(h) >= 1
  BY RowsAreLists DEF IsList
<1>3. \A h \in 1..n : h - 1 \in 0..n /\ L(h) = (L(h - 1) + 1) \div 2
  BY RowAbove
<1>4. L(0) = n
  <2> DEFINE leaf == [i \in DOMAIN s |-> LeafHash(s[i])]
  <2>1. DOMAIN leaf = 1..n /\ leaf = [i \in 1..n |-> leaf[i]]
    BY <1>1
  <2>2. Tree(s)[0] = leaf
    BY <1>1, LeafAndAbove
  <2> HIDE DEF leaf
  <2>3. Len(leaf) = n
    BY <1>1, <2>1, ListOf
  <2> QED
    BY <2>2, <2>3
<1> HIDE DEF n, L
<1>5. Ones # {}
  <2> SUFFICES ASSUME Ones = {} PROVE FALSE
    OBVIOUS
  <2>1. \A h \in 0..n : L(h) > 1
    <3> TAKE h \in 0..n
    <3>1. h \in Nat /\ h <= n
      BY <1>1
    <3>2. L(h) # 1
      BY <3>1
    <3> QED
      BY <1>2, <3>2
  <2> DEFINE Bad == {h \in Nat : h <= n /\ ~ (L(h) + h <= n)}
  <2>2. Bad = {}
    <3> SUFFICES ASSUME Bad # {} PROVE FALSE
      OBVIOUS
    <3>1. PICK h \in Bad : \A g \in Bad : h <= g
      BY LeastNumber
    <3>2. h # 0
      BY <1>1, <1>4
    <3>3. /\ h \in 1..n /\ h - 1 \in 0..n /\ h - 1 \in Nat /\ h - 1 <= n
          /\ ~ (h <= h - 1)
      BY <1>1, <3>2
    <3>4. L(h - 1) + (h - 1) <= n
      BY <3>1, <3>3
    <3>5. L(h) <= L(h - 1) - 1
      BY <1>2, <1>3, <2>1, <3>3, Shorter
    <3>6. L(h) \in Nat /\ L(h - 1) \in Nat /\ ~ (L(h) + h <= n)
      BY <1>2, <3>1, <3>3
    <3> HIDE DEF Bad
    <3> QED
      BY <1>1, <3>3, <3>4, <3>5, <3>6
  <2>3. L(n) + n <= n
    BY <1>1, <2>2
  <2> QED
    BY <1>1, <1>2, <2>3
<1>6. PICK h \in Ones : \A g \in Ones : h <= g
  BY <1>5, LeastNumber
<1>7. ASSUME NEW g \in 0..(h - 1) PROVE L(g) > 1
  <2>1. g \in Nat /\ g <= n /\ g \in 0..n /\ ~ (h <= g)
    BY <1>1, <1>6
  <2>2. L(g) # 1
    BY <1>6, <2>1
  <2> QED
    BY <1>2, <2>1, <2>2
<1>8. IsHeight(s, h)
  BY <1>1, <1>6, <1>7 DEF IsHeight, L, n
<1>9. ASSUME NEW a, NEW b, IsHeight(s, a), IsHeight(s, b), a < b
      PROVE  FALSE
  <2>1. a \in Nat /\ b \in Nat /\ a \in 0..(b - 1)
    BY <1>1, <1>9 DEF IsHeight, n
  <2>2. Len(Tree(s)[a]) = 1 /\ Len(Tree(s)[a]) > 1
    BY <1>9, <2>1 DEF IsHeight
  <2> QED
    BY <2>2
<1>10. \A a, b : IsHeight(s, a) /\ IsHeight(s, b) => a = b
  <2> TAKE a, b
  <2> HAVE IsHeight(s, a) /\ IsHeight(s, b)
  <2>1. a \in Nat /\ b \in Nat
    BY <1>1 DEF IsHeight, n
  <2>2. ~ (a < b) /\ ~ (b < a)
    BY <1>9
  <2> QED
    BY <2>1, <2>2
<1>11. IsHeight(s, Height(s))
  <2>1. \E a \in 0..Len(s) : /\ Len(Tree(s)[a]) = 1
                             /\ \A g \in 0..(a - 1) : Len(Tree(s)[g]) > 1
    BY <1>8 DEF IsHeight
  <2> QED
    BY <2>1 DEF Height, IsHeight
<1> QED
  BY <1>10, <1>11

(* The loop computes the tree of the sorted entries, and the proof it builds  *)
(* for each leads to the root.                                                *)
THEOREM LoopBuildsTheTree == MerkleSpec => []RootIsTree
<1>1. ASSUME MerkleInv PROVE RootIsTree
  <2> SUFFICES ASSUME root # None
               PROVE  LET s == Entries(batch)
                      IN  /\ ToSet(s) = batch
                          /\ \A i, j \in DOMAIN s : i < j => s[i].rule < s[j].rule
                          /\ root = Root(s)
                          /\ \A i \in DOMAIN s : Proves(s[i], proofs[i], root)
    BY DEF RootIsTree
  <2> DEFINE s == Entries(batch)
  <2>1. building /\ batch # {} /\ LoopInv(s)
    BY <1>1 DEF MerkleInv
  <2>2. IsList(s) /\ Len(s) >= 1
    BY <1>1, <2>1, EntriesOfBatch
  <2>3. /\ ToSet(s) = batch
        /\ \A i, j \in DOMAIN s : i < j => s[i].rule < s[j].rule
    BY <1>1, EntriesAreSorted DEF MerkleInv, ToSet
  <2> HIDE DEF s
  <2>4. Len(level) = 1 /\ index = 1 /\ root = level[1].hash /\ Len(next_level) \in Nat
    BY <2>1 DEF LoopInv, IsList
  <2>5. Len(next_level) = 0
    BY <2>1, <2>4 DEF LoopInv
  <2>6. Here = {1} /\ There = {}
    BY <2>4, <2>5 DEF Here, There
  <2>7. PICK h \in 0..Len(s) : RowsInv(s, h)
    BY <2>1 DEF LoopInv
  <2>8. IsHeight(s, h)
    BY <2>4, <2>7 DEF IsHeight, RowsInv
  <2>9. root = Root(s)
    <3>1. h = Height(s)
      BY <2>2, <2>8, HeightIs
    <3>2. level[1].hash = Tree(s)[h][1]
      BY <2>4, <2>7 DEF RowsInv
    <3> QED
      BY <2>4, <3>1, <3>2 DEF Root
  <2>10. \A i \in DOMAIN s : Proves(s[i], proofs[i], root)
    <3>1. NodeProved(s, level[1])
      BY <2>1, <2>6 DEF LoopInv, LeavesInv
    <3>2. \A i \in DOMAIN s : i \in level[1].leaves
      BY <2>1, <2>6 DEF LoopInv, LeavesInv
    <3> QED
      BY <2>4, <3>1, <3>2 DEF NodeProved, Proves
  <2> QED
    BY <2>3, <2>9, <2>10 DEF s
<1> QED
  BY <1>1, MerkleInvariant, PTL

-----------------------------------------------------------------------------
(* What a root says.                                                       *)

Distinct(row) == \A i, j \in 1..Len(row) : row[i] = row[j] => i = j

\* Hashes are equal only where what they were computed from is.
LEMMA HashesAreInjective ==
  /\ \A d, e : LeafHash(d) = LeafHash(e) => d = e
  /\ \A a, b, c, d : ParentHash(a, b) = ParentHash(c, d) => a = c /\ b = d
  /\ \A a, b, e : ParentHash(a, b) # LeafHash(e)
<1>1. \A d, e : LeafHash(d) = LeafHash(e) => d = e
  BY DEF LeafHash
<1>2. \A a, b, c, d : ParentHash(a, b) = ParentHash(c, d) => a = c /\ b = d
  BY DEF ParentHash
<1>3. \A a, b, e : ParentHash(a, b) # LeafHash(e)
  BY DEF ParentHash, LeafHash
<1> QED
  BY <1>1, <1>2, <1>3

\* Where the nodes of a row are below: the last of an odd row is below its
\* node twice.
LEMMA Below ==
  ASSUME NEW row, IsList(row), Len(row) >= 1, NEW k \in 1..Len(Above(row))
  PROVE  /\ 2 * k - 1 \in 1..Len(row)
         /\ 2 * k <= Len(row) => 2 * k \in 1..Len(row)
         /\ 2 * k <= Len(row) =>
               Above(row)[k] = ParentHash(row[2 * k - 1], row[2 * k])
         /\ ~ (2 * k <= Len(row)) =>
               /\ Len(row) = 2 * k - 1 /\ k = Len(Above(row))
               /\ Above(row)[k] = ParentHash(row[2 * k - 1], row[2 * k - 1])
<1> DEFINE n == Len(row)
           b == (n + 1) \div 2
<1>1. n \in Nat /\ n >= 1
  BY DEF IsList
<1>2. b \in Nat /\ (2 * b = n \/ 2 * b = n + 1)
  BY <1>1, Half
<1>3. Len(Above(row)) = b
  BY AboveIs
<1>4. Above(row)[k] = ParentHash(row[2 * k - 1],
                        row[IF 2 * k <= n THEN 2 * k ELSE 2 * k - 1])
  BY AboveIs
<1> HIDE DEF b
<1>5. k \in 1..b
  BY <1>3
<1> HIDE DEF n
<1>6. /\ 2 * k - 1 \in 1..n
      /\ 2 * k <= n => 2 * k \in 1..n
      /\ ~ (2 * k <= n) => n = 2 * k - 1 /\ k = b
  BY <1>1, <1>2, <1>5
<1> QED
  BY <1>3, <1>4, <1>6 DEF n

\* The nodes of a row differ when those below them do.
LEMMA RowsDistinct ==
  ASSUME NEW s, IsList(s), Len(s) >= 1, Distinct(s)
  PROVE  \A h \in 0..Len(s) : Distinct(Tree(s)[h])
<1> DEFINE Bad == {h \in Nat : h <= Len(s) /\ ~ Distinct(Tree(s)[h])}
<1>1. Len(s) \in Nat /\ DOMAIN s = 1..Len(s)
  BY DEF IsList
<1>2. Bad = {}
  <2> SUFFICES ASSUME Bad # {} PROVE FALSE
    OBVIOUS
  <2>1. PICK h \in Bad : \A g \in Bad : h <= g
    BY LeastNumber
  <2>2. h # 0
    <3>1. Tree(s)[0] = [i \in 1..Len(s) |-> LeafHash(s[i])]
      BY <1>1, LeafAndAbove
    <3> DEFINE row == Tree(s)[0]
    <3>2. DOMAIN row = 1..Len(s) /\ row = [i \in 1..Len(s) |-> row[i]]
          /\ \A i \in 1..Len(s) : row[i] = LeafHash(s[i])
      BY <3>1
    <3> HIDE DEF row
    <3>3. Len(row) = Len(s)
      BY <1>1, <3>2, ListOf
    <3>4. Distinct(row)
      BY <3>2, <3>3, HashesAreInjective DEF Distinct
    <3> QED
      BY <2>1, <3>4 DEF row
  <2>3. h \in 1..Len(s) /\ h - 1 \in Nat /\ h - 1 <= Len(s) /\ ~ (h <= h - 1)
    BY <1>1, <2>2
  <2> DEFINE row == Tree(s)[h - 1]
  <2>4. Distinct(row) /\ IsList(row) /\ Len(row) >= 1 /\ Tree(s)[h] = Above(row)
    BY <2>1, <2>3, RowAbove
  <2> HIDE DEF row
  <2>5. ASSUME NEW k \in 1..Len(Above(row)), NEW l \in 1..Len(Above(row)),
               Above(row)[k] = Above(row)[l]
        PROVE  k = l
    <3>1. 2 * k - 1 \in 1..Len(row) /\ 2 * l - 1 \in 1..Len(row)
      BY <2>4, Below
    <3>2. PICK x : Above(row)[k] = ParentHash(row[2 * k - 1], x)
      BY <2>4, Below
    <3>2a. PICK y : Above(row)[l] = ParentHash(row[2 * l - 1], y)
      BY <2>4, Below
    <3>3. row[2 * k - 1] = row[2 * l - 1]
      <4>1. ParentHash(row[2 * k - 1], x) = ParentHash(row[2 * l - 1], y)
        BY <2>5, <3>2, <3>2a
      <4> QED
        BY <4>1, HashesAreInjective
    <3>4. 2 * k - 1 = 2 * l - 1
      BY <2>4, <3>1, <3>3 DEF Distinct
    <3>5. k \in Int /\ l \in Int
      OBVIOUS
    <3> QED
      BY <3>4, <3>5
  <2>6. Distinct(Above(row))
    BY <2>5 DEF Distinct
  <2> QED
    BY <2>1, <2>4, <2>6
<1> QED
  BY <1>1, <1>2

\* A row says what the row below it is.
LEMMA AboveDecides ==
  ASSUME NEW x, IsList(x), Len(x) >= 1, Distinct(x),
         NEW y, IsList(y), Len(y) >= 1, Distinct(y),
         Above(x) = Above(y)
  PROVE  x = y
<1> DEFINE b == Len(Above(x))
           m == Len(x)
           n == Len(y)
<1>1. /\ m \in Nat /\ n \in Nat /\ m >= 1 /\ n >= 1
      /\ x = [i \in 1..m |-> x[i]] /\ y = [i \in 1..n |-> y[i]]
  BY DEF IsList
<1>2. /\ b = (m + 1) \div 2 /\ b = (n + 1) \div 2
  BY AboveIs
<1>3. b \in Nat /\ (2 * b = m \/ 2 * b = m + 1) /\ (2 * b = n \/ 2 * b = n + 1)
  <2>1. b \in Nat /\ (2 * b = m \/ 2 * b = m + 1)
    BY <1>1, <1>2, Half
  <2>2. 2 * b = n \/ 2 * b = n + 1
    BY <1>1, <1>2, Half
  <2> QED
    BY <2>1, <2>2
<1>4. ASSUME NEW k \in 1..b
      PROVE  /\ x[2 * k - 1] = y[2 * k - 1]
             /\ 2 * k <= m => 2 * k <= n /\ x[2 * k] = y[2 * k]
             /\ 2 * k <= n => 2 * k <= m
  <2>1. k \in 1..Len(Above(x)) /\ k \in 1..Len(Above(y))
    OBVIOUS
  <2>2. /\ 2 * k - 1 \in 1..m
        /\ 2 * k <= m => /\ 2 * k \in 1..m
                         /\ Above(x)[k] = ParentHash(x[2 * k - 1], x[2 * k])
        /\ ~ (2 * k <= m) => Above(x)[k] = ParentHash(x[2 * k - 1], x[2 * k - 1])
    BY <2>1, Below
  <2>3. /\ 2 * k - 1 \in 1..n
        /\ 2 * k <= n => /\ 2 * k \in 1..n
                         /\ Above(y)[k] = ParentHash(y[2 * k - 1], y[2 * k])
        /\ ~ (2 * k <= n) => Above(y)[k] = ParentHash(y[2 * k - 1], y[2 * k - 1])
    BY <2>1, Below
  <2>4. k \in Int /\ 2 * k - 1 # 2 * k
    <3>1. k \in Int
      OBVIOUS
    <3> QED
      BY <3>1
  <2>5. Above(x)[k] = Above(y)[k]
    OBVIOUS
  <2>6. CASE 2 * k <= m /\ 2 * k <= n
    <3>1. ParentHash(x[2 * k - 1], x[2 * k]) = ParentHash(y[2 * k - 1], y[2 * k])
      BY <2>2, <2>3, <2>5, <2>6
    <3>2. x[2 * k - 1] = y[2 * k - 1] /\ x[2 * k] = y[2 * k]
      BY <3>1, HashesAreInjective
    <3> QED
      BY <2>6, <3>2
  <2>7. CASE ~ (2 * k <= m) /\ ~ (2 * k <= n)
    <3>1. ParentHash(x[2 * k - 1], x[2 * k - 1]) = ParentHash(y[2 * k - 1], y[2 * k - 1])
      BY <2>2, <2>3, <2>5, <2>7
    <3>2. x[2 * k - 1] = y[2 * k - 1]
      BY <3>1, HashesAreInjective
    <3> QED
      BY <2>7, <3>2
  <2>8. CASE 2 * k <= m /\ ~ (2 * k <= n)
    <3>1. ParentHash(x[2 * k - 1], x[2 * k]) = ParentHash(y[2 * k - 1], y[2 * k - 1])
      BY <2>2, <2>3, <2>5, <2>8
    <3>2. x[2 * k - 1] = y[2 * k - 1] /\ x[2 * k] = y[2 * k - 1]
      BY <3>1, HashesAreInjective
    <3>3. x[2 * k - 1] = x[2 * k]
      BY <3>2
    <3> QED
      BY <2>2, <2>4, <2>8, <3>3 DEF Distinct
  <2>9. CASE ~ (2 * k <= m) /\ 2 * k <= n
    <3>1. ParentHash(x[2 * k - 1], x[2 * k - 1]) = ParentHash(y[2 * k - 1], y[2 * k])
      BY <2>2, <2>3, <2>5, <2>9
    <3>2. x[2 * k - 1] = y[2 * k - 1] /\ x[2 * k - 1] = y[2 * k]
      BY <3>1, HashesAreInjective
    <3>3. y[2 * k - 1] = y[2 * k]
      BY <3>2
    <3> QED
      BY <2>3, <2>4, <2>9, <3>3 DEF Distinct
  <2> QED
    BY <2>6, <2>7, <2>8, <2>9
<1> HIDE DEF b, m, n
<1>5. m = n
  <2>1. b \in 1..b
    BY <1>1, <1>3
  <2>2. 2 * b <= m <=> 2 * b <= n
    BY <1>4, <2>1
  <2> QED
    BY <1>1, <1>3, <2>2
<1>6. ASSUME NEW i \in 1..m PROVE x[i] = y[i]
  <2>1. \E k \in 1..b : i = 2 * k - 1 \/ i = 2 * k
    <3> DEFINE k == (i + 1) \div 2
    <3>1. k \in Nat /\ (2 * k = i \/ 2 * k = i + 1)
      BY Half
    <3> HIDE DEF k
    <3>2. k \in 1..b /\ (i = 2 * k - 1 \/ i = 2 * k)
      BY <1>1, <1>3, <3>1
    <3> QED
      BY <3>2
  <2>2. PICK k \in 1..b : i = 2 * k - 1 \/ i = 2 * k
    BY <2>1
  <2>3. CASE i = 2 * k - 1
    BY <1>4, <2>3
  <2>4. CASE i = 2 * k
    <3>1. 2 * k <= m
      BY <2>4
    <3> QED
      BY <1>4, <2>4, <3>1
  <2> QED
    BY <2>2, <2>3, <2>4
<1> QED
  BY <1>1, <1>5, <1>6

\* What is above a row is no leaf.
LEMMA NodesAreNoLeaves ==
  ASSUME NEW s, IsList(s), Len(s) >= 1, NEW h \in 1..Len(s),
         NEW i \in 1..Len(Tree(s)[h]), NEW e
  PROVE  Tree(s)[h][i] # LeafHash(e)
<1> DEFINE row == Tree(s)[h - 1]
<1>1. IsList(row) /\ Len(row) >= 1 /\ Tree(s)[h] = Above(row)
  BY RowAbove
<1> HIDE DEF row
<1>2. PICK a, b : Above(row)[i] = ParentHash(a, b)
  BY <1>1, Below
<1> QED
  BY <1>1, <1>2, HashesAreInjective

\* The leaves of a tree.
LEMMA LeavesAre ==
  ASSUME NEW s, IsList(s)
  PROVE  /\ Len(Tree(s)[0]) = Len(s)
         /\ \A i \in 1..Len(s) : Tree(s)[0][i] = LeafHash(s[i])
<1>1. Len(s) \in Nat /\ DOMAIN s = 1..Len(s)
  BY DEF IsList
<1>2. Tree(s)[0] = [i \in 1..Len(s) |-> LeafHash(s[i])]
  BY <1>1, LeafAndAbove
<1> DEFINE row == Tree(s)[0]
<1>3. /\ DOMAIN row = 1..Len(s) /\ row = [i \in 1..Len(s) |-> row[i]]
      /\ \A i \in 1..Len(s) : row[i] = LeafHash(s[i])
  BY <1>2
<1> HIDE DEF row
<1>4. Len(row) = Len(s)
  BY <1>1, <1>3, ListOf
<1> QED
  BY <1>3, <1>4 DEF row

\* Two trees with one root, the first not the higher: row by row from the root
\* down they are one tree.
LEMMA RootsDecide ==
  ASSUME NEW s, IsList(s), Len(s) >= 1, Distinct(s),
         NEW t, IsList(t), Len(t) >= 1, Distinct(t),
         NEW a, IsHeight(s, a), NEW b, IsHeight(t, b), a <= b,
         Tree(s)[a][1] = Tree(t)[b][1]
  PROVE  s = t
<1>1. /\ Len(s) \in Nat /\ Len(t) \in Nat
      /\ a \in 0..Len(s) /\ b \in 0..Len(t) /\ a \in Nat /\ b \in Nat
  BY DEF IsList, IsHeight
<1>2. Tree(s)[a] = Tree(t)[b]
  <2> DEFINE x == Tree(s)[a]
             y == Tree(t)[b]
  <2>1. IsList(x) /\ IsList(y) /\ Len(x) = 1 /\ Len(y) = 1
    BY <1>1, RowsAreLists DEF IsHeight
  <2>2. x[1] = y[1]
    OBVIOUS
  <2> HIDE DEF x, y
  <2>3. x = [i \in 1..1 |-> x[i]] /\ y = [i \in 1..1 |-> y[i]]
    BY <2>1 DEF IsList
  <2>4. \A i \in 1..1 : x[i] = y[i]
    BY <2>2
  <2>5. x = y
    BY <2>3, <2>4
  <2> QED
    BY <2>5 DEF x, y
<1> DEFINE Bad == {k \in Nat : k <= a /\ Tree(s)[a - k] # Tree(t)[b - k]}
<1>3. Bad = {}
  <2> SUFFICES ASSUME Bad # {} PROVE FALSE
    OBVIOUS
  <2>1. PICK k \in Bad : \A j \in Bad : k <= j
    BY LeastNumber
  <2>2. k # 0
    BY <1>1, <1>2
  <2>3. k \in Nat /\ k <= a /\ k - 1 \in Nat /\ k - 1 <= a /\ ~ (k <= k - 1)
    BY <1>1, <2>2
  <2> DEFINE g == a - (k - 1)
             h == b - (k - 1)
  <2>4. /\ g \in 1..Len(s) /\ h \in 1..Len(t)
        /\ g - 1 = a - k /\ h - 1 = b - k
    BY <1>1, <2>2, <2>3
  <2>5. Tree(s)[g] = Tree(t)[h]
    BY <2>1, <2>3
  <2> HIDE DEF g, h
  <2>6. /\ IsList(Tree(s)[a - k]) /\ Len(Tree(s)[a - k]) >= 1
        /\ Tree(s)[g] = Above(Tree(s)[a - k]) /\ a - k \in 0..Len(s)
    BY <2>4, RowAbove
  <2>7. /\ IsList(Tree(t)[b - k]) /\ Len(Tree(t)[b - k]) >= 1
        /\ Tree(t)[h] = Above(Tree(t)[b - k]) /\ b - k \in 0..Len(t)
    BY <2>4, RowAbove
  <2>8. Distinct(Tree(s)[a - k]) /\ Distinct(Tree(t)[b - k])
    BY <2>6, <2>7, RowsDistinct
  <2>9. Above(Tree(s)[a - k]) = Above(Tree(t)[b - k])
    BY <2>5, <2>6, <2>7
  <2>10. Tree(s)[a - k] = Tree(t)[b - k]
    BY <2>6, <2>7, <2>8, <2>9, AboveDecides
  <2> QED
    BY <2>1, <2>10
<1>4. Tree(s)[0] = Tree(t)[b - a]
  <2>1. a \notin Bad /\ a \in Nat /\ a <= a
    BY <1>1, <1>3
  <2>2. a - a = 0
    BY <1>1
  <2>3. Tree(s)[a - a] = Tree(t)[b - a]
    BY <2>1
  <2> QED
    BY <2>2, <2>3
<1>5. b = a
  <2> SUFFICES ASSUME b # a PROVE FALSE
    OBVIOUS
  <2>1. b - a \in 1..Len(t)
    BY <1>1
  <2>2. Tree(s)[0][1] = LeafHash(s[1]) /\ Len(Tree(s)[0]) = Len(s) /\ 1 \in 1..Len(s)
    BY <1>1, LeavesAre
  <2>3. 1 \in 1..Len(Tree(t)[b - a])
    BY <1>4, <2>2
  <2>4. Tree(t)[b - a][1] # LeafHash(s[1])
    BY <2>1, <2>3, NodesAreNoLeaves
  <2> QED
    BY <1>4, <2>2, <2>4
<1>6. Tree(s)[0] = Tree(t)[0]
  BY <1>1, <1>4, <1>5
<1>7. Len(s) = Len(t) /\ \A i \in 1..Len(s) : LeafHash(s[i]) = LeafHash(t[i])
  BY <1>6, LeavesAre
<1>8. \A i \in 1..Len(s) : s[i] = t[i]
  BY <1>7, HashesAreInjective
<1>9. s = [i \in 1..Len(s) |-> s[i]] /\ t = [i \in 1..Len(s) |-> t[i]]
  BY <1>7 DEF IsList
<1> QED
  BY <1>8, <1>9

\* A proof of whatever length that leads to the root is of a leaf.
LEMMA ProofsAreOfLeaves ==
  ASSUME NEW s, IsList(s), Len(s) >= 1, NEW e,
         NEW proof, Len(proof) \in Nat,
         Resolve(LeafHash(e), proof) = Root(s)
  PROVE  \E i \in DOMAIN s : s[i] = e
<1> DEFINE H == Height(s)
           n == Len(proof)
           In(h, x) == \E i \in 1..Len(Tree(s)[h]) : Tree(s)[h][i] = x
<1>1. /\ Len(s) \in Nat /\ DOMAIN s = 1..Len(s)
      /\ H \in 0..Len(s) /\ H \in Nat /\ Len(Tree(s)[H]) = 1 /\ n \in Nat
  BY HeightIs DEF IsList, IsHeight
<1>2. PICK c : /\ c[0] = LeafHash(e)
               /\ \A k \in 1..n : c[k] = Climb(c[k - 1], proof[k])
               /\ Resolve(LeafHash(e), proof) = c[n]
  BY ResolveSteps
<1> HIDE DEF n
<1>3. In(H, c[n])
  <2>1. c[n] = Tree(s)[H][1]
    BY <1>2 DEF Root
  <2>2. 1 \in 1..Len(Tree(s)[H])
    BY <1>1
  <2> QED
    BY <2>1, <2>2
<1> HIDE DEF H
<1>4. \A k \in 1..n : \E x : \/ c[k] = ParentHash(x, c[k - 1])
                             \/ c[k] = ParentHash(c[k - 1], x)
  <2> TAKE k \in 1..n
  <2>1. c[k] = Climb(c[k - 1], proof[k])
    BY <1>2
  <2> QED
    BY <2>1 DEF Climb
<1>5. ASSUME NEW h \in 1..Len(s), NEW x, In(h, x)
      PROVE  \E a, b : x = ParentHash(a, b) /\ In(h - 1, a) /\ In(h - 1, b)
  <2>1. PICK i \in 1..Len(Tree(s)[h]) : Tree(s)[h][i] = x
    BY <1>5
  <2> DEFINE row == Tree(s)[h - 1]
  <2>2. IsList(row) /\ Len(row) >= 1 /\ Tree(s)[h] = Above(row)
    BY RowAbove
  <2> HIDE DEF row
  <2>3. \E p, q \in 1..Len(row) : x = ParentHash(row[p], row[q])
    <3> DEFINE j == 2 * i
    <3>0. /\ j - 1 \in 1..Len(row)
          /\ j <= Len(row) => /\ j \in 1..Len(row)
                              /\ x = ParentHash(row[j - 1], row[j])
          /\ ~ (j <= Len(row)) => x = ParentHash(row[j - 1], row[j - 1])
      <4>1. i \in 1..Len(Above(row)) /\ Above(row)[i] = x
        BY <2>1, <2>2
      <4> QED
        BY <2>2, <4>1, Below
    <3> HIDE DEF j
    <3>1. CASE j <= Len(row)
      BY <3>0, <3>1
    <3>2. CASE ~ (j <= Len(row))
      BY <3>0, <3>2
    <3> QED
      BY <3>1, <3>2
  <2> QED
    BY <2>3 DEF row
<1>6. \A x : In(0, x) => \E i \in DOMAIN s : x = LeafHash(s[i])
  BY <1>1, LeavesAre
<1> HIDE DEF In
<1> DEFINE Bad == {k \in Nat : k <= n /\ k <= H /\ ~ In(H - k, c[n - k])}
<1>7. Bad = {}
  <2> SUFFICES ASSUME Bad # {} PROVE FALSE
    OBVIOUS
  <2>1. PICK k \in Bad : \A j \in Bad : k <= j
    BY LeastNumber
  <2>2. k # 0
    BY <1>1, <1>3
  <2>3. /\ k \in Nat /\ k <= n /\ k <= H
        /\ k - 1 \in Nat /\ k - 1 <= n /\ k - 1 <= H /\ ~ (k <= k - 1)
    BY <1>1, <2>2
  <2> DEFINE h == H - (k - 1)
             m == n - (k - 1)
  <2>4. In(h, c[m])
    BY <2>1, <2>3
  <2>5. h \in 1..Len(s) /\ m \in 1..n /\ h - 1 = H - k /\ m - 1 = n - k
    BY <1>1, <2>2, <2>3
  <2> HIDE DEF h, m
  <2>6. PICK a, b : c[m] = ParentHash(a, b) /\ In(h - 1, a) /\ In(h - 1, b)
    BY <1>5, <2>4, <2>5
  <2>7. PICK x : c[m] = ParentHash(x, c[m - 1]) \/ c[m] = ParentHash(c[m - 1], x)
    BY <1>4, <2>5
  <2>8. c[m - 1] = a \/ c[m - 1] = b
    BY <2>6, <2>7, HashesAreInjective
  <2>9. In(H - k, c[n - k])
    BY <2>5, <2>6, <2>8
  <2> QED
    BY <2>1, <2>9
<1>8. n = H
  <2>1. CASE n < H
    <3>1. n \in Nat /\ n <= n /\ n <= H /\ n - n = 0
      BY <1>1, <2>1
    <3>2. In(H - n, c[n - n]) /\ n - n = 0
      BY <1>7, <3>1
    <3>3. H - n \in 1..Len(s)
      BY <1>1, <2>1
    <3>4. \E a, b : c[0] = ParentHash(a, b)
      BY <1>5, <3>2, <3>3
    <3> QED
      BY <1>2, <3>4, HashesAreInjective
  <2>2. CASE H < n
    <3>1. H \in Nat /\ H <= H /\ H <= n /\ H - H = 0
      BY <1>1, <2>2
    <3>2. In(H - H, c[n - H]) /\ H - H = 0
      BY <1>7, <3>1
    <3>3. PICK i \in DOMAIN s : c[n - H] = LeafHash(s[i])
      BY <1>6, <3>2
    <3>4. n - H \in 1..n
      BY <1>1, <2>2
    <3>5. \E a, b : c[n - H] = ParentHash(a, b)
      BY <1>4, <3>4
    <3> QED
      BY <3>3, <3>5, HashesAreInjective
  <2> QED
    BY <1>1, <2>1, <2>2
<1>9. In(0, c[0])
  <2>1. n \in Nat /\ n <= n /\ n <= H /\ n - n = 0 /\ H - n = 0
    BY <1>1, <1>8
  <2>2. In(H - n, c[n - n]) /\ n - n = 0 /\ H - n = 0
    BY <1>7, <2>1
  <2> QED
    BY <2>2
<1>10. PICK i \in DOMAIN s : LeafHash(e) = LeafHash(s[i])
  BY <1>2, <1>6, <1>9
<1> QED
  BY <1>10, HashesAreInjective

\* Entries of different rule sets, in order, are different.
LEMMA SortedAreDistinct ==
  ASSUME NEW B, B \subseteq Entry, IsFiniteSet(B), B # {},
         \A d, e \in B : d.rule = e.rule => d = e
  PROVE  /\ IsList(Entries(B)) /\ Len(Entries(B)) >= 1 /\ Distinct(Entries(B))
         /\ {Entries(B)[i] : i \in DOMAIN Entries(B)} = B
<1> DEFINE s == Entries(B)
<1>1. /\ IsList(s) /\ Len(s) = Cardinality(B)
      /\ {s[i] : i \in DOMAIN s} = B
      /\ \A i, j \in DOMAIN s : i < j => s[i].rule < s[j].rule
  BY EntriesAreSorted
<1>2. Cardinality(B) \in Nat /\ Cardinality(B) # 0
  BY FS_CardinalityType, FS_EmptySet
<1> HIDE DEF s
<1>3. Len(s) \in Nat /\ DOMAIN s = 1..Len(s)
  BY <1>1 DEF IsList
<1>4. \A i \in DOMAIN s : s[i].rule \in Nat
  BY <1>1, EntryAssumption
<1>5. Distinct(s)
  <2> SUFFICES ASSUME NEW i \in 1..Len(s), NEW j \in 1..Len(s), s[i] = s[j], i # j
               PROVE  FALSE
    BY DEF Distinct
  <2>1. ~ (s[i].rule < s[j].rule) /\ ~ (s[j].rule < s[i].rule)
    BY <1>3, <1>4
  <2>2. i < j \/ j < i
    BY <1>3
  <2> QED
    BY <1>1, <1>3, <2>1, <2>2
<1> QED
  BY <1>1, <1>2, <1>3, <1>5 DEF s

(* A root is that of one batch, of all there could be, and a manifest that a  *)
(* validator accepts for it lists entries of that batch only, none twice.     *)
THEOREM RootsCommit == MerkleSpec => []RootCommits
<1>1. ASSUME MerkleInv, RootIsTree, root # None
      PROVE  LET P == Provable
             IN  /\ \A B \in Batches : Root(Entries(B)) = root => B = batch
                 /\ \A x \in P : ManifestAccepted(<<x>>, root) => x.entry \in batch
                 /\ \A x, y \in P :
                       ManifestAccepted(<<x, y>>, root) => x.entry # y.entry
  <2> DEFINE s == Entries(batch)
  <2>1. /\ batch # {} /\ batch \subseteq Entry /\ IsFiniteSet(batch)
        /\ \A d, e \in batch : d.rule = e.rule => d = e
    BY <1>1 DEF MerkleInv
  <2>2. /\ IsList(s) /\ Len(s) >= 1 /\ Distinct(s)
        /\ {s[i] : i \in DOMAIN s} = batch
    BY <2>1, SortedAreDistinct
  <2>3. root = Root(s)
    BY <1>1 DEF RootIsTree
  <2> HIDE DEF s
  <2>4. ASSUME NEW B \in Batches, Root(Entries(B)) = root
        PROVE  B = batch
    <3> DEFINE t == Entries(B)
    <3>0. B \in SUBSET Entry /\ B # {} /\ IsFiniteSet(B)
      BY DEF Batches
    <3>1. /\ B # {} /\ B \subseteq Entry /\ IsFiniteSet(B)
          /\ \A d, e \in B : d.rule = e.rule => d = e
      <4>1. \A d, e \in B : d.rule = e.rule => d = e
        BY Zenon DEF Batches
      <4> QED
        BY <3>0, <4>1
    <3>2. /\ IsList(t) /\ Len(t) >= 1 /\ Distinct(t)
          /\ {t[i] : i \in DOMAIN t} = B
      BY <3>1, SortedAreDistinct
    <3>3. Root(s) = Root(t)
      BY <2>3, <2>4
    <3> HIDE DEF t
    <3> DEFINE a == Height(s)
               b == Height(t)
    <3>4. IsHeight(s, a) /\ IsHeight(t, b)
      BY <2>2, <3>2, HeightIs
    <3>5. Tree(s)[a][1] = Tree(t)[b][1]
      BY <3>3 DEF Root
    <3> HIDE DEF a, b
    <3>6. a \in Int /\ b \in Int
      BY <2>2, <3>2, <3>4 DEF IsHeight, IsList
    <3>7. a <= b => s = t
      BY <2>2, <3>2, <3>4, <3>5, RootsDecide
    <3>8. b <= a => s = t
      BY <2>2, <3>2, <3>4, <3>5, RootsDecide
    <3>9. s = t
      <4>1. a <= b \/ b <= a
        BY <3>6
      <4> QED
        BY <3>7, <3>8, <4>1
    <3> QED
      BY <2>2, <3>2, <3>9
  <2>5. ASSUME NEW x \in Provable
        PROVE  x.entry \in Entry /\ x.entry \in batch
    <3>1. /\ x.entry \in Entry /\ Len(x.proof) \in Nat
          /\ Proves(x.entry, x.proof, root)
      BY DEF Provable
    <3>2. PICK i \in DOMAIN s : s[i] = x.entry
      BY <2>2, <2>3, <3>1, ProofsAreOfLeaves DEF Proves
    <3> QED
      BY <2>2, <3>1, <3>2
  <2>6. ASSUME NEW x \in Provable, NEW y \in Provable,
               ManifestAccepted(<<x, y>>, root)
        PROVE  x.entry # y.entry
    <3>1. <<x, y>>[1].entry.rule < <<x, y>>[1 + 1].entry.rule
      BY <2>6 DEF ManifestAccepted, InOrder
    <3>2. x.entry.rule < y.entry.rule
      BY <3>1
    <3>3. x.entry.rule \in Nat
      BY <2>5, EntryAssumption
    <3> QED
      BY <3>2, <3>3
  <2> QED
    BY <2>4, <2>5, <2>6
<1>2. MerkleInv /\ RootIsTree => RootCommits
  BY <1>1 DEF RootCommits
<1> QED
  BY <1>2, MerkleInvariant, LoopBuildsTheTree, PTL

(* Not only the proofs a check can list: whatever entry and whatever proof,   *)
(* of any length and of any hashes, leads to the root, the entry is one of    *)
(* the batch.                                                                 *)
THEOREM NoForeignEntry ==
  MerkleSpec => [](root # None =>
                     \A e, proof : Len(proof) \in Nat /\ Proves(e, proof, root)
                                     => e \in batch)
<1>1. ASSUME MerkleInv, RootIsTree, root # None,
             NEW e, NEW proof, Len(proof) \in Nat, Proves(e, proof, root)
      PROVE  e \in batch
  <2> DEFINE s == Entries(batch)
  <2>1. /\ batch # {} /\ batch \subseteq Entry /\ IsFiniteSet(batch)
        /\ \A d, x \in batch : d.rule = x.rule => d = x
    BY <1>1 DEF MerkleInv
  <2>2. /\ IsList(s) /\ Len(s) >= 1
        /\ {s[i] : i \in DOMAIN s} = batch
    BY <2>1, SortedAreDistinct
  <2>3. root = Root(s)
    BY <1>1 DEF RootIsTree
  <2> HIDE DEF s
  <2>4. PICK i \in DOMAIN s : s[i] = e
    BY <1>1, <2>2, <2>3, ProofsAreOfLeaves DEF Proves
  <2> QED
    BY <2>2, <2>4
<1>2. MerkleInv /\ RootIsTree =>
        (root # None => \A e, proof : Len(proof) \in Nat /\ Proves(e, proof, root)
                                        => e \in batch)
  BY <1>1
<1> QED
  BY <1>2, MerkleInvariant, LoopBuildsTheTree, PTL
=============================================================================
