----------------------------- MODULE MerkleBatch -----------------------------
(***************************************************************************)
(* The Merkle tree of a rule batch (core_runtime/core/rule_anchor.py): the *)
(* entries are sorted by rule set, hashed, and paired level by level while *)
(* the proof of each grows by one node; a validator accepts a manifest     *)
(* whose entries are sorted, of different rule sets, and prove themselves  *)
(* against the root.  SHA-256 with its domain prefixes is taken as         *)
(* injective: a hash is the term it was computed from.                     *)
(***************************************************************************)
EXTENDS Integers, FiniteSets, SequencesExt

CONSTANTS
    Entry,      \* [rule, content]: the order of rule is that of the
                \* fingerprints, content the rest of the leaf
    None        \* no root yet

ASSUME EntryAssumption == \A e \in Entry : e.rule \in Nat

VARIABLES
    batch,      \* the entries collected so far, one for each rule set
    building,   \* TRUE once the tree is being built
    level,      \* nodes of the current level: a hash, the leaves below it
    next_level, \* nodes of the next level computed so far
    index,      \* the next node of level to be paired
    proofs,     \* for each leaf, the siblings met so far
    root        \* merkle_root, once computed

merkleVars == <<batch, building, level, next_level, index, proofs, root>>
-----------------------------------------------------------------------------
\* rule_anchor_leaf_hash and rule_anchor_parent_hash.
LeafHash(e) == <<"leaf", e>>
ParentHash(left, right) == <<"node", left, right>>

\* Mutant of Entries: some other order of the rule sets.
OtherOrder(B) ==
    [k \in 1..Cardinality(B) |->
        CHOOSE e \in B : Cardinality({d \in B : d.rule > e.rule}) = k - 1]

\* The entries of a batch, sorted by rule-set fingerprint.
Entries(B) ==
    [k \in 1..Cardinality(B) |->
        CHOOSE e \in B : Cardinality({d \in B : d.rule < e.rule}) = k - 1]

OnRight(hash) == [position |-> "right", hash |-> hash]
OnLeft(hash) == [position |-> "left", hash |-> hash]

\* One node of a proof, and all of them: verify_rule_anchor_proof.
Climb(hash, n) ==
    IF n.position = "left" THEN ParentHash(n.hash, hash)
                           ELSE ParentHash(hash, n.hash)

Resolve(hash, proof) ==
    LET current[k \in 0..Len(proof)] ==
            IF k = 0 THEN hash ELSE Climb(current[k - 1], proof[k])
    IN  current[Len(proof)]

Proves(e, proof, r) == Resolve(LeafHash(e), proof) = r

\* Mutant of InOrder: a rule set may be listed more than once.
InOrderOrAgain(m) == \A i \in 1..(Len(m) - 1) : m[i].entry.rule <= m[i + 1].entry.rule

\* Entries are of different rule sets and sorted.
InOrder(m) == \A i \in 1..(Len(m) - 1) : m[i].entry.rule < m[i + 1].entry.rule

\* validate_rule_anchor_batch_payload: a manifest is a sequence of entries with
\* their proofs; nothing says it lists all entries below its root.
ManifestAccepted(m, r) ==
    /\ m # <<>>
    /\ InOrder(m)
    /\ \A i \in DOMAIN m : Proves(m[i].entry, m[i].proof, r)
-----------------------------------------------------------------------------
MerkleInit(b) ==
    /\ batch = {}
    /\ building = b
    /\ level = <<>> /\ next_level = <<>> /\ index = 1
    /\ proofs = <<>>
    /\ root = None

\* The next rule set with its approvals; one with a known fingerprint raises.
AddRuleSet(e) ==
    /\ ~building
    /\ \A d \in batch : d.rule # e.rule
    /\ batch' = batch \cup {e}
    /\ UNCHANGED <<building, level, next_level, index, proofs, root>>

\* The leaves are hashed in order; each has an empty proof.
HashLeaves ==
    /\ ~building
    /\ batch # {}
    /\ building' = TRUE
    /\ level' = [i \in DOMAIN Entries(batch) |->
                    [hash |-> LeafHash(Entries(batch)[i]), leaves |-> {i}]]
    /\ proofs' = [i \in DOMAIN Entries(batch) |-> <<>>]
    /\ UNCHANGED <<batch, next_level, index, root>>

\* Two neighbours are paired; each is the other's sibling.
PairUp ==
    /\ Len(level) > 1 /\ index < Len(level)
    /\ LET l == level[index]
           r == level[index + 1]
       IN  /\ proofs' = [i \in DOMAIN proofs |->
                CASE i \in l.leaves -> Append(proofs[i], OnRight(r.hash))
                  [] i \in r.leaves -> Append(proofs[i], OnLeft(l.hash))
                  [] OTHER -> proofs[i]]
           /\ next_level' = Append(next_level,
                [hash |-> ParentHash(l.hash, r.hash),
                 leaves |-> l.leaves \cup r.leaves])
    /\ index' = index + 2
    /\ UNCHANGED <<batch, building, level, root>>

\* Mutant of PairOdd: the last node is passed up as it is.
PassOddUp ==
    /\ Len(level) > 1 /\ index = Len(level)
    /\ next_level' = Append(next_level, level[index])
    /\ index' = index + 2
    /\ UNCHANGED <<batch, building, level, proofs, root>>

\* An odd last node is paired with itself.
PairOdd ==
    /\ Len(level) > 1 /\ index = Len(level)
    /\ LET l == level[index]
       IN  /\ proofs' = [i \in DOMAIN proofs |->
                IF i \in l.leaves THEN Append(proofs[i], OnRight(l.hash))
                                  ELSE proofs[i]]
           /\ next_level' = Append(next_level,
                [hash |-> ParentHash(l.hash, l.hash), leaves |-> l.leaves])
    /\ index' = index + 2
    /\ UNCHANGED <<batch, building, level, root>>

\* The level is complete: go on with the next one.
NextLevel ==
    /\ Len(level) > 1 /\ index > Len(level)
    /\ level' = next_level
    /\ next_level' = <<>>
    /\ index' = 1
    /\ UNCHANGED <<batch, building, proofs, root>>

\* One node is left: the root.
Finish ==
    /\ Len(level) = 1
    /\ root = None
    /\ root' = level[1].hash
    /\ UNCHANGED <<batch, building, level, next_level, index, proofs>>

MerkleNext ==
    \/ \E e \in Entry : AddRuleSet(e)
    \/ HashLeaves
    \/ PairUp \/ PairOdd \/ NextLevel
    \/ Finish

MerkleSpec == MerkleInit(FALSE) /\ [][MerkleNext]_merkleVars
-----------------------------------------------------------------------------

\* The tree over a sequence of entries, row by row, as a definition of its own:
\* node k of a row has the nodes 2k - 1 and 2k of the row below it, or 2k - 1
\* twice.
Above(row) ==
    [k \in 1..((Len(row) + 1) \div 2) |->
        ParentHash(row[2 * k - 1],
                   row[IF 2 * k <= Len(row) THEN 2 * k ELSE 2 * k - 1])]

Tree(s) ==
    LET rows[h \in 0..Len(s)] ==
            IF h = 0 THEN [i \in DOMAIN s |-> LeafHash(s[i])]
                     ELSE Above(rows[h - 1])
    IN  rows

\* The first row of one node, and that node.
Height(s) ==
    CHOOSE h \in 0..Len(s) : /\ Len(Tree(s)[h]) = 1
                             /\ \A g \in 0..(h - 1) : Len(Tree(s)[g]) > 1

Root(s) == Tree(s)[Height(s)][1]

\* The batches that could have been built: one entry for each rule set.
Batches ==
    {B \in (SUBSET Entry) \ {{}} :
        IsFiniteSet(B) /\ \A d, e \in B : d.rule = e.rule => d = e}

\* Nodes that are still to be carried up, those already paired excepted.
Pending == next_level \o SubSeq(level, index, Len(level))

\* The levels completed below leaf i: a paired leaf is one further.
Done(i) == Len(proofs[i])

(* Types, and the bookkeeping of the loop: every leaf is below exactly one
   pending node, and each leaf's proof has one sibling for every level the leaf
   has climbed. *)
MerkleTypeOK ==
    /\ batch \subseteq Entry
    /\ building \in BOOLEAN
    /\ index \in 1..(Cardinality(batch) + 2)
    /\ DOMAIN proofs = IF building THEN 1..Cardinality(batch) ELSE {}
    /\ building =>
          \A i \in DOMAIN proofs :
              \E n \in DOMAIN Pending :
                  /\ i \in Pending[n].leaves
                  /\ \A k \in DOMAIN Pending :
                        i \in Pending[k].leaves => k = n
                  /\ \A j \in Pending[n].leaves : Done(i) = Done(j)

(* The loop computes the tree over the entries in the order of their rule
   sets, whatever the order they were given in: every row of odd size pairs its
   last node with itself, and each entry gets a proof that leads to the root. *)
RootIsTree ==
    root # None =>
        LET s == Entries(batch)
        IN  /\ ToSet(s) = batch
            /\ \A i, j \in DOMAIN s : i < j => s[i].rule < s[j].rule
            /\ root = Root(s)
            /\ \A i \in DOMAIN s : Proves(s[i], proofs[i], root)

\* The hashes of a tree.
Hashes(s) == UNION {ToSet(Tree(s)[h]) : h \in 0..Height(s)}

\* Entries with the proofs of them that lead to the root: made of any hashes
\* of the tree or of foreign entries.
Provable ==
    LET s == Entries(batch)
        Nodes == [position : {"left", "right"},
                  hash : Hashes(s) \cup {LeafHash(e) : e \in Entry}]
        Lists == UNION {[1..n -> Nodes] : n \in 0..Height(s)}
    IN  {x \in [entry : Entry, proof : Lists] : Proves(x.entry, x.proof, root)}

(* A root commits to its batch: no other batch has it, although odd nodes are
   paired with themselves, and whatever manifest the validator accepts for it,
   each of its entries is an entry of the batch the root was built from, and no
   entry counts twice.  (Anchoring one root anchors one batch.) *)
RootCommits ==
    root # None =>
        LET P == Provable
        IN  /\ \A B \in Batches :
                  Root(Entries(B)) = root => B = batch
            /\ \A x \in P :
                  ManifestAccepted(<<x>>, root) => x.entry \in batch
            /\ \A x, y \in P :
                  ManifestAccepted(<<x, y>>, root) => x.entry # y.entry
=============================================================================
