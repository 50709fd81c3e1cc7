--------------------------- MODULE RuleAnchorProofs ---------------------------
(***************************************************************************)
(* Theorems about RuleAnchorVerifier for every value of its constants.     *)
(*                                                                         *)
(* The chain alone satisfies ChainInv: every block extends the storage     *)
(* below it, so a written slot stays as it is on the rest of the branch    *)
(* and the successful calls account for every written slot.  VerifierInv   *)
(* adds what a run of the script knows at each of its calls.  Both are     *)
(* inductive; the properties follow from them.                             *)
(***************************************************************************)
EXTENDS RuleAnchorVerifier, SequenceTheorems, TLAPS

-----------------------------------------------------------------------------
(* The invariant of the chain.                                             *)

\* Blocks are numbered by height.
Numbered == \A h \in 1..Height : chain[h].hash.number = h

\* A slot, once written, is the same at every greater height.
WriteOnce ==
    \A g, h \in 0..Height, k \in Key :
        g <= h /\ StorageAt(g)[k] # Zero => StorageAt(h)[k] = StorageAt(g)[k]

\* The slots written at height h are those anchored up to h, with the
\* manifests the anchoring calls carried.
Accounted ==
    \A h \in 0..Height, k \in Key :
        /\ StorageAt(h)[k] # Zero => \E i \in 1..h : Anchors(i, k)
        /\ \A i \in 1..h : Anchors(i, k) =>
               /\ StorageAt(h)[k] = TxCall[chain[i].tx].manifest
               /\ StorageAt(h)[k] # Zero

\* A key is anchored once on a branch.
AnchoredOnce ==
    \A g, h \in 1..Height, k \in Key : Anchors(g, k) /\ Anchors(h, k) => g = h

ChainInv ==
    /\ ChainTypeOK
    /\ Height <= finalized + MaxReorgDepth
    /\ Numbered
    /\ WriteOnce
    /\ Accounted
    /\ AnchoredOnce

-----------------------------------------------------------------------------
(* The invariant of the verifier.                                          *)

AfterReceipt == Calls \ {"get_transaction_receipt"}
AfterTransaction == AfterReceipt \ {"get_transaction"}
AfterBlockNumber == AfterTransaction \ {"block_number"}

\* A receipt is for a block of the canonical branch.
ReceiptOnBranch(v) ==
    LET b == run[v].receipt.block
    IN  /\ b.number \in 1..Height
        /\ chain[b.number].hash = b
        /\ chain[b.number].tx = run[v].job.tx
        /\ chain[b.number].ok = run[v].receipt.ok

\* What a run has established when it is about to make its next call.
RunInv(v) ==
    /\ run[v].pc \in Calls => run[v].job \in Job /\ run[v].job.batch.valid
    /\ run[v].pc \in AfterReceipt => run[v].receipt \in Receipt
    /\ run[v].pc \in AfterTransaction =>
           /\ run[v].receipt.ok
           /\ TransactionMatches(run[v].job.tx, run[v].job.batch)
    /\ run[v].pc \in AfterBlockNumber =>
           /\ run[v].confirmations >= Confirmations
           /\ run[v].receipt.block.number <= finalized

\* The same of issued evidence.
EvidenceInv(e) ==
    /\ e.batch.valid
    /\ TransactionMatches(e.tx, e.batch)
    /\ e.block.number <= finalized

VerifierInv ==
    /\ TypeOK
    /\ \A v \in Verifier : RunInv(v)
    /\ \A e \in issued : EvidenceInv(e)

\* With no reorganisation between the two reads, what a run and its evidence
\* point at is on the branch.
CalmInv ==
    /\ \A v \in Verifier : run[v].pc \in AfterReceipt => ReceiptOnBranch(v)
    /\ \A e \in issued : OnBranch(e)

-----------------------------------------------------------------------------
(* Steps of the chain.                                                     *)

\* Every height of a well-typed chain has a well-typed storage.
LEMMA StorageType ==
    ASSUME ChainTypeOK, NEW h \in 0..Height
    PROVE  StorageAt(h) \in Storage
<1>1. GenesisStorage \in Storage
  BY DEF GenesisStorage, Storage
<1>2. CASE h = 0
  BY <1>1, <1>2 DEF StorageAt
<1>3. CASE h # 0
  <2>1. h \in 1..Len(chain)
    BY <1>3 DEF ChainTypeOK, Height
  <2>2. chain[h] \in Block
    BY <2>1, ElementOfSeq DEF ChainTypeOK
  <2> QED
    BY <1>3, <2>2 DEF StorageAt, Block
<1> QED
  BY <1>2, <1>3

\* Calling the contract keeps its storage well typed.
LEMMA CallType ==
    ASSUME NEW s \in Storage, NEW a \in Address, NEW c \in Call
    PROVE  /\ Accepts(s, a, c) \in BOOLEAN
           /\ AnchorRuleBatch(s, a, c) \in Storage
<1>1. Accepts(s, a, c) \in BOOLEAN
  BY DEF Accepts
<1>2. CASE Accepts(s, a, c)
  <2>1. c.manifest \in Manifest \cup {Zero}
    BY DEF Call
  <2> QED
    BY <1>1, <1>2, <2>1 DEF AnchorRuleBatch, Storage
<1>3. CASE ~Accepts(s, a, c)
  BY <1>1, <1>3 DEF AnchorRuleBatch
<1> QED
  BY <1>1, <1>2, <1>3

\* What a block adds to the storage below it: nothing, or one slot that was
\* not written before.
LEMMA CallEffect ==
    ASSUME NEW s \in Storage, NEW a \in Address, NEW c \in Call
    PROVE  /\ ~Accepts(s, a, c) => AnchorRuleBatch(s, a, c) = s
           /\ Accepts(s, a, c) =>
                 /\ <<a, c.root>> \in Key
                 /\ s[<<a, c.root>>] = Zero
                 /\ c.manifest \in Manifest
                 /\ c.manifest # Zero
                 /\ AnchorRuleBatch(s, a, c)
                        = [s EXCEPT ![<<a, c.root>>] = c.manifest]
<1>1. c.root \in Root \cup {Zero} /\ c.manifest \in Manifest \cup {Zero}
  BY DEF Call
<1> QED
  BY <1>1 DEF Accepts, AnchorRuleBatch, Key

LEMMA NextBlockType ==
    ASSUME ChainTypeOK, NEW t \in Tx \cup {NoTx}
    PROVE  NextBlock(t) \in Block
<1>1. StorageAt(Height) \in Storage
  <2>1. Height \in 0..Height
    BY LenProperties DEF ChainTypeOK, Height
  <2> QED
    BY <2>1, StorageType
<1>2. [number |-> Height + 1, branch |-> reorgs] \in BlockHash
  BY LenProperties DEF ChainTypeOK, Height, BlockHash
<1>3. CASE t = NoTx
  BY <1>1, <1>2, <1>3 DEF NextBlock, Block
<1>4. CASE t # NoTx
  <2>1. TxTo[t] \in Address /\ TxCall[t] \in Call
    BY <1>4, ChainAssumption
  <2> QED
    BY <1>1, <1>2, <1>4, <2>1, CallType DEF NextBlock, Block
<1> QED
  BY <1>3, <1>4

\* Mining leaves every block where it is and puts one on top.
LEMMA MineEffect ==
    ASSUME ChainTypeOK, NEW t \in Tx \cup {NoTx}, Mine(t)
    PROVE  /\ chain' \in Seq(Block)
           /\ Height \in Nat
           /\ Height' = Height + 1
           /\ \A i \in 1..Height : chain'[i] = chain[i]
           /\ chain'[Height + 1] = NextBlock(t)
           /\ \A i \in 0..Height : StorageAt(i)' = StorageAt(i)
           /\ \A i : i = Height + 1 => StorageAt(i)' = NextBlock(t).storage
<1>1. chain \in Seq(Block) /\ NextBlock(t) \in Block
  BY NextBlockType DEF ChainTypeOK
<1>2. chain' = Append(chain, NextBlock(t))
  BY DEF Mine
<1>3. /\ chain' \in Seq(Block)
      /\ Len(chain') = Len(chain) + 1
      /\ \A i \in 1..Len(chain) : chain'[i] = chain[i]
      /\ chain'[Len(chain) + 1] = NextBlock(t)
  BY <1>1, <1>2, AppendProperties
<1>4. Height \in Nat
  BY <1>1, LenProperties DEF Height
<1>5. Height' = Height + 1
  BY <1>3 DEF Height
<1>6. \A i \in 1..Height : chain'[i] = chain[i]
  BY <1>3 DEF Height
<1>7. chain'[Height + 1] = NextBlock(t)
  BY <1>3 DEF Height
<1>8. \A i \in 0..Height : StorageAt(i)' = StorageAt(i)
  BY <1>4, <1>6 DEF StorageAt
<1>9. \A i : i = Height + 1 => StorageAt(i)' = NextBlock(t).storage
  BY <1>4, <1>7 DEF StorageAt
<1> QED
  BY <1>3, <1>4, <1>5, <1>6, <1>7, <1>8, <1>9

\* A reorganisation leaves the blocks up to its height where they are.
LEMMA ReorganiseEffect ==
    ASSUME ChainTypeOK, NEW h \in 0..Height, Reorganise(h)
    PROVE  /\ chain' \in Seq(Block)
           /\ h \in Nat /\ Height \in Nat /\ h < Height /\ finalized <= h
           /\ Height' = h
           /\ \A i \in 1..h : chain'[i] = chain[i]
           /\ \A i \in 0..h : StorageAt(i)' = StorageAt(i)
<1>1. chain \in Seq(Block) /\ Height \in Nat /\ h \in Nat
  BY LenProperties DEF ChainTypeOK, Height
<1>2. chain' = SubSeq(chain, 1, h) /\ h < Height /\ finalized <= h
  BY DEF Reorganise
<1>3. /\ chain' \in Seq(Block)
      /\ Len(chain') = IF 1 <= h THEN h - 1 + 1 ELSE 0
      /\ \A i \in 1..(h - 1 + 1) : chain'[i] = chain[1 + i - 1]
  <2>1. h <= Len(chain)
    BY DEF Height
  <2>2. \A i \in 1..h : i \in 1..Len(chain)
    BY <1>1, <2>1 DEF Height
  <2> QED
    BY <1>1, <1>2, <2>1, <2>2, SubSeqProperties
<1>4. Height' = h
  BY <1>1, <1>3 DEF Height
<1>5. \A i \in 1..h : chain'[i] = chain[i]
  <2> SUFFICES ASSUME NEW i \in 1..h PROVE chain'[i] = chain[i]
    OBVIOUS
  <2>1. 1 + i - 1 = i /\ i \in 1..(h - 1 + 1)
    BY <1>1
  <2> QED
    BY <1>3, <2>1
<1>6. \A i \in 0..h : StorageAt(i)' = StorageAt(i)
  BY <1>1, <1>5 DEF StorageAt
<1> QED
  BY <1>1, <1>2, <1>3, <1>4, <1>5, <1>6

\* Only the heights a branch has matter to Anchors.
LEMMA AnchorsFrame ==
    ASSUME NEW i, chain'[i] = chain[i], NEW k
    PROVE  Anchors(i, k)' <=> Anchors(i, k)
BY DEF Anchors

LEMMA ChainTypeAdvance ==
    ASSUME ChainTypeOK, Advance
    PROVE  ChainTypeOK'
<1>1. ASSUME NEW t \in Tx, Broadcast(t) PROVE ChainTypeOK'
  BY <1>1 DEF Broadcast, ChainTypeOK, Height
<1>2. ASSUME NEW t \in Tx, Evict(t) PROVE ChainTypeOK'
  BY <1>2 DEF Evict, ChainTypeOK, Height
<1>3. ASSUME NEW t \in Tx \cup {NoTx}, Mine(t) PROVE ChainTypeOK'
  <2>1. /\ chain' \in Seq(Block) /\ Height \in Nat /\ Height' = Height + 1
    BY <1>3, MineEffect
  <2>2. Height < MaxHeight /\ pool' = pool \ {t} /\ reorgs' = reorgs
    BY <1>3 DEF Mine
  <2>3. finalized' \in 0..Height'
    BY <1>3, <2>1, ChainAssumption DEF Mine, OutOfReach, ChainTypeOK
  <2> QED
    BY <2>1, <2>2, <2>3, ChainAssumption DEF ChainTypeOK
<1> QED
  BY <1>1, <1>2, <1>3 DEF Advance

LEMMA ChainTypeReorganise ==
    ASSUME ChainTypeOK, NEW h \in 0..Height, Reorganise(h)
    PROVE  ChainTypeOK'
<1>1. /\ chain' \in Seq(Block) /\ Height' = h /\ h < Height /\ finalized <= h
      /\ h \in Nat /\ Height \in Nat
  BY ReorganiseEffect
<1>2. pool' \subseteq Tx
  <2>1. \A i \in (h + 1)..Height : chain[i].tx \in Tx \cup {NoTx}
    <3> SUFFICES ASSUME NEW i \in (h + 1)..Height
                 PROVE  chain[i] \in Block
      BY DEF Block
    <3>1. i \in 1..Len(chain)
      BY <1>1 DEF Height
    <3> QED
      BY <3>1, ElementOfSeq DEF ChainTypeOK
  <2> QED
    BY <2>1 DEF Reorganise, ChainTypeOK
<1>3. reorgs' \in 0..MaxReorgs /\ finalized' = finalized
  BY ChainAssumption DEF Reorganise, ChainTypeOK
<1> QED
  BY <1>1, <1>2, <1>3, ChainAssumption DEF ChainTypeOK

LEMMA ChainInvInit ==
    ASSUME ChainInit
    PROVE  ChainInv
<1>1. chain = <<>> /\ Height = 0
  BY EmptySeq DEF ChainInit, Height
<1>2. ChainTypeOK
  BY <1>1, EmptySeq, ChainAssumption DEF ChainInit, ChainTypeOK
<1>3. Height <= finalized + MaxReorgDepth
  BY <1>1, ChainAssumption DEF ChainInit
<1>4. \A k \in Key : StorageAt(0)[k] = Zero
  BY DEF StorageAt, GenesisStorage
<1>5. Numbered /\ AnchoredOnce
  BY <1>1 DEF Numbered, AnchoredOnce
<1>6. WriteOnce /\ Accounted
  BY <1>1, <1>4 DEF WriteOnce, Accounted
<1> QED
  BY <1>2, <1>3, <1>5, <1>6 DEF ChainInv

\* Broadcast and eviction touch the pool only.
LEMMA ChainInvPool ==
    ASSUME ChainInv, UNCHANGED <<chain, reorgs, finalized>>, pool' \subseteq Tx
    PROVE  ChainInv'
<1>1. Height' = Height /\ \A h : StorageAt(h)' = StorageAt(h)
  BY DEF Height, StorageAt
<1>2. \A i, k : Anchors(i, k)' <=> Anchors(i, k)
  BY DEF Anchors
<1>3. ChainTypeOK'
  BY <1>1 DEF ChainInv, ChainTypeOK
<1>4. Numbered'
  BY <1>1 DEF ChainInv, Numbered
<1>5. WriteOnce'
  BY <1>1 DEF ChainInv, WriteOnce
<1>6. Accounted'
  BY <1>1, <1>2 DEF ChainInv, Accounted
<1>7. AnchoredOnce'
  BY <1>1, <1>2 DEF ChainInv, AnchoredOnce
<1> QED
  BY <1>1, <1>3, <1>4, <1>5, <1>6, <1>7 DEF ChainInv

LEMMA ChainInvReorganise ==
    ASSUME ChainInv, NEW h \in 0..Height, Reorganise(h)
    PROVE  ChainInv'
<1>0. ChainTypeOK
  BY DEF ChainInv
<1>1. /\ h \in Nat /\ Height \in Nat /\ h < Height /\ finalized <= h
      /\ Height' = h
      /\ \A i \in 1..h : chain'[i] = chain[i]
      /\ \A i \in 0..h : StorageAt(i)' = StorageAt(i)
  BY <1>0, ReorganiseEffect
<1>2. \A k : \A i \in 1..h : Anchors(i, k)' <=> Anchors(i, k)
  BY <1>1, AnchorsFrame
<1>3. ChainTypeOK'
  BY <1>0, ChainTypeReorganise
<1>4. Height' <= finalized' + MaxReorgDepth
  <2>1. finalized' = finalized /\ finalized \in Nat /\ MaxReorgDepth \in Nat
    BY <1>0, ChainAssumption DEF Reorganise, ChainTypeOK
  <2> QED
    BY <1>1, <2>1 DEF ChainInv
<1>5. Numbered'
  BY <1>1 DEF ChainInv, Numbered
<1>6. WriteOnce'
  BY <1>1 DEF ChainInv, WriteOnce
<1>7. Accounted'
  <2> SUFFICES ASSUME NEW g \in 0..h, NEW k \in Key
               PROVE  /\ StorageAt(g)'[k] # Zero => \E i \in 1..g : Anchors(i, k)'
                      /\ \A i \in 1..g : Anchors(i, k)' =>
                            /\ StorageAt(g)'[k] = TxCall[chain'[i].tx].manifest
                            /\ StorageAt(g)'[k] # Zero
    BY <1>1 DEF Accounted
  <2>1. /\ StorageAt(g)' = StorageAt(g) /\ g \in 0..Height
        /\ \A i \in 1..g : i \in 1..h
    BY <1>1
  <2> QED
    BY <1>1, <1>2, <2>1 DEF ChainInv, Accounted
<1>8. AnchoredOnce'
  BY <1>1, <1>2 DEF ChainInv, AnchoredOnce
<1> QED
  BY <1>3, <1>4, <1>5, <1>6, <1>7, <1>8 DEF ChainInv

\* The new block anchors key k only if the slot was empty, and then writes
\* it; every other slot keeps its value.
LEMMA MineAnchors ==
    ASSUME ChainTypeOK, NEW t \in Tx \cup {NoTx}, Mine(t), NEW k \in Key,
           NEW n, n = Height + 1
    PROVE  /\ Anchors(n, k)' =>
                 /\ StorageAt(Height)[k] = Zero
                 /\ NextBlock(t).storage[k] = TxCall[chain'[n].tx].manifest
                 /\ NextBlock(t).storage[k] # Zero
           /\ ~Anchors(n, k)' =>
                 NextBlock(t).storage[k] = StorageAt(Height)[k]
<1> DEFINE s == StorageAt(Height)
<1>1. chain'[n] = NextBlock(t)
  BY MineEffect
<1>2. s \in Storage
  <2>1. Height \in 0..Height
    BY LenProperties DEF ChainTypeOK, Height
  <2> QED
    BY <2>1, StorageType
<1>3. Anchors(n, k)' <=> /\ NextBlock(t).ok
                         /\ NextBlock(t).tx # NoTx
                         /\ TxTo[NextBlock(t).tx] = k[1]
                         /\ TxCall[NextBlock(t).tx].root = k[2]
  BY <1>1 DEF Anchors
<1>4. CASE t = NoTx
  BY <1>3, <1>4 DEF NextBlock
<1>5. CASE t # NoTx
  <2> DEFINE a == TxTo[t]
             c == TxCall[t]
  <2>1. a \in Address /\ c \in Call
    BY <1>5, ChainAssumption
  <2>2. /\ NextBlock(t).ok <=> Accepts(s, a, c)
        /\ NextBlock(t).tx = t
        /\ NextBlock(t).storage = AnchorRuleBatch(s, a, c)
    BY <1>5 DEF NextBlock
  <2>3. k = <<k[1], k[2]>>
    BY DEF Key
  <2>4. Accepts(s, a, c) \in BOOLEAN
    BY <1>2, <2>1, CallType
  <2>5. /\ ~Accepts(s, a, c) => AnchorRuleBatch(s, a, c) = s
        /\ Accepts(s, a, c) =>
              /\ <<a, c.root>> \in Key
              /\ s[<<a, c.root>>] = Zero
              /\ c.manifest # Zero
              /\ AnchorRuleBatch(s, a, c)
                     = [s EXCEPT ![<<a, c.root>>] = c.manifest]
    BY <1>2, <2>1, CallEffect
  <2>6. Anchors(n, k)' <=> Accepts(s, a, c) /\ <<a, c.root>> = k
    BY <1>3, <2>2, <2>3, <1>5, <2>4
  <2> HIDE DEF a, c, s
  <2>7. CASE Anchors(n, k)'
    <3>1. AnchorRuleBatch(s, a, c)[k] = c.manifest
      BY <1>2, <2>5, <2>6, <2>7 DEF Storage
    <3> QED
      BY <1>1, <2>2, <2>5, <2>6, <2>7, <3>1 DEF s, c
  <2>8. CASE ~Anchors(n, k)'
    <3>1. AnchorRuleBatch(s, a, c)[k] = s[k]
      BY <1>2, <2>4, <2>5, <2>6, <2>8 DEF Storage
    <3> QED
      BY <2>2, <2>8, <3>1 DEF s
  <2> QED
    BY <2>7, <2>8
<1> QED
  BY <1>4, <1>5

LEMMA ChainInvMine ==
    ASSUME ChainInv, NEW t \in Tx \cup {NoTx}, Mine(t)
    PROVE  ChainInv'
<1>0. ChainTypeOK
  BY DEF ChainInv
<1>1. PICK n : n = Height + 1
  OBVIOUS
<1>2. PICK w : w = NextBlock(t).storage
  OBVIOUS
<1>3. /\ Height \in Nat /\ n \in Nat /\ Height' = n
      /\ \A i \in 1..Height : chain'[i] = chain[i]
      /\ chain'[n] = NextBlock(t)
      /\ \A i \in 0..Height : StorageAt(i)' = StorageAt(i)
      /\ StorageAt(n)' = w
  BY <1>0, <1>1, <1>2, MineEffect
<1>4. \A k : \A i \in 1..Height : Anchors(i, k)' <=> Anchors(i, k)
  BY <1>3, AnchorsFrame
<1>5. \A k \in Key :
         /\ Anchors(n, k)' => /\ StorageAt(Height)[k] = Zero
                              /\ w[k] = TxCall[chain'[n].tx].manifest
                              /\ w[k] # Zero
         /\ ~Anchors(n, k)' => w[k] = StorageAt(Height)[k]
  BY <1>0, <1>1, <1>2, MineAnchors
<1>6. ChainTypeOK'
  BY <1>0, ChainTypeAdvance DEF Advance
<1>7. Height' <= finalized' + MaxReorgDepth
  <2>1. finalized \in Nat /\ MaxReorgDepth \in Nat
    BY <1>0, ChainAssumption DEF ChainTypeOK
  <2> QED
    BY <1>1, <1>3, <2>1 DEF Mine, OutOfReach
<1>8. Numbered'
  <2> SUFFICES ASSUME NEW h \in 1..n PROVE chain'[h].hash.number = h
    BY <1>3 DEF Numbered
  <2>1. CASE h \in 1..Height
    BY <1>3, <2>1 DEF ChainInv, Numbered
  <2>2. CASE h = n
    BY <1>1, <1>3, <2>2 DEF NextBlock
  <2> QED
    BY <1>1, <1>3, <2>1, <2>2
<1>9. WriteOnce'
  <2> SUFFICES ASSUME NEW g \in 0..n, NEW h \in 0..n, NEW k \in Key, g <= h,
                      StorageAt(g)'[k] # Zero
               PROVE  StorageAt(h)'[k] = StorageAt(g)'[k]
    BY <1>3 DEF WriteOnce
  <2>1. CASE h \in 0..Height
    BY <1>3, <2>1 DEF ChainInv, WriteOnce
  <2>2. CASE h = n /\ g \in 0..Height
    <3>1. StorageAt(Height)[k] = StorageAt(g)[k] /\ StorageAt(g)[k] # Zero
      BY <1>3, <2>2 DEF ChainInv, WriteOnce
    <3> QED
      BY <1>3, <1>5, <2>2, <3>1
  <2>3. CASE h = n /\ g = n
    BY <2>3
  <2> QED
    BY <1>1, <1>3, <2>1, <2>2, <2>3
<1>10. Accounted'
  <2> SUFFICES ASSUME NEW h \in 0..n, NEW k \in Key
               PROVE  /\ StorageAt(h)'[k] # Zero => \E i \in 1..h : Anchors(i, k)'
                      /\ \A i \in 1..h : Anchors(i, k)' =>
                            /\ StorageAt(h)'[k] = TxCall[chain'[i].tx].manifest
                            /\ StorageAt(h)'[k] # Zero
    BY <1>3 DEF Accounted
  <2>1. CASE h \in 0..Height
    <3>1. \A i \in 1..h : i \in 1..Height
      BY <1>3, <2>1
    <3> QED
      BY <1>3, <1>4, <2>1, <3>1 DEF ChainInv, Accounted
  <2>2. CASE h = n
    <3>1. Height \in 0..Height /\ \A i \in 1..h : i \in 1..Height \/ i = n
      BY <1>1, <1>3, <2>2
    <3>2. /\ StorageAt(Height)[k] # Zero => \E i \in 1..Height : Anchors(i, k)
          /\ \A i \in 1..Height : Anchors(i, k) =>
                /\ StorageAt(Height)[k] = TxCall[chain[i].tx].manifest
                /\ StorageAt(Height)[k] # Zero
      BY <3>1 DEF ChainInv, Accounted
    <3>3. CASE Anchors(n, k)'
      <4>1. \A i \in 1..Height : ~Anchors(i, k)'
        BY <1>4, <1>5, <3>2, <3>3
      <4>2. n \in 1..h
        BY <1>1, <1>3, <2>2
      <4> QED
        BY <1>3, <1>5, <2>2, <3>1, <3>3, <4>1, <4>2
    <3>4. CASE ~Anchors(n, k)'
      <4>1. StorageAt(h)'[k] = StorageAt(Height)[k]
        BY <1>3, <1>5, <2>2, <3>4
      <4>2. 1..Height \subseteq 1..h
        BY <1>1, <1>3, <2>2
      <4> QED
        BY <1>3, <1>4, <3>1, <3>2, <3>4, <4>1, <4>2
    <3> QED
      BY <3>3, <3>4
  <2> QED
    BY <1>1, <1>3, <2>1, <2>2
<1>11. AnchoredOnce'
  <2> SUFFICES ASSUME NEW g \in 1..n, NEW h \in 1..n, NEW k \in Key,
                      Anchors(g, k)', Anchors(h, k)'
               PROVE  g = h
    BY <1>3 DEF AnchoredOnce
  <2>1. \A i \in 1..Height : Anchors(i, k)' => ~Anchors(n, k)'
    <3> SUFFICES ASSUME NEW i \in 1..Height, Anchors(i, k)'
                 PROVE  StorageAt(Height)[k] # Zero
      BY <1>5
    <3>1. Height \in 0..Height /\ Anchors(i, k)
      BY <1>3, <1>4
    <3> QED
      BY <3>1 DEF ChainInv, Accounted
  <2>2. CASE g \in 1..Height /\ h \in 1..Height
    BY <1>4, <2>2 DEF ChainInv, AnchoredOnce
  <2> QED
    BY <1>1, <1>3, <2>1, <2>2
<1> QED
  BY <1>6, <1>7, <1>8, <1>9, <1>10, <1>11 DEF ChainInv

LEMMA ChainInvStep ==
    ASSUME ChainInv, [Next]_vars
    PROVE  ChainInv'
<1>1. CASE ChainStep
  <2>1. ASSUME NEW t \in Tx, Broadcast(t) PROVE ChainInv'
    <3>1. pool' \subseteq Tx /\ UNCHANGED <<chain, reorgs, finalized>>
      BY <2>1 DEF Broadcast, ChainInv, ChainTypeOK
    <3> QED
      BY <3>1, ChainInvPool
  <2>2. ASSUME NEW t \in Tx, Evict(t) PROVE ChainInv'
    <3>1. pool' \subseteq Tx /\ UNCHANGED <<chain, reorgs, finalized>>
      BY <2>2 DEF Evict, ChainInv, ChainTypeOK
    <3> QED
      BY <3>1, ChainInvPool
  <2>3. ASSUME NEW t \in Tx \cup {NoTx}, Mine(t) PROVE ChainInv'
    BY <2>3, ChainInvMine
  <2>4. ASSUME NEW h \in 0..Height, Reorganise(h) PROVE ChainInv'
    BY <2>4, ChainInvReorganise
  <2> QED
    BY <1>1, <2>1, <2>2, <2>3, <2>4 DEF ChainStep, Advance
<1>2. CASE UNCHANGED chainVars
  <2>1. pool' \subseteq Tx /\ UNCHANGED <<chain, reorgs, finalized>>
    BY <1>2 DEF chainVars, ChainInv, ChainTypeOK
  <2> QED
    BY <2>1, ChainInvPool
<1>3. ASSUME NEW v \in Verifier, NEW j \in Job, Start(v, j)
      PROVE  UNCHANGED chainVars
  BY <1>3 DEF Start
<1>4. ASSUME NEW v \in Verifier, Step(v)
      PROVE  UNCHANGED chainVars
  BY <1>4 DEF Step, GetReceipt, GetTransaction, GetBlockNumber, GetManifest,
              CheckOutput, OpenOutput, WriteOutput
<1>5. ASSUME NEW v \in Verifier, Crash(v)
      PROVE  UNCHANGED chainVars
  BY <1>5 DEF Crash
<1>6. ASSUME NEW o \in Output, Clear(o)
      PROVE  UNCHANGED chainVars
  BY <1>6 DEF Clear
<1>7. CASE UNCHANGED vars
  BY <1>2, <1>7 DEF vars
<1> QED
  BY <1>1, <1>2, <1>3, <1>4, <1>5, <1>6, <1>7 DEF Next

\* The chain keeps its invariant whatever the verifiers do.
THEOREM ChainInvariant == Spec => []ChainInv
<1>1. Init => ChainInv
  BY ChainInvInit DEF Init
<1>2. ChainInv /\ [Next]_vars => ChainInv'
  BY ChainInvStep
<1> QED
  BY <1>1, <1>2, PTL DEF Spec

\* LogExplainsStorage holds for every set of deployments, roots, transactions
\* and calls, and for reorganisations of every depth: at most one successful
\* call per root of a contract on a branch, and the mapping is exactly what
\* these calls wrote.
THEOREM LogIsTheLedger == Spec => []LogExplainsStorage
<1>1. ChainInv => LogExplainsStorage
  <2> SUFFICES ASSUME ChainInv, NEW k \in Key
               PROVE  /\ \A g, h \in AnchoredAt(k) : g = h
                      /\ (StorageAt(Height)[k] # Zero) <=> (AnchoredAt(k) # {})
                      /\ \A h \in AnchoredAt(k) :
                            StorageAt(Height)[k] = TxCall[chain[h].tx].manifest
    BY DEF LogExplainsStorage
  <2>1. Height \in Nat /\ Height \in 0..Height
    BY LenProperties DEF ChainInv, ChainTypeOK, Height
  <2>2. \A h \in 1..Height : h \in AnchoredAt(k) <=> Anchors(h, k)
    BY DEF AnchoredAt
  <2> QED
    BY <2>1, <2>2 DEF ChainInv, Accounted, AnchoredOnce, AnchoredAt
<1> QED
  BY <1>1, ChainInvariant, PTL

-----------------------------------------------------------------------------
(* Steps of the verifier.                                                  *)

\* No chain step changes a block out of reach, nor brings one back in reach;
\* only a reorganisation changes any block at all.
LEMMA FinalizedStays ==
    ASSUME ChainTypeOK, ChainTypeOK', ChainStep \/ UNCHANGED chainVars
    PROVE  /\ finalized <= finalized'
           /\ \A i \in 1..finalized : i \in 1..Height' /\ chain'[i] = chain[i]
           /\ \/ \A i \in 1..Height : i \in 1..Height' /\ chain'[i] = chain[i]
              \/ \E h \in 0..Height : Reorganise(h) /\ ChainStep
<1>0. /\ finalized \in Nat /\ Height \in Nat /\ Height' \in Nat
      /\ finalized <= Height
  BY LenProperties DEF ChainTypeOK, Height
<1>1. ASSUME NEW t \in Tx \cup {NoTx}, Mine(t)
      PROVE  /\ finalized <= finalized'
             /\ \A i \in 1..Height : i \in 1..Height' /\ chain'[i] = chain[i]
  <2>1. Height' = Height + 1 /\ \A i \in 1..Height : chain'[i] = chain[i]
    BY <1>1, MineEffect
  <2>2. finalized <= finalized'
    BY <1>0, <1>1, ChainAssumption DEF Mine, OutOfReach
  <2> QED
    BY <1>0, <2>1, <2>2
<1>2. ASSUME NEW h \in 0..Height, Reorganise(h)
      PROVE  /\ finalized <= finalized'
             /\ \A i \in 1..finalized : i \in 1..Height' /\ chain'[i] = chain[i]
  <2>1. /\ Height' = h /\ finalized <= h /\ h \in Nat
        /\ \A i \in 1..h : chain'[i] = chain[i]
    BY <1>2, ReorganiseEffect
  <2>2. finalized' = finalized
    BY <1>2 DEF Reorganise
  <2> QED
    BY <1>0, <2>1, <2>2
<1>3. CASE UNCHANGED <<chain, finalized>>
  <2>1. Height' = Height
    BY <1>3 DEF Height
  <2> QED
    BY <1>0, <1>3, <2>1
<1>4. ASSUME NEW t \in Tx, Broadcast(t) \/ Evict(t)
      PROVE  UNCHANGED <<chain, finalized>>
  BY <1>4 DEF Broadcast, Evict
<1>5. CASE UNCHANGED chainVars
  BY <1>3, <1>5 DEF chainVars
<1>6. CASE ChainStep
  <2>1. CASE Advance
    <3>1. CASE \E t \in Tx : Broadcast(t) \/ Evict(t)
      BY <1>3, <1>4, <3>1
    <3>2. CASE \E t \in Tx \cup {NoTx} : Mine(t)
      BY <1>0, <1>1, <3>2
    <3> QED
      BY <2>1, <3>1, <3>2 DEF Advance
  <2>2. CASE \E h \in 0..Height : Reorganise(h)
    BY <1>2, <1>6, <2>2
  <2> QED
    BY <1>6, <2>1, <2>2 DEF ChainStep
<1> QED
  BY <1>5, <1>6

\* A step that changes one run only leaves the others as they were.
LEMMA OneRun ==
    ASSUME VerifierInv, NEW v \in Verifier, NEW r \in RunState,
           run' = [run EXCEPT ![v] = r], finalized' = finalized, RunInv(v)'
    PROVE  /\ run' \in [Verifier -> RunState]
           /\ \A u \in Verifier : RunInv(u)'
<1>1. run \in [Verifier -> RunState]
  BY DEF VerifierInv, TypeOK
<1>2. \A u \in Verifier \ {v} : run'[u] = run[u]
  BY <1>1
<1>3. ASSUME NEW u \in Verifier \ {v} PROVE RunInv(u)'
  BY <1>2, <1>3 DEF RunInv, VerifierInv
<1> QED
  BY <1>1, <1>3

\* A run that ends holds nothing.
LEMMA EndRun ==
    ASSUME VerifierInv, NEW v \in Verifier, NEW end \in Ends, End(v, end),
           finalized' = finalized
    PROVE  /\ run' \in [Verifier -> RunState]
           /\ \A u \in Verifier : RunInv(u)'
           /\ run' = [run EXCEPT ![v] = Rest(end)]
<1>1. Rest(end) \in RunState
  BY DEF Rest, RunState
<1>2. run'[v] = Rest(end)
  BY DEF End, VerifierInv, TypeOK
<1>3. RunInv(v)'
  BY <1>2 DEF RunInv, Rest, Ends, Calls, AfterReceipt, AfterTransaction,
              AfterBlockNumber
<1> QED
  BY <1>1, <1>3, OneRun DEF End

\* A run that goes on to another call keeps the rest of what it holds.
LEMMA ProceedRun ==
    ASSUME VerifierInv, NEW v \in Verifier, NEW call \in Calls,
           Proceed(v, call)
    PROVE  /\ [run[v] EXCEPT !.pc = call] \in RunState
           /\ run' = [run EXCEPT ![v] = [run[v] EXCEPT !.pc = call]]
           /\ run'[v].pc = call
           /\ run'[v].job = run[v].job
           /\ run'[v].receipt = run[v].receipt
           /\ run'[v].confirmations = run[v].confirmations
<1>1. run \in [Verifier -> RunState] /\ run[v] \in RunState
  BY DEF VerifierInv, TypeOK
<1> QED
  BY <1>1 DEF Proceed, RunState

\* The arithmetic the confirmation count stands for: enough confirmations
\* put a block out of the reach of reorganisations.
LEMMA ConfirmedIsOutOfReach ==
    ASSUME ChainInv, NEW n \in Nat, Confirmed(ConfirmationsOf(Height, n))
    PROVE  n <= finalized /\ ConfirmationsOf(Height, n) \in Nat
<1>1. /\ Height \in Nat /\ finalized \in Nat /\ MaxReorgDepth \in Nat
      /\ Height <= finalized + MaxReorgDepth
  BY LenProperties, ChainAssumption DEF ChainInv, ChainTypeOK, Height
<1>2. Confirmations \in Nat /\ Confirmations > MaxReorgDepth
  BY VerifierAssumption, DeepEnough
<1> QED
  BY <1>1, <1>2 DEF Confirmed, ConfirmationsOf

LEMMA StartInv ==
    ASSUME VerifierInv, NEW v \in Verifier, NEW j \in Job, Start(v, j)
    PROVE  /\ run' \in [Verifier -> RunState]
           /\ \A u \in Verifier : RunInv(u)'
<1>1. finalized' = finalized
  BY DEF Start, chainVars
<1>2. CASE End(v, "failed")
  BY <1>1, <1>2, EndRun DEF Ends
<1>3. CASE /\ j.batch.valid
           /\ run' = [run EXCEPT ![v] =
                         [Rest("get_transaction_receipt") EXCEPT !.job = j]]
  <2> DEFINE r == [Rest("get_transaction_receipt") EXCEPT !.job = j]
  <2>1. r \in RunState
    BY DEF RunState, Rest, Calls
  <2>2. run'[v] = r
    BY <1>3 DEF VerifierInv, TypeOK
  <2>3. RunInv(v)'
    BY <1>3, <2>2 DEF RunInv, Rest, AfterReceipt, AfterTransaction,
                      AfterBlockNumber
  <2> QED
    BY <1>1, <1>3, <2>1, <2>3, OneRun
<1> QED
  BY <1>2, <1>3 DEF Start

LEMMA GetReceiptInv ==
    ASSUME VerifierInv, NEW v \in Verifier, GetReceipt(v)
    PROVE  /\ run' \in [Verifier -> RunState]
           /\ \A u \in Verifier : RunInv(u)'
<1>1. finalized' = finalized
  BY DEF GetReceipt, chainVars
<1>2. CASE End(v, "failed")
  BY <1>1, <1>2, EndRun DEF Ends
<1>3. ASSUME NEW h \in 1..Height,
             run' = [run EXCEPT ![v].pc = "get_transaction",
                                ![v].receipt = [block |-> chain[h].hash,
                                                ok |-> chain[h].ok]]
      PROVE  /\ run' \in [Verifier -> RunState]
             /\ \A u \in Verifier : RunInv(u)'
  <2> DEFINE c == [block |-> chain[h].hash, ok |-> chain[h].ok]
             r == [run[v] EXCEPT !.pc = "get_transaction", !.receipt = c]
  <2>1. run \in [Verifier -> RunState] /\ run[v] \in RunState
    BY DEF VerifierInv, TypeOK
  <2>2. c \in Receipt
    <3>1. chain[h] \in Block
      BY ElementOfSeq DEF VerifierInv, TypeOK, ChainTypeOK, Height
    <3> QED
      BY <3>1 DEF Block, Receipt
  <2>3. r \in RunState
    BY <2>1, <2>2 DEF RunState, Calls
  <2>4. run' = [run EXCEPT ![v] = r]
    BY <1>3, <2>1
  <2>5. /\ run'[v].pc = "get_transaction" /\ run'[v].job = run[v].job
        /\ run'[v].receipt = c
    BY <2>1, <2>4 DEF RunState
  <2>6. run[v].job \in Job /\ run[v].job.batch.valid
    BY DEF VerifierInv, RunInv, GetReceipt, At, Calls
  <2>7. RunInv(v)'
    BY <2>2, <2>5, <2>6 DEF RunInv, AfterReceipt, AfterTransaction,
                            AfterBlockNumber
  <2> QED
    BY <1>1, <2>3, <2>4, <2>7, OneRun
<1> QED
  BY <1>2, <1>3 DEF GetReceipt

LEMMA GetTransactionInv ==
    ASSUME VerifierInv, NEW v \in Verifier, GetTransaction(v)
    PROVE  /\ run' \in [Verifier -> RunState]
           /\ \A u \in Verifier : RunInv(u)'
<1>1. finalized' = finalized
  BY DEF GetTransaction, chainVars
<1>2. CASE End(v, "failed")
  BY <1>1, <1>2, EndRun DEF Ends
<1>3. CASE /\ run[v].receipt.ok
           /\ TransactionMatches(run[v].job.tx, run[v].job.batch)
           /\ Proceed(v, "block_number")
  <2>1. /\ [run[v] EXCEPT !.pc = "block_number"] \in RunState
        /\ run' = [run EXCEPT ![v] = [run[v] EXCEPT !.pc = "block_number"]]
        /\ run'[v].pc = "block_number" /\ run'[v].job = run[v].job
        /\ run'[v].receipt = run[v].receipt
    BY <1>3, ProceedRun DEF Calls
  <2>2. /\ run[v].job \in Job /\ run[v].job.batch.valid
        /\ run[v].receipt \in Receipt
    BY DEF VerifierInv, RunInv, GetTransaction, At, Calls, AfterReceipt
  <2>3. RunInv(v)'
    BY <1>3, <2>1, <2>2
    DEF RunInv, AfterBlockNumber, TransactionMatches, Calldata
  <2> QED
    BY <1>1, <2>1, <2>3, OneRun
<1> QED
  BY <1>2, <1>3 DEF GetTransaction, FailUnless

LEMMA GetBlockNumberInv ==
    ASSUME ChainInv, VerifierInv, NEW v \in Verifier, GetBlockNumber(v)
    PROVE  /\ run' \in [Verifier -> RunState]
           /\ \A u \in Verifier : RunInv(u)'
<1> DEFINE n == ConfirmationsOf(Height, run[v].receipt.block.number)
           r == [run[v] EXCEPT !.pc = "manifestByRoot", !.confirmations = n]
<1>1. finalized' = finalized
  BY DEF GetBlockNumber, chainVars
<1>2. CASE \E end \in Ends : End(v, end)
  BY <1>1, <1>2, EndRun
<1>3. CASE Confirmed(n) /\ run' = [run EXCEPT ![v].pc = "manifestByRoot",
                                              ![v].confirmations = n]
  <2>1. run \in [Verifier -> RunState] /\ run[v] \in RunState
    BY DEF VerifierInv, TypeOK
  <2>2. /\ run[v].job \in Job /\ run[v].job.batch.valid
        /\ run[v].receipt \in Receipt /\ run[v].receipt.ok
        /\ TransactionMatches(run[v].job.tx, run[v].job.batch)
    BY DEF VerifierInv, RunInv, GetBlockNumber, At, Calls, AfterReceipt,
           AfterTransaction
  <2>3. run[v].receipt.block.number \in Nat
    BY <2>2 DEF Receipt, BlockHash
  <2>4. run[v].receipt.block.number <= finalized /\ n \in Nat
    BY <1>3, <2>3, ConfirmedIsOutOfReach
  <2> HIDE DEF n
  <2>5. r \in RunState
    BY <2>1, <2>4 DEF RunState, Calls
  <2>6. run' = [run EXCEPT ![v] = r]
    BY <1>3, <2>1
  <2>7. /\ run'[v].pc = "manifestByRoot" /\ run'[v].job = run[v].job
        /\ run'[v].receipt = run[v].receipt /\ run'[v].confirmations = n
    BY <2>1, <2>6 DEF RunState
  <2>8. RunInv(v)'
    BY <1>1, <1>3, <2>2, <2>4, <2>7
    DEF RunInv, Confirmed, TransactionMatches, Calldata
  <2> QED
    BY <1>1, <2>5, <2>6, <2>8, OneRun
<1> QED
  BY <1>2, <1>3 DEF GetBlockNumber, Ends

\* Between the block number and the end, a run only moves on.
LEMMA MoveOnInv ==
    ASSUME VerifierInv, NEW v \in Verifier, finalized' = finalized,
           run[v].pc \in AfterBlockNumber, NEW call \in AfterBlockNumber,
           Proceed(v, call)
    PROVE  /\ run' \in [Verifier -> RunState]
           /\ \A u \in Verifier : RunInv(u)'
<1>1. /\ call \in Calls /\ run[v].pc \in Calls
      /\ run[v].pc \in AfterReceipt /\ run[v].pc \in AfterTransaction
  BY DEF AfterBlockNumber, AfterTransaction, AfterReceipt
<1>2. /\ [run[v] EXCEPT !.pc = call] \in RunState
      /\ run' = [run EXCEPT ![v] = [run[v] EXCEPT !.pc = call]]
      /\ run'[v].pc = call /\ run'[v].job = run[v].job
      /\ run'[v].receipt = run[v].receipt
      /\ run'[v].confirmations = run[v].confirmations
  BY <1>1, ProceedRun
<1>3. RunInv(v)
  BY DEF VerifierInv
<1>4. RunInv(v)'
  BY <1>1, <1>2, <1>3 DEF RunInv, TransactionMatches, Calldata
<1> QED
  BY <1>2, <1>4, OneRun

\* The evidence a run is about to write is what the run has established.
LEMMA WrittenEvidence ==
    ASSUME VerifierInv, NEW v \in Verifier, At(v, "write")
    PROVE  EvidenceOf(v) \in Evidence /\ EvidenceInv(EvidenceOf(v))
<1>1. /\ run[v].job \in Job /\ run[v].job.batch.valid
      /\ run[v].receipt \in Receipt
      /\ TransactionMatches(run[v].job.tx, run[v].job.batch)
      /\ run[v].confirmations >= Confirmations
      /\ run[v].receipt.block.number <= finalized
  BY DEF VerifierInv, RunInv, At, Calls, AfterReceipt, AfterTransaction,
         AfterBlockNumber
<1>2. run[v].confirmations \in Nat
  BY DEF VerifierInv, TypeOK, RunState
<1>3. EvidenceOf(v) \in Evidence
  BY <1>1, <1>2 DEF EvidenceOf, Evidence, Job, Receipt
<1>4. EvidenceInv(EvidenceOf(v))
  BY <1>1 DEF EvidenceInv, EvidenceOf
<1> QED
  BY <1>3, <1>4

LEMMA VerifierInvInit ==
    ASSUME Init
    PROVE  VerifierInv
<1>1. ChainTypeOK /\ issued = {}
  BY ChainInvInit DEF Init, ChainInv, VerifierInit
<1>2. Rest("idle") \in RunState
  BY DEF Rest, RunState, Ends
<1>3. run \in [Verifier -> RunState] /\ \A v \in Verifier : run[v].pc = "idle"
  BY <1>2 DEF Init, VerifierInit, Rest
<1>4. files \in [Output -> Evidence \cup {Absent, Torn}]
  BY DEF Init, VerifierInit
<1>5. ASSUME NEW v \in Verifier PROVE RunInv(v)
  BY <1>3 DEF RunInv, Calls, AfterReceipt, AfterTransaction, AfterBlockNumber
<1> QED
  BY <1>1, <1>3, <1>4, <1>5 DEF VerifierInv, TypeOK

LEMMA VerifierInvStep ==
    ASSUME ChainInv, ChainInv', VerifierInv, [Next]_vars
    PROVE  VerifierInv'
<1>0. ChainTypeOK /\ ChainTypeOK'
  BY DEF ChainInv
<1>1. CASE ChainStep \/ UNCHANGED vars
  <2>1. finalized \in Nat /\ finalized' \in Nat /\ finalized <= finalized'
    BY <1>0, <1>1, FinalizedStays DEF ChainTypeOK, vars
  <2>2. UNCHANGED <<run, files, issued>>
    BY <1>1 DEF ChainStep, vars, verifierVars
  <2>3. ASSUME NEW v \in Verifier PROVE RunInv(v)'
    <3>1. run[v].receipt \in Receipt => run[v].receipt.block.number \in Nat
      BY DEF Receipt, BlockHash
    <3>2. RunInv(v) /\ (run[v].pc \in AfterBlockNumber => run[v].pc \in AfterReceipt)
      BY DEF VerifierInv, AfterReceipt, AfterTransaction, AfterBlockNumber
    <3> QED
      BY <2>1, <2>2, <3>1, <3>2 DEF RunInv, TransactionMatches, Calldata
  <2>4. ASSUME NEW e \in issued PROVE EvidenceInv(e)'
    <3>1. e.block.number \in Nat
      BY DEF VerifierInv, TypeOK, Evidence, BlockHash
    <3> QED
      BY <2>1, <3>1 DEF VerifierInv, EvidenceInv, TransactionMatches, Calldata
  <2> QED
    BY <1>0, <2>2, <2>3, <2>4 DEF VerifierInv, TypeOK
<1>2. ASSUME NEW v \in Verifier, WriteOutput(v) PROVE VerifierInv'
  <2>1. EvidenceOf(v) \in Evidence /\ EvidenceInv(EvidenceOf(v))
    BY <1>2, WrittenEvidence DEF WriteOutput
  <2>2. /\ finalized' = finalized /\ End(v, "passed")
        /\ files' = [files EXCEPT ![run[v].job.output] = EvidenceOf(v)]
        /\ issued' = issued \cup {EvidenceOf(v)}
    BY <1>2 DEF WriteOutput, chainVars
  <2>3. run' \in [Verifier -> RunState] /\ \A u \in Verifier : RunInv(u)'
    BY <2>2, EndRun DEF Ends
  <2>4. files' \in [Output -> Evidence \cup {Absent, Torn}]
    BY <2>1, <2>2 DEF VerifierInv, TypeOK
  <2>5. ASSUME NEW e \in issued' PROVE EvidenceInv(e)'
    <3>1. EvidenceInv(e)
      BY <2>1, <2>2, <2>5 DEF VerifierInv
    <3> QED
      BY <2>2, <3>1 DEF EvidenceInv, TransactionMatches, Calldata
  <2>6. issued' \subseteq Evidence
    BY <2>1, <2>2 DEF VerifierInv, TypeOK
  <2> QED
    BY <1>0, <2>3, <2>4, <2>5, <2>6 DEF VerifierInv, TypeOK
<1>3. ASSUME UNCHANGED <<chainVars, issued>>,
             files' \in [Output -> Evidence \cup {Absent, Torn}],
             run' \in [Verifier -> RunState],
             \A u \in Verifier : RunInv(u)'
      PROVE  VerifierInv'
  <2>1. finalized' = finalized
    BY <1>3 DEF chainVars
  <2>2. \A e \in issued : EvidenceInv(e)'
    BY <2>1 DEF VerifierInv, EvidenceInv, TransactionMatches, Calldata
  <2> QED
    BY <1>0, <1>3, <2>2 DEF VerifierInv, TypeOK
<1>4. files \in [Output -> Evidence \cup {Absent, Torn}]
  BY DEF VerifierInv, TypeOK
<1>5. ASSUME NEW v \in Verifier, NEW j \in Job, Start(v, j) PROVE VerifierInv'
  BY <1>3, <1>4, <1>5, StartInv DEF Start
<1>6. ASSUME NEW v \in Verifier, GetReceipt(v) PROVE VerifierInv'
  BY <1>3, <1>4, <1>6, GetReceiptInv DEF GetReceipt
<1>7. ASSUME NEW v \in Verifier, GetTransaction(v) PROVE VerifierInv'
  BY <1>3, <1>4, <1>7, GetTransactionInv DEF GetTransaction
<1>8. ASSUME NEW v \in Verifier, GetBlockNumber(v) PROVE VerifierInv'
  BY <1>3, <1>4, <1>8, GetBlockNumberInv DEF GetBlockNumber
<1>9. ASSUME NEW v \in Verifier, GetManifest(v) \/ CheckOutput(v)
      PROVE  VerifierInv'
  <2>1. UNCHANGED <<chainVars, files, issued>> /\ finalized' = finalized
    BY <1>9 DEF GetManifest, CheckOutput, chainVars
  <2>2. \/ End(v, "failed")
        \/ /\ run[v].pc \in AfterBlockNumber
           /\ \E c \in AfterBlockNumber : Proceed(v, c)
    BY <1>9 DEF GetManifest, CheckOutput, FailUnless, At, Calls, AfterReceipt,
                AfterTransaction, AfterBlockNumber
  <2> QED
    BY <1>3, <1>4, <2>1, <2>2, EndRun, MoveOnInv DEF Ends
<1>10. ASSUME NEW v \in Verifier, OpenOutput(v) PROVE VerifierInv'
  <2>1. UNCHANGED <<chainVars, issued>> /\ finalized' = finalized
    BY <1>10 DEF OpenOutput, chainVars
  <2>2. run[v].pc \in AfterBlockNumber /\ "write" \in AfterBlockNumber
    BY <1>10 DEF OpenOutput, At, Calls, AfterReceipt, AfterTransaction,
                 AfterBlockNumber
  <2>3. files' \in [Output -> Evidence \cup {Absent, Torn}]
    BY <1>4, <1>10 DEF OpenOutput
  <2> QED
    BY <1>3, <1>10, <2>1, <2>2, <2>3, MoveOnInv DEF OpenOutput
<1>11. ASSUME NEW v \in Verifier, Crash(v) PROVE VerifierInv'
  <2>1. finalized' = finalized
    BY <1>11 DEF Crash, chainVars
  <2> QED
    BY <1>3, <1>4, <1>11, <2>1, EndRun DEF Crash, Ends
<1>12. ASSUME NEW o \in Output, Clear(o) PROVE VerifierInv'
  <2>1. files' \in [Output -> Evidence \cup {Absent, Torn}]
    BY <1>12 DEF Clear, VerifierInv, TypeOK
  <2>2. UNCHANGED <<chain, pool, reorgs, finalized, run, issued>>
    BY <1>12 DEF Clear, chainVars
  <2>3. ASSUME NEW v \in Verifier PROVE RunInv(v)'
    BY <2>2 DEF VerifierInv, RunInv, TransactionMatches, Calldata
  <2>4. ASSUME NEW e \in issued PROVE EvidenceInv(e)'
    BY <2>2 DEF VerifierInv, EvidenceInv, TransactionMatches, Calldata
  <2> QED
    BY <1>0, <2>1, <2>2, <2>3, <2>4 DEF VerifierInv, TypeOK
<1> QED
  BY <1>1, <1>2, <1>5, <1>6, <1>7, <1>8, <1>9, <1>10, <1>11, <1>12 DEF Next, Step

THEOREM VerifierInvariant == Spec => [](ChainInv /\ VerifierInv)
<1>1. Init => ChainInv /\ VerifierInv
  BY ChainInvInit, VerifierInvInit DEF Init
<1>2. ChainInv /\ VerifierInv /\ [Next]_vars => (ChainInv /\ VerifierInv)'
  BY ChainInvStep, VerifierInvStep
<1> QED
  BY <1>1, <1>2, PTL DEF Spec

\* Type correctness, for every set of processes, batches and output paths.
\* The type of evidence includes the confirmation count it must meet, so no
\* evidence file ever records fewer confirmations than were required.
THEOREM TypeCorrect == Spec => []TypeOK
<1>1. VerifierInv => TypeOK
  BY DEF VerifierInv
<1> QED
  BY <1>1, VerifierInvariant, PTL

-----------------------------------------------------------------------------
(* What holds when no reorganisation falls between the two reads.          *)

\* Blocks that stay keep receipts and evidence on the branch.
LEMMA OnBranchFrame ==
    ASSUME NEW e, OnBranch(e), e.block.number \in 1..Height',
           chain'[e.block.number] = chain[e.block.number]
    PROVE  OnBranch(e)'
BY DEF OnBranch

LEMMA CalmChainStep ==
    ASSUME CalmReads, ChainInv, ChainInv', VerifierInv, CalmInv,
           ChainStep \/ UNCHANGED vars
    PROVE  CalmInv'
<1>0. ChainTypeOK /\ ChainTypeOK' /\ finalized \in Nat
  BY DEF ChainInv, ChainTypeOK
<1>1. UNCHANGED <<run, issued>>
  BY DEF ChainStep, vars, verifierVars
<1>2. /\ \A i \in 1..finalized : i \in 1..Height' /\ chain'[i] = chain[i]
      /\ \/ \A i \in 1..Height : i \in 1..Height' /\ chain'[i] = chain[i]
         \/ \E h \in 0..Height : Reorganise(h) /\ ChainStep
  BY <1>0, FinalizedStays DEF vars
<1>3. ASSUME NEW e \in issued PROVE OnBranch(e)'
  <2>1. OnBranch(e) /\ e.block.number \in 1..Height
    BY DEF CalmInv, OnBranch
  <2>2. e.block.number <= finalized /\ e.block.number \in 1..finalized
    BY <1>0, <2>1 DEF VerifierInv, EvidenceInv
  <2> QED
    BY <1>2, <2>1, <2>2, OnBranchFrame
<1>4. ASSUME NEW v \in Verifier, run[v].pc \in AfterReceipt
      PROVE  ReceiptOnBranch(v)'
  <2> DEFINE n == run[v].receipt.block.number
  <2>1. ReceiptOnBranch(v) /\ n \in 1..Height
    BY <1>4 DEF CalmInv, ReceiptOnBranch
  <2>2. CASE n \in 1..Height' /\ chain'[n] = chain[n]
    BY <1>1, <2>1, <2>2 DEF ReceiptOnBranch
  <2>3. CASE run[v].pc \in AfterBlockNumber
    <3>1. n \in 1..finalized
      BY <1>0, <2>1, <2>3 DEF VerifierInv, RunInv
    <3> QED
      BY <1>2, <2>2, <3>1
  <2>4. CASE BetweenReads(v)
    <3>1. ~\E h \in 0..Height : Reorganise(h) /\ ChainStep
      <4> SUFFICES ASSUME NEW h \in 0..Height, Reorganise(h), ChainStep
                   PROVE  FALSE
        OBVIOUS
      <4>1. ~Advance
        <5>1. reorgs' = reorgs + 1 /\ reorgs \in Nat
          BY <1>0 DEF Reorganise, ChainTypeOK
        <5>2. reorgs' # reorgs
          BY <5>1
        <5>3. Advance => reorgs' = reorgs
          BY DEF Advance, Broadcast, Evict, Mine
        <5> QED
          BY <5>2, <5>3
      <4> QED
        BY <2>4, <4>1 DEF ChainStep
    <3> QED
      BY <1>2, <2>1, <2>2, <3>1
  <2> QED
    BY <1>4, <2>3, <2>4 DEF BetweenReads, AfterReceipt, AfterTransaction,
                            AfterBlockNumber, Calls
<1> QED
  BY <1>1, <1>3, <1>4 DEF CalmInv

\* A step of a run that keeps receipt and job, or drops them.
LEMMA CalmRunStep ==
    ASSUME CalmInv, NEW v \in Verifier, UNCHANGED chainVars,
           \A u \in Verifier \ {v} : run'[u] = run[u],
           \/ run'[v].pc \notin AfterReceipt
           \/ /\ run[v].pc \in AfterReceipt
              /\ run'[v].receipt = run[v].receipt
              /\ run'[v].job = run[v].job
           \/ ReceiptOnBranch(v)',
           \A e \in issued' \ issued : OnBranch(e)
    PROVE  CalmInv'
<1>1. Height' = Height /\ chain' = chain
  BY DEF chainVars, Height
<1>2. \A e \in issued' : OnBranch(e)'
  BY <1>1 DEF CalmInv, OnBranch
<1>3. ASSUME NEW u \in Verifier, run'[u].pc \in AfterReceipt
      PROVE  ReceiptOnBranch(u)'
  BY <1>1, <1>3 DEF CalmInv, ReceiptOnBranch
<1> QED
  BY <1>2, <1>3 DEF CalmInv

LEMMA CalmInvStep ==
    ASSUME CalmReads, ChainInv, ChainInv', VerifierInv, VerifierInv', CalmInv,
           [Next]_vars
    PROVE  CalmInv'
<1>1. CASE ChainStep \/ UNCHANGED vars
  BY <1>1, CalmChainStep
<1>2. run \in [Verifier -> RunState]
  BY DEF VerifierInv, TypeOK
<1>3. ASSUME NEW v \in Verifier, NEW end \in Ends, End(v, end),
             UNCHANGED chainVars, \A e \in issued' \ issued : OnBranch(e)
      PROVE  CalmInv'
  <2>1. run'[v].pc \notin AfterReceipt
    BY <1>2, <1>3 DEF End, Rest, Ends, AfterReceipt, Calls
  <2>2. \A u \in Verifier \ {v} : run'[u] = run[u]
    BY <1>2, <1>3 DEF End
  <2> QED
    BY <1>3, <2>1, <2>2, CalmRunStep
<1>4. ASSUME NEW v \in Verifier, NEW call \in Calls, Proceed(v, call),
             run[v].pc \in AfterReceipt, UNCHANGED <<chainVars, issued>>
      PROVE  CalmInv'
  <2>1. run'[v].receipt = run[v].receipt /\ run'[v].job = run[v].job
    BY <1>4, ProceedRun
  <2>2. \A u \in Verifier \ {v} : run'[u] = run[u]
    BY <1>2, <1>4 DEF Proceed
  <2> QED
    BY <1>4, <2>1, <2>2, CalmRunStep
<1>5. ASSUME NEW v \in Verifier, NEW j \in Job, Start(v, j) PROVE CalmInv'
  <2>1. CASE End(v, "failed")
    BY <1>3, <1>5, <2>1 DEF Start, Ends
  <2>2. CASE run' = [run EXCEPT ![v] =
                       [Rest("get_transaction_receipt") EXCEPT !.job = j]]
    <3>1. run'[v].pc \notin AfterReceipt
      BY <1>2, <2>2 DEF Rest, AfterReceipt
    <3>2. \A u \in Verifier \ {v} : run'[u] = run[u]
      BY <1>2, <2>2
    <3> QED
      BY <1>5, <3>1, <3>2, CalmRunStep DEF Start
  <2> QED
    BY <1>5, <2>1, <2>2 DEF Start
<1>6. ASSUME NEW v \in Verifier, GetReceipt(v) PROVE CalmInv'
  <2>1. CASE End(v, "failed")
    BY <1>3, <1>6, <2>1 DEF GetReceipt, Ends
  <2>2. ASSUME NEW h \in 1..Height, chain[h].tx = run[v].job.tx,
               run' = [run EXCEPT ![v].pc = "get_transaction",
                                  ![v].receipt = [block |-> chain[h].hash,
                                                  ok |-> chain[h].ok]]
        PROVE  CalmInv'
    <3>1. \A u \in Verifier \ {v} : run'[u] = run[u]
      BY <1>2, <2>2
    <3>2. /\ run'[v].receipt = [block |-> chain[h].hash, ok |-> chain[h].ok]
          /\ run'[v].job = run[v].job
      BY <1>2, <2>2 DEF RunState
    <3>3. Height' = Height /\ chain' = chain
      BY <1>6 DEF GetReceipt, chainVars, Height
    <3>4. chain[h].hash.number = h
      BY DEF ChainInv, Numbered
    <3>5. ReceiptOnBranch(v)'
      BY <2>2, <3>2, <3>3, <3>4 DEF ReceiptOnBranch
    <3> QED
      BY <1>6, <3>1, <3>5, CalmRunStep DEF GetReceipt
  <2> QED
    BY <1>6, <2>1, <2>2 DEF GetReceipt
<1>7. ASSUME NEW v \in Verifier,
             GetTransaction(v) \/ GetManifest(v) \/ CheckOutput(v)
      PROVE  CalmInv'
  <2>1. /\ UNCHANGED <<chainVars, issued>> /\ run[v].pc \in AfterReceipt
        /\ \/ End(v, "failed") \/ \E c \in Calls : Proceed(v, c)
    BY <1>7 DEF GetTransaction, GetManifest, CheckOutput, FailUnless, At, Calls,
                AfterReceipt
  <2> QED
    BY <1>3, <1>4, <2>1 DEF Ends
<1>8. ASSUME NEW v \in Verifier, GetBlockNumber(v) PROVE CalmInv'
  <2> DEFINE n == ConfirmationsOf(Height, run[v].receipt.block.number)
  <2>1. CASE \E end \in Ends : End(v, end)
    BY <1>3, <1>8, <2>1 DEF GetBlockNumber
  <2>2. CASE run' = [run EXCEPT ![v].pc = "manifestByRoot",
                                ![v].confirmations = n]
    <3>1. /\ run[v].pc \in AfterReceipt
          /\ run'[v].receipt = run[v].receipt /\ run'[v].job = run[v].job
      BY <1>2, <1>8, <2>2 DEF RunState, GetBlockNumber, At, AfterReceipt, Calls
    <3>2. \A u \in Verifier \ {v} : run'[u] = run[u]
      BY <1>2, <2>2
    <3> QED
      BY <1>8, <3>1, <3>2, CalmRunStep DEF GetBlockNumber
  <2> QED
    BY <1>8, <2>1, <2>2 DEF GetBlockNumber, Ends
<1>9. ASSUME NEW v \in Verifier, OpenOutput(v) PROVE CalmInv'
  <2>1. run[v].pc \in AfterReceipt /\ "write" \in Calls
    BY <1>9 DEF OpenOutput, At, Calls, AfterReceipt
  <2> QED
    BY <1>4, <1>9, <2>1 DEF OpenOutput
<1>10. ASSUME NEW v \in Verifier, WriteOutput(v) PROVE CalmInv'
  <2>1. run[v].pc \in AfterReceipt /\ run[v].receipt.ok
    BY <1>10 DEF WriteOutput, At, Calls, AfterReceipt, AfterTransaction,
                 VerifierInv, RunInv
  <2>2. OnBranch(EvidenceOf(v))
    BY <2>1 DEF CalmInv, ReceiptOnBranch, OnBranch, EvidenceOf
  <2> QED
    BY <1>3, <1>10, <2>2 DEF WriteOutput, Ends
<1>11. ASSUME NEW v \in Verifier, Crash(v) PROVE CalmInv'
  BY <1>3, <1>11 DEF Crash, Ends
<1>12. ASSUME NEW o \in Output, Clear(o) PROVE CalmInv'
  <2>1. UNCHANGED <<chain, run, issued>>
    BY <1>12 DEF Clear, chainVars
  <2> QED
    BY <2>1 DEF CalmInv, ReceiptOnBranch, OnBranch, Height
<1> QED
  BY <1>1, <1>5, <1>6, <1>7, <1>8, <1>9, <1>10, <1>11, <1>12 DEF Next, Step

\* Spec keeps CalmInv when no reorganisation falls between the two reads.
THEOREM CalmInvariant ==
    ASSUME CalmReads
    PROVE  Spec => [](ChainInv /\ VerifierInv /\ CalmInv)
<1>1. Init => CalmInv
  <2> SUFFICES ASSUME Init PROVE CalmInv
    OBVIOUS
  <2>1. issued = {} /\ \A v \in Verifier : run[v].pc = "idle"
    BY DEF Init, VerifierInit, Rest
  <2> QED
    BY <2>1 DEF CalmInv, AfterReceipt, Calls
<1>2. /\ ChainInv /\ VerifierInv /\ CalmInv
      /\ (ChainInv /\ VerifierInv)'
      /\ [Next]_vars
      => CalmInv'
  BY CalmInvStep
<1> QED
  BY <1>1, <1>2, VerifierInvariant, PTL DEF Spec

-----------------------------------------------------------------------------
(* What evidence says.                                                     *)

\* The key of a valid batch whose transaction matches is a key of the ledger.
LEMMA EvidenceKey ==
    ASSUME NEW b \in Batch, b.valid, NEW t \in Tx, TransactionMatches(t, b)
    PROVE  /\ <<b.contract, b.root>> \in Key
           /\ TxTo[t] = b.contract
           /\ TxCall[t].root = b.root
           /\ TxCall[t].manifest = b.manifest
           /\ t # NoTx
<1>1. b \in BatchRecord /\ b.root # Zero
  BY VerifierAssumption
<1>2. b.contract \in Address /\ b.root \in Root
  BY <1>1 DEF BatchRecord
<1>3. TxTo[t] = b.contract /\ TxCall[t] = Calldata(b)
  BY DEF TransactionMatches
<1> QED
  BY <1>2, <1>3, ChainAssumption DEF Key, Calldata

\* Evidence on the branch names a block that anchored the batch.
LEMMA EvidenceAnchors ==
    ASSUME VerifierInv, NEW e \in issued, OnBranch(e)
    PROVE  /\ <<e.batch.contract, e.batch.root>> \in Key
           /\ Anchors(e.block.number, <<e.batch.contract, e.batch.root>>)
           /\ TxCall[chain[e.block.number].tx].manifest = e.batch.manifest
<1>1. /\ e.batch \in Batch /\ e.tx \in Tx /\ e.batch.valid
      /\ TransactionMatches(e.tx, e.batch)
  BY DEF VerifierInv, TypeOK, Evidence, EvidenceInv
<1>2. chain[e.block.number].tx = e.tx /\ chain[e.block.number].ok
  BY DEF OnBranch
<1> QED
  BY <1>1, <1>2, EvidenceKey DEF Anchors

\* The confirmation count makes evidence final, for every depth of
\* reorganisation it exceeds, provided none falls between the two reads.
THEOREM CalmEvidenceIsFinal ==
    ASSUME CalmReads
    PROVE  Spec => []EvidenceFinal
<1>1. ChainInv /\ VerifierInv /\ CalmInv => EvidenceFinal
  <2> SUFFICES ASSUME ChainInv, VerifierInv, CalmInv, NEW e \in issued
               PROVE  /\ e.block.number <= finalized
                      /\ OnBranch(e)
                      /\ StorageAt(Height)[<<e.batch.contract, e.batch.root>>]
                             = e.batch.manifest
    BY DEF EvidenceFinal
  <2>1. e.block.number <= finalized /\ OnBranch(e)
    BY DEF VerifierInv, EvidenceInv, CalmInv
  <2>2. e.block.number \in 1..Height /\ Height \in 0..Height
    BY <2>1, LenProperties DEF OnBranch, ChainInv, ChainTypeOK, Height
  <2> QED
    BY <2>1, <2>2, EvidenceAnchors DEF ChainInv, Accounted
<1> QED
  BY <1>1, CalmInvariant, PTL

\* Calm evidence names the one transaction that anchored the batch, whatever
\* other transactions, deployments and rival manifests there are.
THEOREM CalmEvidenceNamesTheAnchor ==
    ASSUME CalmReads
    PROVE  Spec => []EvidenceNamesTheAnchor
<1>1. ChainInv /\ VerifierInv /\ CalmInv => EvidenceNamesTheAnchor
  <2> SUFFICES ASSUME ChainInv, VerifierInv, CalmInv, NEW e \in issued
               PROVE  /\ AnchoredAt(<<e.batch.contract, e.batch.root>>)
                             = {e.block.number}
                      /\ chain[e.block.number].tx = e.tx
                      /\ TxCall[e.tx] = Calldata(e.batch)
    BY DEF EvidenceNamesTheAnchor
  <2> DEFINE k == <<e.batch.contract, e.batch.root>>
  <2>1. OnBranch(e)
    BY DEF CalmInv
  <2>2. e.block.number \in 1..Height /\ chain[e.block.number].tx = e.tx
    BY <2>1 DEF OnBranch
  <2>3. k \in Key /\ Anchors(e.block.number, k)
    BY <2>1, EvidenceAnchors
  <2>4. TxCall[e.tx] = Calldata(e.batch)
    BY DEF VerifierInv, EvidenceInv, TransactionMatches
  <2>5. \A h \in 1..Height : Anchors(h, k) => h = e.block.number
    BY <2>2, <2>3 DEF ChainInv, AnchoredOnce
  <2>6. AnchoredAt(k) = {e.block.number}
    BY <2>2, <2>3, <2>5 DEF AnchoredAt
  <2> QED
    BY <2>2, <2>4, <2>6
<1> QED
  BY <1>1, CalmInvariant, PTL

\* Without any assumption on when reorganisations fall: evidence found on the
\* canonical branch once it is issued stays there.
THEOREM RecheckingSettles == Spec => RecheckedEvidenceIsFinal
<1>1. ASSUME ChainInv, ChainInv', VerifierInv, [Next]_vars,
             NEW e \in issued, OnBranch(e)
      PROVE  OnBranch(e)'
  <2>1. e.block.number \in 1..Height /\ e.block.number <= finalized
    BY <1>1 DEF OnBranch, VerifierInv, EvidenceInv
  <2>2. finalized \in Nat /\ ChainTypeOK /\ ChainTypeOK'
    BY <1>1 DEF ChainInv, ChainTypeOK
  <2>3. e.block.number \in 1..finalized
    BY <2>1, <2>2
  <2>4. CASE ChainStep \/ UNCHANGED vars
    BY <1>1, <2>2, <2>3, <2>4, FinalizedStays, OnBranchFrame DEF vars
  <2>5. CASE UNCHANGED chainVars
    BY <1>1, <2>1, <2>5, OnBranchFrame DEF chainVars, Height
  <2>6. ASSUME NEW v \in Verifier PROVE Step(v) => UNCHANGED chainVars
    BY DEF Step, GetReceipt, GetTransaction, GetBlockNumber, GetManifest,
           CheckOutput, OpenOutput, WriteOutput
  <2>7. ASSUME NEW v \in Verifier
        PROVE  /\ Crash(v) => UNCHANGED chainVars
               /\ \A j \in Job : Start(v, j) => UNCHANGED chainVars
    BY DEF Crash, Start
  <2>8. ASSUME NEW o \in Output PROVE Clear(o) => UNCHANGED chainVars
    BY DEF Clear
  <2> QED
    BY <1>1, <2>4, <2>5, <2>6, <2>7, <2>8 DEF Next
<1>2. /\ ChainInv /\ VerifierInv
      /\ ChainInv'
      /\ [Next]_vars
      => [\A e \in issued : OnBranch(e) => OnBranch(e)']_vars
  BY <1>1
<1> QED
  BY <1>2, VerifierInvariant, PTL DEF Spec, RecheckedEvidenceIsFinal

-----------------------------------------------------------------------------
(* The refinement of the ledger.                                           *)

\* One more block adds nothing to the ledger, or one record.
Extends ==
    \A g, h \in 0..Height :
        h = g + 1 =>
            \/ StorageAt(h) = StorageAt(g)
            \/ \E k \in Key, m \in Manifest :
                  /\ StorageAt(g)[k] = Zero
                  /\ StorageAt(h) = [StorageAt(g) EXCEPT ![k] = m]

LEMMA BlocksExtend ==
    ASSUME ChainInv
    PROVE  Extends
<1> SUFFICES ASSUME NEW g \in 0..Height, NEW h \in 0..Height, h = g + 1
             PROVE  \/ StorageAt(h) = StorageAt(g)
                    \/ \E k \in Key, m \in Manifest :
                          /\ StorageAt(g)[k] = Zero
                          /\ StorageAt(h) = [StorageAt(g) EXCEPT ![k] = m]
  BY DEF Extends
<1>1. PICK s, w : s = StorageAt(g) /\ w = StorageAt(h)
  OBVIOUS
<1>2. /\ s \in Storage /\ w \in Storage /\ g <= h
      /\ h \in 1..Height /\ g \in Nat /\ h \in Nat /\ Height \in Nat
  BY <1>1, StorageType, LenProperties DEF ChainInv, ChainTypeOK, Height
<1>3. ASSUME NEW k \in Key, ~Anchors(h, k)
      PROVE  w[k] = s[k]
  <2>1. CASE s[k] # Zero
    BY <1>1, <1>2, <2>1 DEF ChainInv, WriteOnce
  <2>2. CASE s[k] = Zero
    <3>1. \A i \in 1..g : ~Anchors(i, k)
      BY <1>1, <2>2 DEF ChainInv, Accounted
    <3>2. \A i \in 1..h : ~Anchors(i, k)
      BY <1>2, <1>3, <3>1
    <3> QED
      BY <1>1, <2>2, <3>2 DEF ChainInv, Accounted
  <2> QED
    BY <2>1, <2>2
<1>4. CASE \A k \in Key : ~Anchors(h, k)
  BY <1>1, <1>2, <1>3, <1>4 DEF Storage
<1>5. ASSUME NEW k \in Key, Anchors(h, k)
      PROVE  /\ s[k] = Zero
             /\ w[k] \in Manifest
             /\ w = [s EXCEPT ![k] = w[k]]
  <2>1. \A l \in Key : Anchors(h, l) => l = k
    <3>1. \A l \in Key : l = <<l[1], l[2]>>
      BY DEF Key
    <3>2. \A l \in Key : Anchors(h, l) => l[1] = k[1] /\ l[2] = k[2]
      BY <1>5 DEF Anchors
    <3> QED
      BY <1>5, <3>1, <3>2
  <2>2. s[k] = Zero
    <3>1. \A i \in 1..g : i \in 1..Height /\ i # h
      BY <1>2
    <3>2. ASSUME NEW i \in 1..g PROVE ~Anchors(i, k)
      <4>1. i \in 1..Height /\ i # h /\ h \in 1..Height
        BY <1>2, <3>1
      <4>2. \A x, y \in 1..Height :
               Anchors(x, k) /\ Anchors(y, k) => x = y
        BY <1>5 DEF ChainInv, AnchoredOnce
      <4> QED
        BY <1>5, <4>1, <4>2
    <3> QED
      BY <1>1, <3>2 DEF ChainInv, Accounted
  <2>3. w[k] # Zero
    BY <1>1, <1>2, <1>5 DEF ChainInv, Accounted
  <2>4. \A l \in Key \ {k} : w[l] = s[l]
    BY <1>3, <2>1
  <2> QED
    BY <1>2, <2>2, <2>3, <2>4 DEF Storage
<1>6. CASE \E k \in Key : Anchors(h, k)
  BY <1>1, <1>5, <1>6
<1> QED
  BY <1>4, <1>6

\* A step of the chain puts at most one more block out of reach.
LEMMA OneMoreBlock ==
    ASSUME ChainInv, ChainInv', ChainStep \/ UNCHANGED chainVars
    PROVE  /\ finalized' = finalized \/ finalized' = finalized + 1
           /\ \A h : h = finalized => StorageAt(h)' = StorageAt(h)
<1>0. /\ ChainTypeOK /\ ChainTypeOK' /\ finalized \in Nat /\ Height \in Nat
      /\ finalized <= Height /\ MaxReorgDepth \in Nat
      /\ Height <= finalized + MaxReorgDepth
  BY LenProperties, ChainAssumption DEF ChainInv, ChainTypeOK, Height
<1>1. finalized' = finalized \/ finalized' = finalized + 1
  <2>1. ASSUME NEW t \in Tx \cup {NoTx}, Mine(t)
        PROVE  finalized' = finalized \/ finalized' = finalized + 1
    BY <1>0, <2>1 DEF Mine, OutOfReach
  <2> QED
    BY <2>1 DEF ChainStep, Advance, Broadcast, Evict, Reorganise, chainVars
<1>2. \A i \in 1..finalized : i \in 1..Height' /\ chain'[i] = chain[i]
  BY <1>0, FinalizedStays
<1>3. \A h : h = finalized => StorageAt(h)' = StorageAt(h)
  BY <1>0, <1>2 DEF StorageAt
<1> QED
  BY <1>1, <1>3

\* Evidence is issued for what the ledger says.
LEMMA WriteAttests ==
    ASSUME ChainInv, VerifierInv, CalmInv, NEW v \in Verifier, WriteOutput(v)
    PROVE  /\ UNCHANGED chainVars
           /\ issued' = issued \cup {EvidenceOf(v)}
           /\ LET b == EvidenceOf(v).batch
              IN  /\ <<b.contract, b.root>> \in Key
                  /\ b.manifest \in Manifest
                  /\ StorageAt(finalized)[<<b.contract, b.root>>] = b.manifest
<1>1. /\ run[v].job \in Job /\ run[v].job.batch.valid
      /\ TransactionMatches(run[v].job.tx, run[v].job.batch)
      /\ run[v].receipt.ok /\ run[v].receipt.block.number <= finalized
      /\ ReceiptOnBranch(v)
  BY DEF VerifierInv, CalmInv, RunInv, WriteOutput, At, Calls, AfterReceipt,
         AfterTransaction, AfterBlockNumber
<1> DEFINE b == run[v].job.batch
           k == <<b.contract, b.root>>
           n == run[v].receipt.block.number
<1>2. b \in Batch /\ run[v].job.tx \in Tx
  BY <1>1 DEF Job
<1>3. k \in Key /\ b.manifest \in Manifest
  <2>1. b \in BatchRecord /\ b.manifest # Zero
    BY <1>1, <1>2, VerifierAssumption
  <2>2. b.manifest \in Manifest
    BY <2>1 DEF BatchRecord
  <2> QED
    BY <1>1, <1>2, <2>2, EvidenceKey
<1>4. Anchors(n, k) /\ TxCall[chain[n].tx].manifest = b.manifest
  BY <1>1, <1>2, EvidenceKey DEF ReceiptOnBranch, Anchors
<1>5. n \in 1..finalized /\ finalized \in 0..Height
  BY <1>1 DEF ReceiptOnBranch, ChainInv, ChainTypeOK
<1>6. StorageAt(finalized)[k] = b.manifest
  BY <1>3, <1>4, <1>5 DEF ChainInv, Accounted
<1>7. EvidenceOf(v).batch = b
  BY DEF EvidenceOf
<1> QED
  BY <1>3, <1>6, <1>7 DEF WriteOutput

\* The chain out of reach and the issued evidence implement the write-once
\* ledger, for every set of transactions anybody may send.
THEOREM CalmLedgerRefined ==
    ASSUME CalmReads
    PROVE  Spec => LedgerRefined
<1>1. Init => Ledger!LedgerInit
  <2> SUFFICES ASSUME Init PROVE Ledger!LedgerInit
    OBVIOUS
  <2>1. finalized = 0 /\ issued = {}
    BY DEF Init, ChainInit, VerifierInit
  <2> QED
    BY <2>1 DEF Ledger!LedgerInit, StorageAt, GenesisStorage
<1>2. ASSUME ChainInv, ChainInv', VerifierInv, CalmInv, Extends', [Next]_vars
      PROVE  [Ledger!LedgerNext]_(Ledger!ledgerVars)
  <2>0. PICK before, after : /\ before = StorageAt(finalized)
                             /\ after = StorageAt(finalized)'
    OBVIOUS
  <2>1. CASE (ChainStep \/ UNCHANGED chainVars) /\ UNCHANGED issued
    <3>1. /\ finalized' = finalized \/ finalized' = finalized + 1
          /\ \A h : h = finalized => StorageAt(h)' = StorageAt(h)
      BY <1>2, <2>1, OneMoreBlock
    <3>2. CASE finalized' = finalized
      <4>1. after = before
        BY <2>0, <3>1, <3>2 DEF StorageAt
      <4> QED
        BY <2>0, <2>1, <4>1 DEF Ledger!ledgerVars
    <3>3. CASE finalized' = finalized + 1
      <4>1. /\ finalized \in Nat /\ finalized' \in 0..Height'
            /\ finalized \in 0..Height'
        <5>1. /\ Height \in Nat /\ Height' \in Nat
              /\ finalized \in 0..Height /\ finalized' \in 0..Height'
          BY <1>2, LenProperties DEF ChainInv, ChainTypeOK, Height
        <5> QED
          BY <3>3, <5>1
      <4>2. \A h : h = finalized' => StorageAt(h)' = after
        BY <2>0 DEF StorageAt
      <4>3. \/ after = before
            \/ \E k \in Key, m \in Manifest :
                  /\ before[k] = Zero
                  /\ after = [before EXCEPT ![k] = m]
        <5>1. \A g, h \in 0..Height' :
                 h = g + 1 =>
                    \/ StorageAt(h)' = StorageAt(g)'
                    \/ \E k \in Key, m \in Manifest :
                          /\ StorageAt(g)'[k] = Zero
                          /\ StorageAt(h)' = [StorageAt(g)' EXCEPT ![k] = m]
          BY <1>2 DEF Extends
        <5> HIDE DEF StorageAt
        <5>2. PICK g, h : g = finalized /\ h = finalized'
          OBVIOUS
        <5>3. StorageAt(g)' = before /\ StorageAt(h)' = after
          BY <2>0, <3>1, <4>2, <5>2
        <5> QED
          BY <3>3, <4>1, <5>1, <5>2, <5>3
      <4> QED
        BY <2>0, <2>1, <4>3
           DEF Ledger!LedgerNext, Ledger!Record, Ledger!ledgerVars
    <3> QED
      BY <3>1, <3>2, <3>3
  <2>2. ASSUME UNCHANGED <<chainVars, issued>>
        PROVE  UNCHANGED Ledger!ledgerVars
    BY <2>2 DEF Ledger!ledgerVars, chainVars, StorageAt
  <2>3. ASSUME NEW v \in Verifier, WriteOutput(v) PROVE Ledger!LedgerNext
    <3>1. PICK k, m : /\ k = <<EvidenceOf(v).batch.contract,
                               EvidenceOf(v).batch.root>>
                      /\ m = EvidenceOf(v).batch.manifest
      OBVIOUS
    <3>2. /\ UNCHANGED chainVars
          /\ issued' = issued \cup {EvidenceOf(v)}
          /\ k \in Key /\ m \in Manifest /\ before[k] = m
      BY <1>2, <2>0, <2>3, <3>1, WriteAttests
    <3>3. after = before
      BY <2>0, <3>2 DEF chainVars, StorageAt
    <3>4. Ledger!Attest(k, m)
      BY <2>0, <3>1, <3>2, <3>3 DEF Ledger!Attest
    <3> QED
      BY <3>2, <3>4 DEF Ledger!LedgerNext
  <2>4. ASSUME NEW v \in Verifier,
               \/ \E j \in Job : Start(v, j)
               \/ GetReceipt(v) \/ GetTransaction(v) \/ GetBlockNumber(v)
               \/ GetManifest(v) \/ CheckOutput(v) \/ OpenOutput(v)
               \/ Crash(v)
        PROVE  UNCHANGED <<chainVars, issued>>
    BY <2>4 DEF Start, GetReceipt, GetTransaction, GetBlockNumber, GetManifest,
                CheckOutput, OpenOutput, Crash
  <2>5. CASE UNCHANGED vars
    BY <2>5, <2>2 DEF vars, verifierVars
  <2>6. ASSUME NEW o \in Output, Clear(o) PROVE UNCHANGED <<chainVars, issued>>
    BY <2>6 DEF Clear
  <2> QED
    BY <1>2, <2>1, <2>2, <2>3, <2>4, <2>5, <2>6
       DEF Next, Step, ChainStep, verifierVars
<1>3. /\ ChainInv /\ VerifierInv /\ CalmInv
      /\ ChainInv' /\ Extends'
      /\ [Next]_vars
      => [Ledger!LedgerNext]_(Ledger!ledgerVars)
  BY <1>2
<1>4. ChainInv => Extends
  BY BlocksExtend
<1> QED
  BY <1>1, <1>3, <1>4, CalmInvariant, PTL DEF Spec, LedgerRefined, Ledger!LedgerSpec

-----------------------------------------------------------------------------
(* A single process never touches evidence on disk.                        *)

\* Past the exists() check the file is still missing, then being written.
KeptInv ==
    \A v \in Verifier :
        /\ At(v, "open") => files[run[v].job.output] = Absent
        /\ At(v, "write") => files[run[v].job.output] = Torn

LEMMA KeptInvStep ==
    ASSUME \A u, v \in Verifier : u = v, VerifierInv, KeptInv, [Next]_vars
    PROVE  KeptInv'
<1>1. run \in [Verifier -> RunState]
  BY DEF VerifierInv, TypeOK
<1>2. CASE UNCHANGED <<run, files>>
  BY <1>2 DEF KeptInv, At
<1>3. CASE ChainStep \/ UNCHANGED vars
  BY <1>2, <1>3 DEF ChainStep, vars, verifierVars
<1>4. ASSUME NEW v \in Verifier, run'[v].pc \notin {"open", "write"}
      PROVE  KeptInv'
  BY <1>4 DEF KeptInv, At
<1>5. ASSUME NEW v \in Verifier, NEW end \in Ends, End(v, end) PROVE KeptInv'
  <2>1. run'[v].pc \notin {"open", "write"}
    BY <1>1, <1>5 DEF End, Rest, Ends
  <2> QED
    BY <1>4, <2>1
<1>6. ASSUME NEW v \in Verifier, NEW call \in Calls, Proceed(v, call)
      PROVE  run'[v].pc = call /\ run'[v].job = run[v].job
  BY <1>1, <1>6, ProceedRun
<1>7. ASSUME NEW v \in Verifier,
             \/ \E j \in Job : Start(v, j)
             \/ GetReceipt(v) \/ GetTransaction(v) \/ GetBlockNumber(v)
             \/ GetManifest(v) \/ Crash(v)
      PROVE  KeptInv'
  <2>1. CASE \E end \in Ends : End(v, end)
    BY <1>5, <2>1
  <2>2. CASE \E call \in Calls \ {"open", "write"} : Proceed(v, call)
    BY <1>4, <1>6, <2>2
  <2>3. CASE \E j \in Job : Start(v, j) /\ run' = [run EXCEPT ![v] =
                       [Rest("get_transaction_receipt") EXCEPT !.job = j]]
    BY <1>1, <1>4, <2>3 DEF Rest
  <2>4. CASE \E r : run' = [run EXCEPT ![v].pc = "get_transaction",
                                       ![v].receipt = r]
    BY <1>1, <1>4, <2>4 DEF RunState
  <2>5. CASE \E n : run' = [run EXCEPT ![v].pc = "manifestByRoot",
                                       ![v].confirmations = n]
    BY <1>1, <1>4, <2>5 DEF RunState
  <2>6. ASSUME NEW j \in Job, Start(v, j) PROVE KeptInv'
    BY <2>1, <2>3, <2>6 DEF Start, Ends
  <2>7. ASSUME GetReceipt(v) PROVE KeptInv'
    BY <2>1, <2>4, <2>7 DEF GetReceipt, Ends
  <2>8. ASSUME GetTransaction(v) \/ GetManifest(v) PROVE KeptInv'
    BY <2>1, <2>2, <2>8 DEF GetTransaction, GetManifest, FailUnless, Ends, Calls
  <2>9. ASSUME GetBlockNumber(v) PROVE KeptInv'
    BY <2>1, <2>5, <2>9 DEF GetBlockNumber, Ends
  <2>10. ASSUME Crash(v) PROVE KeptInv'
    BY <2>1, <2>10 DEF Crash, Ends
  <2> QED
    BY <1>7, <2>6, <2>7, <2>8, <2>9, <2>10
<1>8. ASSUME NEW v \in Verifier, CheckOutput(v) PROVE KeptInv'
  <2>1. CASE End(v, "failed")
    BY <1>5, <2>1 DEF Ends
  <2>2. CASE Proceed(v, "open") /\ files[run[v].job.output] = Absent
    <3>1. run'[v].pc = "open" /\ run'[v].job = run[v].job
      BY <1>6, <2>2 DEF Calls
    <3>2. files' = files
      BY <1>8 DEF CheckOutput
    <3> QED
      BY <2>2, <3>1, <3>2 DEF KeptInv, At
  <2> QED
    BY <1>8, <2>1, <2>2 DEF CheckOutput, FailUnless
<1>9. ASSUME NEW v \in Verifier, OpenOutput(v) PROVE KeptInv'
  <2>1. run'[v].pc = "write" /\ run'[v].job = run[v].job
    BY <1>6, <1>9 DEF OpenOutput, Calls
  <2>2. run[v].job \in Job /\ run[v].job.output \in Output
    BY <1>9 DEF VerifierInv, RunInv, OpenOutput, At, Calls, Job
  <2>3. files'[run[v].job.output] = Torn
    BY <1>9, <2>2 DEF OpenOutput, VerifierInv, TypeOK
  <2> QED
    BY <2>1, <2>3 DEF KeptInv, At
<1>10. ASSUME NEW v \in Verifier, WriteOutput(v) PROVE KeptInv'
  BY <1>5, <1>10 DEF WriteOutput, Ends
<1>11. ASSUME NEW o \in Output, Clear(o) PROVE KeptInv'
  <2>1. run' = run /\ files' = [files EXCEPT ![o] = Absent]
    BY <1>11 DEF Clear
  <2>2. o \in DOMAIN files
    BY DEF VerifierInv, TypeOK
  <2>3. ASSUME NEW v \in Verifier, At(v, "open")
        PROVE  files'[run[v].job.output] = Absent
    BY <2>1, <2>2, <2>3 DEF KeptInv
  <2>4. ASSUME NEW v \in Verifier, At(v, "write")
        PROVE  files'[run[v].job.output] = Torn
    BY <1>11, <2>1, <2>4 DEF KeptInv, Clear
  <2> QED
    BY <2>1, <2>3, <2>4 DEF KeptInv, At
<1> QED
  BY <1>3, <1>7, <1>8, <1>9, <1>10, <1>11 DEF Next, Step

\* One process at a time keeps evidence on disk whatever it is asked to do and
\* wherever it is killed; two of them do not (see the run that overwrites).
THEOREM SingleRunKeepsEvidence ==
    ASSUME \A u, v \in Verifier : u = v
    PROVE  Spec => EvidenceKept
<1>1. Init => KeptInv
  <2> SUFFICES ASSUME Init PROVE KeptInv
    OBVIOUS
  <2>1. \A v \in Verifier : run[v].pc = "idle"
    BY DEF Init, VerifierInit, Rest
  <2> QED
    BY <2>1 DEF KeptInv, At
<1>2. VerifierInv /\ KeptInv /\ [Next]_vars => KeptInv'
  BY KeptInvStep
<1>3. VerifierInv /\ KeptInv /\ [Next]_vars
      => [\A o \in Output : files[o] \in Evidence => files'[o] = files[o]]_vars
  <2> SUFFICES ASSUME VerifierInv, KeptInv, [Next]_vars, NEW o \in Output,
                      files[o] \in Evidence
               PROVE  files'[o] = files[o]
    OBVIOUS
  <2>1. ASSUME NEW v \in Verifier, OpenOutput(v) \/ WriteOutput(v)
        PROVE  files'[o] = files[o]
    <3>1. run[v].job.output # o
      BY <2>1, FilesDiffer DEF KeptInv, OpenOutput, WriteOutput
    <3> QED
      BY <2>1, <3>1 DEF OpenOutput, WriteOutput, VerifierInv, TypeOK
  <2>2. ASSUME NEW v \in Verifier,
               \/ \E j \in Job : Start(v, j)
               \/ GetReceipt(v) \/ GetTransaction(v) \/ GetBlockNumber(v)
               \/ GetManifest(v) \/ CheckOutput(v) \/ Crash(v)
        PROVE  files' = files
    BY <2>2 DEF Start, GetReceipt, GetTransaction, GetBlockNumber, GetManifest,
                CheckOutput, Crash
  <2>3. CASE ChainStep \/ UNCHANGED vars
    BY <2>3 DEF ChainStep, vars, verifierVars
  <2>4. ASSUME NEW p \in Output, Clear(p) PROVE files'[o] = files[o]
    BY <2>4, FilesDiffer DEF Clear, VerifierInv, TypeOK
  <2> QED
    BY <2>1, <2>2, <2>3, <2>4 DEF Next, Step
<1> QED
  BY <1>1, <1>2, <1>3, VerifierInvariant, PTL DEF Spec, EvidenceKept
=============================================================================
