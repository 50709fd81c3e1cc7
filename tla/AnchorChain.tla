----------------------------- MODULE AnchorChain -----------------------------
(***************************************************************************)
(* The world the anchoring scripts talk to: deployments of                 *)
(* contracts/CoreRuleAnchor.sol and the EVM chain that runs them, as one   *)
(* RPC node shows it.  The chain is the node's canonical branch; every     *)
(* block carries at most one anchor transaction and the contract storage   *)
(* after it, as a block header carries its state root.  A reorganisation   *)
(* takes back blocks that are not yet out of reach and later blocks take   *)
(* their place; transactions taken back return to the pool, and may be     *)
(* lost from it.                                                           *)
(***************************************************************************)
EXTENDS Naturals, Sequences

CONSTANTS
    Address,        \* addresses at which CoreRuleAnchor is deployed
    Root,           \* non-zero Merkle roots
    Manifest,       \* non-zero manifest hashes
    Zero,           \* bytes32(0)
    Tx,             \* signed anchor transactions the wallets may broadcast
    TxTo,           \* the contract each one calls
    TxCall,         \* the calldata each one carries
    NoTx,           \* the content of a block without an anchor transaction
    MaxHeight,      \* bound: blocks on the canonical branch
    MaxReorgs,      \* bound: reorganisations in one behaviour
    MaxReorgDepth   \* the deepest reorganisation the network produces

\* The four arguments of anchorRuleBatch, which any caller chooses.
Call == [root: Root \cup {Zero}, manifest: Manifest \cup {Zero},
         count: Nat, mask: Nat]

ASSUME ChainAssumption ==
    /\ Zero \notin Root \cup Manifest
    /\ NoTx \notin Tx
    /\ TxTo \in [Tx -> Address]
    /\ TxCall \in [Tx -> Call]
    /\ MaxHeight \in Nat /\ MaxReorgs \in Nat /\ MaxReorgDepth \in Nat

VARIABLES
    chain,      \* the canonical branch: block h is chain[h]
    pool,       \* transactions the node knows and no canonical block holds
    reorgs,     \* how many reorganisations happened
    finalized   \* height up to which no reorganisation reaches any more

chainVars == <<chain, pool, reorgs, finalized>>
-----------------------------------------------------------------------------
(* The contract.                                                           *)

Key == Address \X Root

\* The mapping manifestByRoot of every deployment.
Storage == [Key -> Manifest \cup {Zero}]

GenesisStorage == [k \in Key |-> Zero]

\* Mutant of Accepts: the check that the root is not yet anchored is missing.
AcceptsAgain(storage, to, call) ==
    /\ call.root # Zero
    /\ call.manifest # Zero
    /\ call.count > 0
    /\ call.mask > 0 /\ call.mask <= 3

\* The require statements of anchorRuleBatch, in their order.
Accepts(storage, to, call) ==
    /\ call.root # Zero
    /\ call.manifest # Zero
    /\ call.count > 0
    /\ call.mask > 0 /\ call.mask <= 3
    /\ storage[<<to, call.root>>] = Zero

\* anchorRuleBatch: a failed require reverts, otherwise the slot is written
\* (and the event of the same content is emitted).
AnchorRuleBatch(storage, to, call) ==
    IF Accepts(storage, to, call)
    THEN [storage EXCEPT ![<<to, call.root>>] = call.manifest]
    ELSE storage
-----------------------------------------------------------------------------
(* The chain.                                                              *)

\* A block hash: two blocks of one height differ when a reorganisation lies
\* between them.
BlockHash == [number: Nat, branch: Nat]

Block == [hash: BlockHash, tx: Tx \cup {NoTx}, ok: BOOLEAN, storage: Storage]

Height == Len(chain)

StorageAt(h) == IF h = 0 THEN GenesisStorage ELSE chain[h].storage

Included(t) == \E h \in 1..Height : chain[h].tx = t

\* The block that would be mined next, with transaction t or with none.
NextBlock(t) ==
    [hash    |-> [number |-> Height + 1, branch |-> reorgs],
     tx      |-> t,
     ok      |-> t # NoTx /\ Accepts(StorageAt(Height), TxTo[t], TxCall[t]),
     storage |-> IF t = NoTx THEN StorageAt(Height)
                 ELSE AnchorRuleBatch(StorageAt(Height), TxTo[t], TxCall[t])]

\* No reorganisation is deeper than MaxReorgDepth, so a block with that many
\* blocks above it stays.
OutOfReach(height) ==
    IF height - MaxReorgDepth > finalized THEN height - MaxReorgDepth
                                          ELSE finalized

ChainInit ==
    /\ chain = <<>>
    /\ pool = {}
    /\ reorgs = 0
    /\ finalized = 0

\* A wallet signs and broadcasts the transaction CORE prepared, or broadcasts
\* it again; anybody may send any call.
Broadcast(t) ==
    /\ ~Included(t)
    /\ pool' = pool \cup {t}
    /\ UNCHANGED <<chain, reorgs, finalized>>

\* The pool loses a transaction.
Evict(t) ==
    /\ t \in pool
    /\ pool' = pool \ {t}
    /\ UNCHANGED <<chain, reorgs, finalized>>

\* A block is mined, with a pooled transaction or with none.  A signed
\* transaction runs once on a branch: its nonce is used up.
Mine(t) ==
    /\ Height < MaxHeight
    /\ t \in pool \cup {NoTx}
    /\ chain' = Append(chain, NextBlock(t))
    /\ pool' = pool \ {t}
    /\ finalized' = OutOfReach(Height + 1)
    /\ UNCHANGED reorgs

\* The canonical branch is taken back to height h.
Reorganise(h) ==
    /\ reorgs < MaxReorgs
    /\ finalized <= h /\ h < Height
    /\ chain' = SubSeq(chain, 1, h)
    /\ pool' = pool \cup ({chain[i].tx : i \in (h + 1)..Height} \ {NoTx})
    /\ reorgs' = reorgs + 1
    /\ UNCHANGED finalized

\* Blocks and transactions come and go without a reorganisation.
Advance ==
    \/ \E t \in Tx : Broadcast(t) \/ Evict(t)
    \/ \E t \in Tx \cup {NoTx} : Mine(t)
-----------------------------------------------------------------------------
ChainTypeOK ==
    /\ chain \in Seq(Block)
    /\ Height <= MaxHeight
    /\ pool \subseteq Tx
    /\ reorgs \in 0..MaxReorgs
    /\ finalized \in 0..Height

\* Block h carries a successful call for the root of key k.
Anchors(h, k) ==
    /\ chain[h].tx # NoTx
    /\ chain[h].ok
    /\ TxTo[chain[h].tx] = k[1]
    /\ TxCall[chain[h].tx].root = k[2]

\* The blocks of the canonical branch that anchored key k.
AnchoredAt(k) == {h \in 1..Height : Anchors(h, k)}

(* The event log explains the storage: on the canonical branch at most one
   successful call anchors a root of a deployment, a slot is non-zero exactly
   when there is one, and then it holds the manifest that call carried.
   (CoreRuleAnchor.sol: "one storage slot per unique root", the event being
   the source of everything else.) *)
LogExplainsStorage ==
    \A k \in Key :
        /\ \A g, h \in AnchoredAt(k) : g = h
        /\ (StorageAt(Height)[k] # Zero) <=> (AnchoredAt(k) # {})
        /\ \A h \in AnchoredAt(k) :
               StorageAt(Height)[k] = TxCall[chain[h].tx].manifest
=============================================================================
