------------------------- MODULE MCRuleAnchorVerifier -------------------------
(***************************************************************************)
(* Small instances of RuleAnchorVerifier for TLC.                          *)
(*                                                                         *)
(* The transactions: t1 anchors the batch; t2 anchors the same batch again *)
(* (another wallet, or a retry with a new nonce); t3 takes the same root   *)
(* with another manifest first; t4 sends a call the contract must reject;  *)
(* t5 anchors the batch in a second deployment.                            *)
(***************************************************************************)
EXTENDS RuleAnchorVerifier, TLC

CONSTANTS contract, deployment2, root, manifest, other, t1, t2, t3, t4, t5,
          v1, v2

TheBatch == [chain_id |-> 1, contract |-> contract, root |-> root,
             manifest |-> manifest, count |-> 2, mask |-> 3, valid |-> TRUE]

\* A valid batch with the root of TheBatch and another manifest.
RivalBatch == [TheBatch EXCEPT !.manifest = other, !.count = 1]

\* TheBatch with a broken proof, and TheBatch for another chain.
BrokenBatch == [TheBatch EXCEPT !.valid = FALSE]
ForeignBatch == [TheBatch EXCEPT !.chain_id = 2]

OneBatch == {TheBatch}
TwoBatches == {TheBatch, RivalBatch}
FourBatches == {TheBatch, RivalBatch, BrokenBatch, ForeignBatch}

AllTxTo == (t1 :> contract) @@ (t2 :> contract) @@ (t3 :> contract)
             @@ (t4 :> contract) @@ (t5 :> deployment2)
AllTxCall == (t1 :> Calldata(TheBatch)) @@ (t2 :> Calldata(TheBatch))
               @@ (t3 :> Calldata(RivalBatch))
               @@ (t4 :> [Calldata(TheBatch) EXCEPT !.mask = 4])
               @@ (t5 :> Calldata(TheBatch))

MCTxTo == [t \in Tx |-> AllTxTo[t]]
MCTxCall == [t \in Tx |-> AllTxCall[t]]

Everywhere == Calls
WhileWriting == {"block_number", "open", "write"}

VerifierSymmetry == Permutations(Verifier)
=============================================================================
